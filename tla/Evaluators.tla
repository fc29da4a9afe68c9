------------------------------ MODULE Evaluators ------------------------------
(***************************************************************************)
(* The evaluators of src/evaluator that look back at recent bloops:        *)
(* StreakEvaluator, DistinctValuesEvaluator and SpellingBeeEvaluator, each *)
(* as the result it returns for a bloop in hand.  They read the pruned     *)
(* collections of the BloopProvider, before the bloop is added to them.    *)
(***************************************************************************)
EXTENDS BloopProvider, RegistrationNumber

CONSTANTS
    RegistrationNumberOf,  \* RegistrationNumberProvider: player -> number
    Extractors,   \* functions from players to the ExtractResult of the player
    Letters,      \* the characters a word may have
    Bytes,        \* letter -> length of its UTF-8 encoding
    CharMap,      \* registered letter -> client
    MaxWordLen,   \* the longest word accepted, in bytes (100)
    MaxDuration,  \* Duration::MAX, scaled down
    MaxRequired   \* bound: min_required of an evaluator

ASSUME SpellingAssumption ==
    /\ MaxWordLen \in Nat /\ MaxDuration \in Nat
    /\ Bytes \in [Letters -> Nat]
    /\ \A char \in DOMAIN CharMap : CharMap[char] \in Clients
    /\ None \notin {"WordTooShort", "WordTooLong", "UnregisteredCharacter"}

-----------------------------------------------------------------------------
(* EvalResult, and its conversion from a Boolean verdict.                  *)
NoAward == [kind |-> "NoAward", players |-> <<>>]
AwardSelf == [kind |-> "AwardSelf", players |-> <<>>]
AwardMultiple(pids) == [kind |-> "AwardMultiple", players |-> pids]

FromBool(verdict) == IF verdict THEN AwardSelf ELSE NoAward

(* AwardMode: who receives the award when the evaluation passes.           *)
AwardModes == {"Current", "All"}

Award(mode, pids) == IF mode = "All" THEN AwardMultiple(pids) ELSE AwardSelf

(* AchievementContext: what an evaluator sees of the bloops before         *)
(* current, newest first.                                                  *)
WithinWindow(current, bloops, window) ==
    Filtered(bloops, {b \in Bloop : b.at + window >= current.at})

CurrentPlayer(current, bloops) == Filtered(bloops, {b \in Bloop : b.pid = current.pid})

Take(bloops, n) == SubSeq(bloops, 1, Min({n, Len(bloops)}))

-----------------------------------------------------------------------------
(* The streak evaluators build_predicate_evaluator and                     *)
(* build_projection_match_evaluator make: pairs of a player and the        *)
(* current player that the predicate accepts.                              *)
PredicateMatch(predicate) ==
    {pair \in Pids \X Pids : predicate[RegistrationNumberOf[pair[1]]]}

ProjectionMatch(projector) ==
    {pair \in Pids \X Pids :
        projector[RegistrationNumberOf[pair[1]]] = projector[RegistrationNumberOf[pair[2]]]}

(* bound: the windows of the evaluators, the last longer than max_age.     *)
Windows == {0, MaxAge, MaxAge + 1}

Streaks ==
    [min_required: 0..MaxRequired, max_window: Windows, award_mode: AwardModes,
     predicate: {PredicateMatch([n \in Nat |-> IsPrime(n)]),
                 PredicateMatch([n \in Nat |-> IsFibonacci(n)]),
                 PredicateMatch([n \in Nat |-> IsPerfectSquare(n)]),
                 ProjectionMatch(DigitSum)}]

EvaluateStreakAnyLength(e, current) ==
    LET Step(acc, b) ==
            [passed |-> /\ acc.passed
                        /\ b.pid \notin ToSet(acc.ids)
                        /\ <<b.pid, current.pid>> \in e.predicate,
             ids |-> Append(acc.ids, b.pid)]
        seen == Take(WithinWindow(current, clientBloops[current.client], e.max_window),
                     e.min_required)
        end == FoldLeft(Step, [passed |-> TRUE, ids |-> <<current.pid>>], seen) IN
    IF end.passed /\ Len(end.ids) >= e.min_required
    THEN Award(e.award_mode, end.ids) ELSE NoAward

(* StreakEvaluator::evaluate: the loop over the min_required newest bloops *)
(* of the client within the window ends at a player it has met before, the *)
(* current one included, and at one the predicate rejects.                 *)
EvaluateStreak(e, current) ==
    LET Step(acc, b) ==
            [passed |-> /\ acc.passed
                        /\ b.pid \notin ToSet(acc.ids)
                        /\ <<b.pid, current.pid>> \in e.predicate,
             ids |-> Append(acc.ids, b.pid)]
        seen == Take(WithinWindow(current, clientBloops[current.client], e.max_window),
                     e.min_required)
        end == FoldLeft(Step, [passed |-> TRUE, ids |-> <<current.pid>>], seen) IN
    IF end.passed /\ Len(end.ids) > e.min_required
    THEN Award(e.award_mode, end.ids) ELSE NoAward

-----------------------------------------------------------------------------
(* ExtractResult: the values of a player, or Abort.                        *)
Single(v) == [kind |-> "Single", values |-> {v}]
Multiple(vs) == [kind |-> "Multiple", values |-> vs]
Abort == [kind |-> "Abort", values |-> {}]

Distincts ==
    [min_required: 0..MaxRequired, max_window: Windows, award_mode: AwardModes,
     extract: Extractors]

EvaluateDistinctNoBreak(e, current) ==
    LET Step(acc, b) ==
            LET result == e.extract[b.pid] IN
            [passed |-> /\ acc.passed
                        /\ b.pid \notin ToSet(acc.ids)
                        /\ result.kind # "Abort",
             ids |-> Append(acc.ids, b.pid),
             values |-> acc.values \cup result.values]
        seen == Take(WithinWindow(current, clientBloops[current.client], e.max_window),
                     e.min_required)
        end == FoldLeft(Step, [passed |-> TRUE, ids |-> <<current.pid>>, values |-> {}], seen) IN
    IF end.passed /\ Cardinality(end.values) >= e.min_required
    THEN Award(e.award_mode, end.ids) ELSE NoAward

(* DistinctValuesEvaluator::evaluate: the same loop, which collects values *)
(* and breaks as soon as there are min_required of them.                   *)
EvaluateDistinct(e, current) ==
    LET Step(acc, b) ==
            LET result == e.extract[b.pid] IN
            IF ~acc.passed \/ Cardinality(acc.values) >= e.min_required
            THEN acc
            ELSE [passed |-> b.pid \notin ToSet(acc.ids) /\ result.kind # "Abort",
                  ids |-> Append(acc.ids, b.pid),
                  values |-> acc.values \cup result.values]
        seen == Take(WithinWindow(current, clientBloops[current.client], e.max_window),
                     e.min_required)
        end == FoldLeft(Step, [passed |-> TRUE, ids |-> <<current.pid>>, values |-> {}], seen) IN
    IF end.passed /\ Cardinality(end.values) >= e.min_required
    THEN Award(e.award_mode, end.ids) ELSE NoAward

-----------------------------------------------------------------------------
(* The length of a word in bytes.                                          *)
ByteLen(word) == FoldLeft(LAMBDA n, char : n + Bytes[char], 0, word)

(* SpellingBeeEvaluator::new: the clients of the word's letters, last one  *)
(* first, and the time for the whole word; an error, in the order the code *)
(* finds it.                                                               *)
SpellingBee(word, time_per_character) ==
    LET Evaluator(error) ==
            [error |-> error, word |-> word, time_per_character |-> time_per_character,
             client_ids |-> IF error # None THEN <<>>
                            ELSE [i \in DOMAIN word |-> CharMap[Reverse(word)[i]]],
             max_time |-> time_per_character * ByteLen(word)] IN
    IF word = <<>> THEN Evaluator("WordTooShort")
    ELSE IF ByteLen(word) > MaxWordLen \/ time_per_character * ByteLen(word) > MaxDuration
    THEN Evaluator("WordTooLong")
    ELSE IF ~ToSet(word) \subseteq DOMAIN CharMap THEN Evaluator("UnregisteredCharacter")
    ELSE Evaluator(None)

Bees == {SpellingBee(word, t) : word \in BoundedSeq(Letters, MaxWordLen), t \in 0..MaxAge}

EvaluateSpellingOfClient(e, current) ==
    LET seen == CurrentPlayer(current, WithinWindow(current, clientBloops[current.client], e.max_time))
        last == Take(seen, Len(e.client_ids) - 1) IN
    FromBool(/\ current.client = Head(e.client_ids)
             /\ [i \in DOMAIN last |-> last[i].client] = Tail(e.client_ids))

(* SpellingBeeEvaluator::evaluate: the player's own bloops, on every       *)
(* client, against the letters before the last.                            *)
EvaluateSpelling(e, current) ==
    LET seen == CurrentPlayer(current, WithinWindow(current, globalBloops, e.max_time))
        last == Take(seen, Len(e.client_ids) - 1) IN
    FromBool(/\ current.client = Head(e.client_ids)
             /\ [i \in DOMAIN last |-> last[i].client] = Tail(e.client_ids))

-----------------------------------------------------------------------------
(* Every bloop that could be under way now: made since the last one was    *)
(* added, and not necessarily right now.                                   *)
Candidates == [pid: Pids, client: Clients, at: addedAt..now]

(* The bloops of the client within the window, of everything that ever     *)
(* happened.                                                               *)
RecentHistory(current, window) ==
    WithinWindow(current, OfClient(allBloops, current.client), window)

(* The players of a sequence of bloops after the current one are all       *)
(* different, and none of them is the current player.                      *)
DistinctPlayers(current, bloops) ==
    \A i \in DOMAIN bloops :
        /\ bloops[i].pid # current.pid
        /\ \A j \in DOMAIN bloops : i # j => bloops[i].pid # bloops[j].pid

PlayersOf(current, bloops) ==
    <<current.pid>> \o [i \in DOMAIN bloops |-> bloops[i].pid]

(* What an evaluator with the given window returned is what it should have *)
(* found in the whole history.  A window longer than max_age may reach     *)
(* back to bloops that have been pruned: that can cost the award, but it   *)
(* never makes one up or awards other players.                             *)
Agrees(result, expected, window) ==
    result = expected \/ (window > MaxAge /\ result = NoAward)

(* "Awards the current or all participating players when the matching      *)
(* bloops reach the min_required count" (streak.rs:113): whatever has been *)
(* pruned, an evaluator whose window is at most max_age awards exactly     *)
(* when the client's last min_required bloops are within the window, match *)
(* and come from different players, and it awards those players; one with  *)
(* a longer window can only miss awards.                                   *)
StreakExact ==
    \A e \in Streaks, current \in Candidates :
        LET recent == RecentHistory(current, e.max_window)
            streak == SubSeq(recent, 1, e.min_required)
            expected ==
                IF /\ Len(recent) >= e.min_required
                   /\ DistinctPlayers(current, streak)
                   /\ \A i \in DOMAIN streak : <<streak[i].pid, current.pid>> \in e.predicate
                THEN Award(e.award_mode, PlayersOf(current, streak))
                ELSE NoAward IN
        Agrees(EvaluateStreak(e, current), expected, e.max_window)

(* The distinct values evaluator awards exactly when some number of the    *)
(* client's last bloops, at most min_required, come from different         *)
(* players, none of which aborts, and hold min_required values between     *)
(* them; the fewest such bloops are the ones whose players it awards.      *)
DistinctExact ==
    \A e \in Distincts, current \in Candidates :
        LET recent == RecentHistory(current, e.max_window)
            Enough(n) ==
                LET first == SubSeq(recent, 1, n) IN
                /\ DistinctPlayers(current, first)
                /\ \A i \in DOMAIN first : e.extract[first[i].pid].kind # "Abort"
                /\ Cardinality(UNION {e.extract[b.pid].values : b \in ToSet(first)}) >= e.min_required
            enough == {n \in 0..Min({e.min_required, Len(recent)}) : Enough(n)}
            expected ==
                IF enough = {} THEN NoAward
                ELSE Award(e.award_mode, PlayersOf(current, SubSeq(recent, 1, Min(enough)))) IN
        Agrees(EvaluateDistinct(e, current), expected, e.max_window)

(* A word is accepted when it has a letter, fits and is written in         *)
(* registered letters.  An accepted word is spelled exactly when the       *)
(* player's last bloops, the current one included, were at the clients of  *)
(* its letters in order, all of them within the word's time, whatever      *)
(* other players did in between; a word whose time is longer than max_age  *)
(* may be missed.                                                          *)
SpellingExact ==
    \A e \in Bees :
        /\ (e.error = None) = (/\ Len(e.word) > 0 /\ ByteLen(e.word) <= MaxWordLen
                               /\ e.max_time <= MaxDuration
                               /\ \A i \in DOMAIN e.word : e.word[i] \in DOMAIN CharMap)
        /\ e.error = None =>
            \A current \in Candidates :
                LET bloops == <<current>> \o CurrentPlayer(current, allBloops)
                    length == Len(e.word)
                    spelled ==
                        /\ Len(bloops) >= length
                        /\ \A i \in 1..length :
                            /\ bloops[i].client = CharMap[e.word[length + 1 - i]]
                            /\ current.at - bloops[i].at <= e.time_per_character * ByteLen(e.word) IN
                Agrees(EvaluateSpelling(e, current), FromBool(spelled), e.max_time)
=============================================================================
