-------------------------- MODULE LoginGuardProofs --------------------------
(***************************************************************************)
(* Proofs about LoginGuard, for any limit, window and lockout that fit and *)
(* any number of guesses in flight at once.                                *)
(***************************************************************************)
EXTENDS LoginGuard, FiniteSetTheorems, TLAPS

\* Pruning keeps a part of the failures, and nothing recent is pruned.
LEMMA PrunedKept ==
    ASSUME GuardInductive, NEW n \in Numbers
    PROVE  /\ Pruned[n] \subseteq fails[n]
           /\ IsFiniteSet(Pruned[n])
           /\ Cardinality(Pruned[n]) \in Nat
           /\ Cardinality(fails[n]) \in Nat
           /\ Cardinality(Pruned[n]) <= Cardinality(fails[n])
           /\ Recent(n) \cap fails[n] \subseteq Pruned[n]
<1>1. Pruned[n] \subseteq fails[n]
    BY DEF Pruned
<1>2. IsFiniteSet(fails[n])
    BY DEF GuardInductive
<1>3. /\ IsFiniteSet(Pruned[n])
      /\ Cardinality(Pruned[n]) <= Cardinality(fails[n])
    BY <1>1, <1>2, FS_Subset
<1>4. Cardinality(fails[n]) \in Nat /\ Cardinality(Pruned[n]) \in Nat
    BY <1>2, <1>3, FS_CardinalityType
<1>5. Recent(n) \cap fails[n] \subseteq Pruned[n]
  <2>1. SUFFICES ASSUME NEW s \in Guesses, guess[s].age < Lockout, s \in fails[n]
                 PROVE  guess[s].age < Window
      BY DEF Recent, Pruned
  <2>2. guess[s].age \in Nat
      BY DEF GuardInductive, GuardTypeOK, Guess
  <2> QED
      BY <2>1, <2>2, LimitsFit
<1> QED
    BY <1>1, <1>3, <1>4, <1>5

\* What is recent of an unlocked number is counted.
LEMMA RecentIsCounted ==
    ASSUME GuardInductive, NEW n \in Numbers, left[n] = 0
    PROVE  Recent(n) \subseteq fails[n]
<1>1. SUFFICES ASSUME NEW s \in Recent(n), s \notin fails[n]
               PROVE  FALSE
    OBVIOUS
<1>2. left[n] + guess[s].age >= Lockout /\ guess[s].age < Lockout
    BY <1>1 DEF GuardInductive, LockCoversTheForgotten, Recent
<1>3. guess[s].age \in Nat
    BY <1>1 DEF GuardInductive, GuardTypeOK, Guess, Recent
<1> QED
    BY <1>2, <1>3, LimitsFit

\* A guess in flight is reserved, and its number is not locked.
LEMMA FlyingIsReserved ==
    ASSUME GuardInductive, NEW s \in Guesses, guess[s].state = "flying"
    PROVE  /\ guess[s].of \in Numbers
           /\ s \in Flying(guess[s].of)
           /\ left[guess[s].of] = 0
           /\ pending[guess[s].of] \in Nat \ {0}
           /\ \A m \in Numbers : s \notin fails[m] /\ s \notin Recent(m)
<1> DEFINE n == guess[s].of
<1>1. n \in Numbers
    BY DEF GuardInductive, GuardTypeOK, Guess
<1>2. s \in Flying(n)
    BY DEF Flying
<1>3. left[n] = 0
    BY <1>1, <1>2, LimitsFit DEF GuardInductive, LockedIsQuiet, GuardTypeOK
<1>4. pending[n] = Cardinality(Flying(n)) /\ IsFiniteSet(Flying(n)) /\ pending[n] \in Nat
    BY <1>1, LimitsFit DEF GuardInductive, InFlightIsCounted, GuardTypeOK
<1>5. pending[n] # 0
    BY <1>2, <1>4, FS_EmptySet
<1>6. \A m \in Numbers : s \notin fails[m] /\ s \notin Recent(m)
    BY DEF GuardInductive, CountedIsWrong, Recent
<1> QED
    BY <1>1, <1>2, <1>3, <1>4, <1>5, <1>6

-----------------------------------------------------------------------------
LEMMA GuardStarts == GuardInit => GuardInductive
<1> SUFFICES ASSUME GuardInit PROVE GuardInductive
    OBVIOUS
<1>1. NoGuess \in Guess /\ NoGuess.state = "unused"
    BY LimitsFit DEF NoGuess, Guess
<1>2. \A n \in Numbers : Flying(n) = {} /\ fails[n] = {} /\ Recent(n) = {}
    BY <1>1 DEF GuardInit, Flying, Recent
<1>3. GuardTypeOK
    BY <1>1, LimitsFit DEF GuardInit, GuardTypeOK
<1>4. IsFiniteSet({}) /\ Cardinality({}) = 0
    BY FS_EmptySet
<1>5. InFlightIsCounted
    BY <1>2, <1>4, LimitsFit DEF InFlightIsCounted, GuardInit
<1>6. GuessingIsSlow
    BY <1>2, <1>4, LimitsFit DEF GuessingIsSlow
<1>7. LockedIsQuiet /\ CountedIsWrong /\ LockCoversTheForgotten
    BY <1>2 DEF LockedIsQuiet, CountedIsWrong, LockCoversTheForgotten
<1> QED
    BY <1>2, <1>3, <1>4, <1>5, <1>6, <1>7 DEF GuardInductive

\* A guess refused at its number's limit: only old failures are dropped.
LEMMA PruningKeeps ==
    ASSUME GuardInductive, fails' = Pruned, UNCHANGED <<guess, left, pending>>
    PROVE  GuardInductive'
<1>1. \A n \in Numbers : /\ Flying(n)' = Flying(n) /\ Recent(n)' = Recent(n)
                         /\ fails'[n] = Pruned[n]
    BY DEF Flying, Recent
<1>2. GuardTypeOK'
    BY DEF GuardInductive, GuardTypeOK, Pruned
<1>3. \A n \in Numbers : IsFiniteSet(Flying(n)) /\ IsFiniteSet(fails[n]) /\ IsFiniteSet(Recent(n))
    BY DEF GuardInductive
<1>4. (\A n \in Numbers : IsFiniteSet(Flying(n)) /\ IsFiniteSet(fails[n]) /\ IsFiniteSet(Recent(n)))'
    BY <1>1, <1>3, PrunedKept
<1>5. InFlightIsCounted'
  <2> SUFFICES ASSUME NEW n \in Numbers
               PROVE  /\ pending'[n] = Cardinality(Flying(n)')
                      /\ Cardinality(fails'[n]) + pending'[n] <= Limit
      BY DEF InFlightIsCounted
  <2>1. pending[n] = Cardinality(Flying(n)) /\ Cardinality(fails[n]) + pending[n] <= Limit
      BY DEF GuardInductive, InFlightIsCounted
  <2>2. pending[n] \in Nat
      BY LimitsFit DEF GuardInductive, GuardTypeOK
  <2> QED
      BY <1>1, <2>1, <2>2, PrunedKept, LimitsFit
<1>6. LockedIsQuiet'
    BY <1>1, PrunedKept DEF GuardInductive, LockedIsQuiet
<1>7. CountedIsWrong'
    BY <1>1, PrunedKept DEF GuardInductive, CountedIsWrong
<1>8. LockCoversTheForgotten'
  <2> SUFFICES ASSUME NEW n \in Numbers, NEW s \in Recent(n), s \notin Pruned[n]
               PROVE  left[n] + guess[s].age >= Lockout
      BY <1>1 DEF LockCoversTheForgotten
  <2>1. s \notin fails[n]
      BY PrunedKept
  <2> QED
      BY <2>1 DEF GuardInductive, LockCoversTheForgotten
<1>9. GuessingIsSlow'
    BY <1>1 DEF GuardInductive, GuessingIsSlow
<1> QED
    BY <1>2, <1>4, <1>5, <1>6, <1>7, <1>8, <1>9 DEF GuardInductive

\* A guess let through: it was recent for nobody, and is now in flight for n.
LEMMA ReservingKeeps ==
    ASSUME GuardInductive, NEW s \in Guesses, NEW n \in Numbers,
           Unused(s), left[n] = 0,
           Cardinality(Pruned[n]) + pending[n] < Limit,
           fails' = Pruned,
           pending' = [pending EXCEPT ![n] = @ + 1],
           guess' = [guess EXCEPT ![s] = [state |-> "flying", of |-> n, age |-> 0]],
           UNCHANGED left
    PROVE  GuardInductive'
<1>1. guess \in [Guesses -> Guess] /\ pending \in [Numbers -> 0..Limit] /\ fails \in [Numbers -> SUBSET Guesses]
    BY DEF GuardInductive, GuardTypeOK
<1>2. /\ \A m \in Numbers : s \notin Pruned[m] /\ s \notin Flying(m) /\ s \notin Recent(m)
      /\ \A m \in Numbers : \A t \in Pruned[m] : t \in fails[m]
  <2>1. CASE guess[s].state = "unused"
      BY <2>1 DEF GuardInductive, CountedIsWrong, Flying, Recent, Pruned
  <2>2. CASE guess[s].state = "wrong" /\ s \notin fails[guess[s].of] /\ guess[s].age >= Lockout
    <3>1. guess[s].age \in Nat
        BY <1>1 DEF Guess
    <3> QED
        BY <2>2, <3>1, LimitsFit DEF GuardInductive, CountedIsWrong, Flying, Recent, Pruned
  <2> QED
      BY <2>1, <2>2 DEF Unused
<1>3. \A m \in Numbers : /\ Flying(m)' = IF m = n THEN Flying(m) \cup {s} ELSE Flying(m)
                         /\ Recent(m)' = Recent(m)
                         /\ fails'[m] = Pruned[m]
    BY <1>1, <1>2 DEF Flying, Recent
<1>4. \A m \in Numbers : IsFiniteSet(Flying(m)) /\ IsFiniteSet(Recent(m))
    BY DEF GuardInductive
<1>5. (\A m \in Numbers : IsFiniteSet(Flying(m)) /\ IsFiniteSet(fails[m]) /\ IsFiniteSet(Recent(m)))'
  <2> SUFFICES ASSUME NEW m \in Numbers
               PROVE  IsFiniteSet(Flying(m)') /\ IsFiniteSet(fails'[m]) /\ IsFiniteSet(Recent(m)')
      OBVIOUS
  <2>1. IsFiniteSet(Flying(m) \cup {s})
      BY <1>4, FS_AddElement
  <2> QED
      BY <1>3, <1>4, <2>1, PrunedKept
<1>6. \A m \in Numbers : Cardinality(Flying(m)') = IF m = n THEN Cardinality(Flying(m)) + 1
                                                           ELSE Cardinality(Flying(m))
  <2> TAKE m \in Numbers
  <2>1. Cardinality(Flying(m) \cup {s}) = Cardinality(Flying(m)) + 1
      BY <1>2, <1>4, FS_AddElement
  <2> QED
      BY <1>3, <2>1
<1>7. InFlightIsCounted'
  <2> SUFFICES ASSUME NEW m \in Numbers
               PROVE  /\ pending'[m] = Cardinality(Flying(m)')
                      /\ Cardinality(fails'[m]) + pending'[m] <= Limit
      BY DEF InFlightIsCounted
  <2>1. pending[m] = Cardinality(Flying(m)) /\ Cardinality(fails[m]) + pending[m] <= Limit
      BY DEF GuardInductive, InFlightIsCounted
  <2>2. pending[m] \in Nat /\ Limit \in Nat /\ Cardinality(Pruned[m]) \in Nat
        /\ Cardinality(fails[m]) \in Nat /\ Cardinality(Pruned[m]) <= Cardinality(fails[m])
      BY <1>1, LimitsFit, PrunedKept
  <2>3. CASE m = n
      BY <1>1, <1>3, <1>6, <2>1, <2>2, <2>3
  <2>4. CASE m # n
      BY <1>1, <1>3, <2>1, <2>2, <2>4
  <2> QED
      BY <2>3, <2>4
<1>8. GuardTypeOK'
  <2>1. guess' \in [Guesses -> Guess]
      BY <1>1, LimitsFit DEF Guess
  <2>2. fails' \in [Numbers -> SUBSET Guesses]
      BY <1>1 DEF Pruned
  <2>3. pending' \in [Numbers -> 0..Limit]
    <3>1. pending[n] + 1 \in 0..Limit
        BY <1>1, LimitsFit, PrunedKept
    <3> QED
        BY <1>1, <3>1
  <2> QED
      BY <2>1, <2>2, <2>3 DEF GuardInductive, GuardTypeOK
<1>9. LockedIsQuiet'
  <2> SUFFICES ASSUME NEW m \in Numbers, left[m] > 0
               PROVE  Flying(m)' = {} /\ fails'[m] = {}
      BY DEF LockedIsQuiet
  <2>1. m # n
      BY LimitsFit
  <2>2. Flying(m) = {} /\ fails[m] = {}
      BY DEF GuardInductive, LockedIsQuiet
  <2> QED
      BY <1>3, <2>1, <2>2, PrunedKept
<1>10. CountedIsWrong'
    BY <1>1, <1>2, <1>3 DEF GuardInductive, CountedIsWrong
<1>11. LockCoversTheForgotten'
  <2> SUFFICES ASSUME NEW m \in Numbers, NEW t \in Recent(m), t \notin Pruned[m]
               PROVE  left[m] + guess'[t].age >= Lockout
      BY <1>3 DEF LockCoversTheForgotten
  <2>1. t \notin fails[m] /\ t # s
      BY <1>2, PrunedKept
  <2>2. guess'[t] = guess[t]
      BY <1>1, <2>1 DEF Recent
  <2> QED
      BY <2>1, <2>2 DEF GuardInductive, LockCoversTheForgotten
<1>12. GuessingIsSlow'
    BY <1>3 DEF GuardInductive, GuessingIsSlow
<1> QED
    BY <1>5, <1>7, <1>8, <1>9, <1>10, <1>11, <1>12 DEF GuardInductive

\* A guess for n settled, whatever its answer: one reservation fewer, and one
\* guess in flight fewer.
LEMMA SettledOne ==
    ASSUME GuardInductive, NEW n \in Numbers,
           NEW s \in Guesses, guess[s].state = "flying", guess[s].of = n,
           NEW after \in [Guesses -> Guess],
           after[s].state # "flying",
           \A t \in Guesses \ {s} : \/ after[t] = guess[t]
                                    \/ after[t].state # "flying" /\ guess[t].state # "flying",
           guess' = after,
           pending' = Settled(n)
    PROVE  /\ pending'[n] = pending[n] - 1
           /\ pending' \in [Numbers -> 0..Limit]
           /\ \A m \in Numbers : /\ Flying(m)' = Flying(m) \ {s}
                                 /\ IsFiniteSet(Flying(m)')
                                 /\ pending'[m] = Cardinality(Flying(m)')
                                 /\ pending'[m] \in Nat
                                 /\ pending'[m] <= pending[m]
<1>1. pending \in [Numbers -> 0..Limit] /\ Limit \in Nat
    BY LimitsFit DEF GuardInductive, GuardTypeOK
<1>2. n \in Numbers /\ s \in Flying(n) /\ pending[n] \in Nat \ {0}
    BY FlyingIsReserved
<1>3. \A m \in Numbers : IsFiniteSet(Flying(m)) /\ pending[m] = Cardinality(Flying(m))
    BY DEF GuardInductive, InFlightIsCounted
<1>4. \A m \in Numbers : Flying(m)' = Flying(m) \ {s} /\ (s \in Flying(m) <=> m = n)
    BY DEF Flying
<1>5. \A m \in Numbers : pending'[m] = IF m = n THEN pending[m] - 1 ELSE pending[m]
    BY <1>1, <1>2 DEF Settled
<1>6. pending' \in [Numbers -> 0..Limit]
    BY <1>1, <1>2 DEF Settled
<1>7. \A m \in Numbers : /\ IsFiniteSet(Flying(m)')
                         /\ pending'[m] = Cardinality(Flying(m)')
                         /\ pending'[m] \in Nat
                         /\ pending'[m] <= pending[m]
  <2> TAKE m \in Numbers
  <2>1. /\ IsFiniteSet(Flying(m) \ {s})
        /\ Cardinality(Flying(m) \ {s}) = IF s \in Flying(m) THEN Cardinality(Flying(m)) - 1
                                                            ELSE Cardinality(Flying(m))
      BY <1>3, FS_RemoveElement
  <2>2. pending[m] \in Nat /\ (m = n => pending[m] # 0) /\ pending'[m] \in Nat
      BY <1>1, <1>2, <1>6
  <2>3. pending[m] = Cardinality(Flying(m)) /\ Flying(m)' = Flying(m) \ {s}
      BY <1>3, <1>4
  <2>4. pending'[m] = Cardinality(Flying(m) \ {s})
      BY <1>4, <1>5, <2>1, <2>2, <2>3
  <2>5. pending'[m] <= pending[m]
      BY <1>5, <2>2
  <2> QED
      BY <2>1, <2>2, <2>3, <2>4, <2>5
<1> QED
    BY <1>2, <1>4, <1>5, <1>6, <1>7

LEMMA ReleaseKeeps ==
    ASSUME GuardInductive, NEW s \in Guesses, Release(s)
    PROVE  GuardInductive'
<1> DEFINE after == [guess EXCEPT ![s] = NoGuess]
<1>1. guess \in [Guesses -> Guess] /\ NoGuess \in Guess /\ NoGuess.state = "unused"
    BY LimitsFit DEF GuardInductive, GuardTypeOK, NoGuess, Guess
<1>2. PICK n \in Numbers : n = guess[s].of
    BY <1>1 DEF Guess
<1>3. guess[s].state = "flying" /\ guess' = after /\ pending' = Settled(n)
    BY <1>2 DEF Release, Answered
<1>4. after \in [Guesses -> Guess] /\ after[s].state # "flying"
      /\ \A t \in Guesses \ {s} : after[t] = guess[t]
    BY <1>1
<1>5. /\ pending' \in [Numbers -> 0..Limit]
      /\ \A m \in Numbers : /\ Flying(m)' = Flying(m) \ {s}
                            /\ IsFiniteSet(Flying(m)')
                            /\ pending'[m] = Cardinality(Flying(m)')
                            /\ pending'[m] \in Nat
                            /\ pending'[m] <= pending[m]
  <2> HIDE DEF after
  <2> QED
      BY <1>2, <1>3, <1>4, SettledOne
<1>6. /\ fails' = fails /\ left' = left
      /\ \A m \in Numbers : Recent(m)' = Recent(m) /\ s \notin fails[m]
    BY <1>1, <1>3, <1>4, FlyingIsReserved DEF Release, Recent
<1>7. GuardTypeOK'
    BY <1>3, <1>4, <1>5, <1>6 DEF GuardInductive, GuardTypeOK
<1>8. (\A m \in Numbers : IsFiniteSet(Flying(m)) /\ IsFiniteSet(fails[m]) /\ IsFiniteSet(Recent(m)))'
    BY <1>5, <1>6 DEF GuardInductive
<1>9. InFlightIsCounted'
  <2> SUFFICES ASSUME NEW m \in Numbers
               PROVE  Cardinality(fails[m]) + pending'[m] <= Limit
      BY <1>5, <1>6 DEF InFlightIsCounted
  <2>1. Cardinality(fails[m]) + pending[m] <= Limit /\ pending[m] \in Nat
      BY LimitsFit DEF GuardInductive, InFlightIsCounted, GuardTypeOK
  <2> QED
      BY <1>5, <2>1, PrunedKept, LimitsFit
<1>10. LockedIsQuiet'
    BY <1>5, <1>6 DEF GuardInductive, LockedIsQuiet
<1>11. CountedIsWrong'
    BY <1>3, <1>4, <1>6 DEF GuardInductive, CountedIsWrong
<1>12. LockCoversTheForgotten'
  <2> SUFFICES ASSUME NEW m \in Numbers, NEW t \in Recent(m), t \notin fails[m]
               PROVE  left[m] + after[t].age >= Lockout
      BY <1>3, <1>6 DEF LockCoversTheForgotten
  <2>1. t \in Guesses \ {s}
      BY <1>3 DEF Recent
  <2> QED
      BY <1>4, <2>1 DEF GuardInductive, LockCoversTheForgotten
<1>13. GuessingIsSlow'
    BY <1>6 DEF GuardInductive, GuessingIsSlow
<1> QED
    BY <1>7, <1>8, <1>9, <1>10, <1>11, <1>12, <1>13 DEF GuardInductive

LEMMA SucceedKeeps ==
    ASSUME GuardInductive, NEW s \in Guesses, Succeed(s)
    PROVE  GuardInductive'
<1>1. guess \in [Guesses -> Guess] /\ NoGuess \in Guess /\ NoGuess.state = "unused"
    BY LimitsFit DEF GuardInductive, GuardTypeOK, NoGuess, Guess
<1>2. PICK n \in Numbers : n = guess[s].of
    BY <1>1 DEF Guess
<1> DEFINE after == [t \in Guesses |->
                       IF t = s \/ (guess[t].state = "wrong" /\ guess[t].of = n)
                       THEN NoGuess ELSE guess[t]]
<1>3. /\ guess[s].state = "flying" /\ guess' = after /\ pending' = Settled(n)
      /\ fails' = [fails EXCEPT ![n] = {}] /\ left' = [left EXCEPT ![n] = 0]
    BY <1>2 DEF Succeed
<1>4. /\ after \in [Guesses -> Guess] /\ after[s].state # "flying"
      /\ \A t \in Guesses \ {s} : \/ after[t] = guess[t]
                                  \/ after[t].state # "flying" /\ guess[t].state # "flying"
    BY <1>1
<1>5. /\ pending' \in [Numbers -> 0..Limit]
      /\ \A m \in Numbers : /\ Flying(m)' = Flying(m) \ {s}
                            /\ IsFiniteSet(Flying(m)')
                            /\ pending'[m] = Cardinality(Flying(m)')
                            /\ pending'[m] \in Nat
                            /\ pending'[m] <= pending[m]
  <2> HIDE DEF after
  <2> QED
      BY <1>2, <1>3, <1>4, SettledOne
<1>6. \A m \in Numbers : /\ fails'[m] = IF m = n THEN {} ELSE fails[m]
                         /\ left'[m] = IF m = n THEN 0 ELSE left[m]
    BY <1>3 DEF GuardInductive, GuardTypeOK
<1>7. \A m \in Numbers : Recent(m)' = IF m = n THEN {} ELSE Recent(m)
    BY <1>1, <1>2, <1>3 DEF Recent
<1>8. \A m \in Numbers \ {n} : \A t \in fails[m] \cup Recent(m) : after[t] = guess[t]
    BY <1>1, <1>2, <1>3 DEF Recent, GuardInductive, CountedIsWrong, GuardTypeOK
<1> HIDE DEF after
<1>9. GuardTypeOK'
  <2>1. fails' \in [Numbers -> SUBSET Guesses] /\ left' \in [Numbers -> 0..Lockout]
      BY <1>3, LimitsFit DEF GuardInductive, GuardTypeOK
  <2> QED
      BY <1>3, <1>4, <1>5, <2>1 DEF GuardTypeOK
<1>10. (\A m \in Numbers : IsFiniteSet(Flying(m)) /\ IsFiniteSet(fails[m]) /\ IsFiniteSet(Recent(m)))'
    BY <1>5, <1>6, <1>7, FS_EmptySet DEF GuardInductive
<1>11. InFlightIsCounted'
  <2> SUFFICES ASSUME NEW m \in Numbers
               PROVE  Cardinality(fails'[m]) + pending'[m] <= Limit
      BY <1>5 DEF InFlightIsCounted
  <2>1. Cardinality(fails[m]) + pending[m] <= Limit /\ pending[m] \in Nat
      BY LimitsFit DEF GuardInductive, InFlightIsCounted, GuardTypeOK
  <2>2. Cardinality(fails[m]) \in Nat /\ Cardinality({}) = 0
      BY PrunedKept, FS_EmptySet
  <2>3. fails'[m] \in {{}, fails[m]} /\ pending'[m] \in Nat /\ pending'[m] <= pending[m]
      BY <1>5, <1>6
  <2>4. CASE fails'[m] = {}
      BY <2>1, <2>2, <2>3, <2>4, LimitsFit
  <2>5. CASE fails'[m] = fails[m]
      BY <2>1, <2>2, <2>3, <2>5, LimitsFit
  <2> QED
      BY <2>3, <2>4, <2>5
<1>12. LockedIsQuiet'
    BY <1>5, <1>6 DEF GuardInductive, LockedIsQuiet
<1>13. CountedIsWrong'
  <2> SUFFICES ASSUME NEW m \in Numbers, NEW t \in fails'[m]
               PROVE  after[t].state = "wrong" /\ after[t].of = m
      BY <1>3 DEF CountedIsWrong
  <2>1. m # n /\ t \in fails[m]
      BY <1>6
  <2> QED
      BY <1>8, <2>1 DEF GuardInductive, CountedIsWrong
<1>14. LockCoversTheForgotten'
  <2> SUFFICES ASSUME NEW m \in Numbers, NEW t \in Recent(m)', t \notin fails'[m]
               PROVE  left'[m] + after[t].age >= Lockout
      BY <1>3 DEF LockCoversTheForgotten
  <2>1. m # n /\ t \in Recent(m) /\ t \notin fails[m] /\ left'[m] = left[m]
      BY <1>6, <1>7
  <2>2. after[t] = guess[t]
      BY <1>8, <2>1
  <2> QED
      BY <2>1, <2>2 DEF GuardInductive, LockCoversTheForgotten
<1>15. GuessingIsSlow'
  <2> SUFFICES ASSUME NEW m \in Numbers PROVE Cardinality(Recent(m)') <= Limit
      BY DEF GuessingIsSlow
  <2>1. Recent(m)' \in {{}, Recent(m)}
      BY <1>7
  <2>2. Cardinality({}) <= Limit /\ Cardinality(Recent(m)) <= Limit
      BY FS_EmptySet, LimitsFit DEF GuardInductive, GuessingIsSlow
  <2> QED
      BY <2>1, <2>2
<1> QED
    BY <1>9, <1>10, <1>11, <1>12, <1>13, <1>14, <1>15 DEF GuardInductive

\* A wrong answer that does not lock its number is counted, and one
\* reservation fewer makes the room; one that does finds its number with no
\* other guess in flight, and everything recent counted.
LEMMA FailKeeps ==
    ASSUME GuardInductive, NEW s \in Guesses, Fail(s)
    PROVE  GuardInductive'
<1>1. guess \in [Guesses -> Guess] /\ fails \in [Numbers -> SUBSET Guesses] /\ left \in [Numbers -> 0..Lockout]
    BY DEF GuardInductive, GuardTypeOK
<1>2. PICK n \in Numbers : n = guess[s].of
    BY <1>1 DEF Guess
<1> DEFINE after == [guess EXCEPT ![s] = [state |-> "wrong", of |-> n, age |-> 0]]
           recent == Pruned[n] \cup {s}
<1>3. guess[s].state = "flying" /\ guess' = after /\ pending' = Settled(n)
    BY <1>2 DEF Fail, Answered
<1>4. /\ after \in [Guesses -> Guess] /\ after[s].state # "flying"
      /\ \A t \in Guesses \ {s} : after[t] = guess[t]
    BY <1>1, LimitsFit DEF Guess
<1>5. /\ pending'[n] = pending[n] - 1
      /\ pending' \in [Numbers -> 0..Limit]
      /\ \A m \in Numbers : /\ Flying(m)' = Flying(m) \ {s}
                            /\ IsFiniteSet(Flying(m)')
                            /\ pending'[m] = Cardinality(Flying(m)')
                            /\ pending'[m] \in Nat
                            /\ pending'[m] <= pending[m]
  <2> HIDE DEF after
  <2> QED
      BY <1>2, <1>3, <1>4, SettledOne
<1>6. /\ left[n] = 0 /\ pending[n] \in Nat \ {0}
      /\ \A m \in Numbers : s \notin fails[m] /\ s \notin Recent(m) /\ s \notin Pruned[m]
    BY <1>2, <1>3, FlyingIsReserved, PrunedKept
<1>7. \A m \in Numbers : Recent(m)' = IF m = n THEN Recent(m) \cup {s} ELSE Recent(m)
    BY <1>1, <1>3, <1>6, LimitsFit DEF Recent
<1>8. \A m \in Numbers : /\ fails[m] \subseteq Guesses
                         /\ IsFiniteSet(fails[m]) /\ IsFiniteSet(Recent(m))
                         /\ pending[m] \in Nat
                         /\ Cardinality(fails[m]) + pending[m] <= Limit
    BY <1>1, LimitsFit DEF GuardInductive, InFlightIsCounted, GuardTypeOK
<1>9. Recent(n) \subseteq Pruned[n]
    BY <1>6, RecentIsCounted, PrunedKept
<1>10. /\ IsFiniteSet(recent)
       /\ Cardinality(recent) = Cardinality(Pruned[n]) + 1
       /\ Cardinality(recent) \in Nat
       /\ Cardinality(recent) <= Cardinality(fails[n]) + 1
    BY <1>6, PrunedKept, FS_AddElement
<1>11. Cardinality(recent) + pending'[n] <= Limit
    BY <1>5, <1>6, <1>8, <1>10, PrunedKept, LimitsFit
<1>12. IsFiniteSet(Recent(n) \cup {s}) /\ Cardinality(Recent(n) \cup {s}) <= Cardinality(recent)
    BY <1>9, <1>10, FS_Subset
<1> HIDE DEF recent
<1>13. Cardinality(recent) <= Limit /\ (Cardinality(recent) >= Limit => pending'[n] = 0)
  <2>1. pending'[n] \in Nat /\ Cardinality(recent) \in Nat /\ Limit \in Nat
      BY <1>5, <1>10, LimitsFit
  <2> QED
      BY <1>11, <2>1
<1>14. Cardinality(Recent(n) \cup {s}) \in Nat /\ Cardinality(Recent(n) \cup {s}) <= Limit
    BY <1>10, <1>12, <1>13, FS_CardinalityType, LimitsFit
<1>15. GuessingIsSlow'
  <2> SUFFICES ASSUME NEW m \in Numbers PROVE Cardinality(Recent(m)') <= Limit
      BY DEF GuessingIsSlow
  <2>1. Cardinality(Recent(m)) <= Limit
      BY DEF GuardInductive, GuessingIsSlow
  <2> QED
      BY <1>7, <1>14, <2>1
<1>16. \A m \in Numbers : IsFiniteSet(Flying(m)') /\ IsFiniteSet(Recent(m)')
    BY <1>5, <1>7, <1>8, <1>12
\* What the two outcomes share: the counted failures of every number are among
\* the old ones and s, and only n's may be forgotten.
<1>17. \/ /\ Cardinality(recent) >= Limit
          /\ \A m \in Numbers : /\ fails'[m] = IF m = n THEN {} ELSE Pruned[m]
                                /\ left'[m] = IF m = n THEN Lockout ELSE left[m]
       \/ /\ Cardinality(recent) < Limit
          /\ \A m \in Numbers : /\ fails'[m] = IF m = n THEN recent ELSE Pruned[m]
                                /\ left'[m] = left[m]
  <2>1. \A S : \A m \in Numbers : [Pruned EXCEPT ![n] = S][m] = IF m = n THEN S ELSE Pruned[m]
      BY DEF Pruned
  <2>2. \A m \in Numbers : [left EXCEPT ![n] = Lockout][m] = IF m = n THEN Lockout ELSE left[m]
      BY <1>1
  <2>3. CASE /\ Cardinality(recent) >= Limit
             /\ fails' = [Pruned EXCEPT ![n] = {}]
             /\ left' = [left EXCEPT ![n] = Lockout]
    <3>1. \A m \in Numbers : fails'[m] = IF m = n THEN {} ELSE Pruned[m]
        BY <2>1, <2>3
    <3>2. \A m \in Numbers : left'[m] = IF m = n THEN Lockout ELSE left[m]
        BY <2>2, <2>3
    <3> QED
        BY <2>3, <3>1, <3>2
  <2>4. CASE /\ Cardinality(recent) < Limit
             /\ fails' = [Pruned EXCEPT ![n] = recent]
             /\ UNCHANGED left
    <3>1. \A m \in Numbers : fails'[m] = IF m = n THEN recent ELSE Pruned[m]
        BY <2>1, <2>4
    <3> QED
        BY <2>4, <3>1
  <2> QED
      BY <1>2, <2>3, <2>4 DEF Fail, recent
<1>18. \A m \in Numbers : fails'[m] \in {{}, Pruned[m], recent} /\ (fails'[m] = recent => m = n \/ fails'[m] = Pruned[m])
    BY <1>17
<1>19. GuardTypeOK'
  <2>1. recent \subseteq Guesses /\ \A m \in Numbers : Pruned[m] \subseteq Guesses
      BY <1>1 DEF recent, Pruned
  <2>2. fails' \in [Numbers -> SUBSET Guesses]
    <3>1. fails' = [m \in Numbers |-> fails'[m]]
        BY DEF Fail, Pruned
    <3> QED
        BY <1>18, <2>1, <3>1
  <2>3. left' \in [Numbers -> 0..Lockout]
    <3>1. Lockout \in 0..Lockout
        BY LimitsFit
    <3>2. left' = left \/ left' = [left EXCEPT ![n] = Lockout]
        BY <1>2 DEF Fail
    <3> QED
        BY <1>1, <3>1, <3>2
  <2> QED
      BY <1>3, <1>4, <1>5, <2>2, <2>3 DEF GuardTypeOK
<1>20. (\A m \in Numbers : IsFiniteSet(Flying(m)) /\ IsFiniteSet(fails[m]) /\ IsFiniteSet(Recent(m)))'
  <2> SUFFICES ASSUME NEW m \in Numbers PROVE IsFiniteSet(fails'[m])
      BY <1>16
  <2> QED
      BY <1>10, <1>18, PrunedKept, FS_EmptySet
<1>21. InFlightIsCounted'
  <2> SUFFICES ASSUME NEW m \in Numbers
               PROVE  Cardinality(fails'[m]) + pending'[m] <= Limit
      BY <1>5 DEF InFlightIsCounted
  <2>1. Cardinality({}) = 0 /\ pending'[m] \in 0..Limit
      BY <1>5, FS_EmptySet
  <2>2. Cardinality(Pruned[m]) + pending'[m] <= Limit
      BY <1>5, <1>8, PrunedKept, LimitsFit
  <2>3. CASE fails'[m] = {}
      BY <2>1, <2>3, LimitsFit
  <2>4. CASE fails'[m] = Pruned[m]
      BY <2>2, <2>4
  <2>5. CASE fails'[m] = recent /\ m = n
      BY <1>11, <2>5
  <2> QED
      BY <1>18, <2>3, <2>4, <2>5
<1>22. LockedIsQuiet'
  <2> SUFFICES ASSUME NEW m \in Numbers, left'[m] > 0
               PROVE  Flying(m)' = {} /\ fails'[m] = {}
      BY DEF LockedIsQuiet
  <2>1. CASE m = n
    <3>1. Cardinality(recent) >= Limit /\ fails'[m] = {}
        BY <1>6, <1>17, <2>1
    <3>2. Cardinality(Flying(m)') = 0 /\ IsFiniteSet(Flying(m)')
        BY <1>5, <1>13, <2>1, <3>1
    <3> QED
        BY <3>1, <3>2, FS_EmptySet
  <2>2. CASE m # n
    <3>1. left[m] > 0 /\ fails'[m] = Pruned[m]
        BY <1>17, <2>2
    <3>2. Flying(m) = {} /\ fails[m] = {}
        BY <3>1 DEF GuardInductive, LockedIsQuiet
    <3> QED
        BY <1>5, <3>1, <3>2, PrunedKept
  <2> QED
      BY <2>1, <2>2
<1>23. CountedIsWrong'
  <2> SUFFICES ASSUME NEW m \in Numbers, NEW t \in fails'[m]
               PROVE  after[t].state = "wrong" /\ after[t].of = m
      BY <1>3 DEF CountedIsWrong
  <2>1. CASE t \in Pruned[m]
    <3>1. t \in fails[m] /\ t # s /\ t \in Guesses
        BY <1>6, <1>8, <2>1, PrunedKept
    <3>2. guess[t].state = "wrong" /\ guess[t].of = m
        BY <3>1 DEF GuardInductive, CountedIsWrong
    <3> QED
        BY <1>4, <3>1, <3>2
  <2>2. CASE t = s /\ m = n
      BY <1>1, <2>2
  <2> QED
      BY <1>18, <2>1, <2>2 DEF recent
<1>24. LockCoversTheForgotten'
  <2> SUFFICES ASSUME NEW m \in Numbers, NEW t \in Recent(m)', t \notin fails'[m]
               PROVE  left'[m] + after[t].age >= Lockout
      BY <1>3 DEF LockCoversTheForgotten
  <2>1. CASE m = n
    <3>1. t \in recent
        BY <1>7, <1>9, <2>1 DEF recent
    <3>2. left'[m] = Lockout
        BY <1>17, <2>1, <3>1
    <3>3. t \in Guesses /\ after[t].age \in Nat
        BY <1>4 DEF Guess, Recent
    <3> QED
        BY <3>2, <3>3, LimitsFit
  <2>2. CASE m # n
    <3>1. t \in Recent(m) /\ t \notin Pruned[m] /\ left'[m] = left[m]
        BY <1>7, <1>17, <2>2
    <3>2. t \notin fails[m] /\ t \in Guesses /\ t # s
        BY <1>6, <3>1, PrunedKept DEF Recent
    <3>3. left[m] + guess[t].age >= Lockout
        BY <3>1, <3>2 DEF GuardInductive, LockCoversTheForgotten
    <3> QED
        BY <1>4, <3>1, <3>2, <3>3
  <2> QED
      BY <2>1, <2>2
<1> QED
    BY <1>15, <1>19, <1>20, <1>21, <1>22, <1>23, <1>24 DEF GuardInductive

\* A tick ages the wrong answers and the locks together.
LEMMA TickKeeps ==
    ASSUME GuardInductive, Tick
    PROVE  GuardInductive'
<1>1. /\ guess \in [Guesses -> Guess] /\ left \in [Numbers -> 0..Lockout]
      /\ Window \in Nat /\ Lockout \in Nat \ {0} /\ Lockout <= Window
    BY LimitsFit DEF GuardInductive, GuardTypeOK
<1>2. \A t \in Guesses : /\ guess'[t].state = guess[t].state
                         /\ guess'[t].of = guess[t].of
                         /\ guess[t].age \in 0..Window
                         /\ guess'[t].age = IF guess[t].state = "wrong" /\ guess[t].age < Window
                                            THEN guess[t].age + 1 ELSE guess[t].age
    BY <1>1 DEF Tick, Guess
<1>3. \A m \in Numbers : Flying(m)' = Flying(m)
    BY <1>2 DEF Flying
<1>4. \A m \in Numbers : Recent(m)' \subseteq Recent(m)
    BY <1>1, <1>2 DEF Recent
<1>5. fails' = fails /\ pending' = pending
    BY DEF Tick
<1>6. \A m \in Numbers : left'[m] = IF left[m] = 0 THEN 0 ELSE left[m] - 1
    BY DEF Tick
<1>7. GuardTypeOK'
  <2>1. guess' \in [Guesses -> Guess]
    <3>1. \A t \in Guesses : [guess[t] EXCEPT !.age = IF guess[t].state = "wrong" /\ @ < Window
                                                       THEN @ + 1 ELSE @] \in Guess
        BY <1>1 DEF Guess
    <3> QED
        BY <3>1 DEF Tick
  <2>2. left' \in [Numbers -> 0..Lockout]
    <3>1. left' = [m \in Numbers |-> IF left[m] = 0 THEN 0 ELSE left[m] - 1]
        BY DEF Tick
    <3>2. \A m \in Numbers : (IF left[m] = 0 THEN 0 ELSE left[m] - 1) \in 0..Lockout
        BY <1>1
    <3> QED
        BY <3>1, <3>2
  <2> QED
      BY <1>5, <2>1, <2>2 DEF GuardInductive, GuardTypeOK
<1>8. \A m \in Numbers : /\ IsFiniteSet(Recent(m)')
                         /\ Cardinality(Recent(m)') <= Limit
  <2> TAKE m \in Numbers
  <2>1. IsFiniteSet(Recent(m)) /\ Cardinality(Recent(m)) <= Limit
      BY DEF GuardInductive, GuessingIsSlow
  <2>2. IsFiniteSet(Recent(m)') /\ Cardinality(Recent(m)') <= Cardinality(Recent(m))
      BY <1>4, <2>1, FS_Subset
  <2>3. Cardinality(Recent(m)) \in Nat /\ Cardinality(Recent(m)') \in Nat
      BY <2>1, <2>2, FS_CardinalityType
  <2> QED
      BY <2>1, <2>2, <2>3, LimitsFit
<1>9. (\A m \in Numbers : IsFiniteSet(Flying(m)) /\ IsFiniteSet(fails[m]) /\ IsFiniteSet(Recent(m)))'
    BY <1>3, <1>5, <1>8 DEF GuardInductive
<1>10. InFlightIsCounted'
    BY <1>3, <1>5 DEF GuardInductive, InFlightIsCounted
<1>11. LockedIsQuiet'
    BY <1>1, <1>3, <1>5, <1>6 DEF GuardInductive, LockedIsQuiet
<1>12. CountedIsWrong'
  <2> SUFFICES ASSUME NEW m \in Numbers, NEW t \in fails[m]
               PROVE  guess'[t].state = "wrong" /\ guess'[t].of = m
      BY <1>5 DEF CountedIsWrong
  <2> QED
      BY <1>2 DEF GuardInductive, CountedIsWrong, GuardTypeOK
<1>13. LockCoversTheForgotten'
  <2> SUFFICES ASSUME NEW m \in Numbers, NEW t \in Recent(m)', t \notin fails[m]
               PROVE  left'[m] + guess'[t].age >= Lockout
      BY <1>5 DEF LockCoversTheForgotten
  <2>1. t \in Recent(m)
      BY <1>4
  <2>2. left[m] + guess[t].age >= Lockout
      BY <2>1 DEF GuardInductive, LockCoversTheForgotten
  <2>3. t \in Guesses /\ guess[t].state = "wrong" /\ guess[t].age < Lockout
      BY <2>1 DEF Recent
  <2>4. guess'[t].age = guess[t].age + 1 /\ guess[t].age \in Nat
      BY <1>1, <1>2, <2>3
  <2>5. left[m] \in Nat \ {0}
      BY <1>1, <2>2, <2>3, <2>4
  <2>6. left'[m] = left[m] - 1
      BY <1>6, <2>5
  <2> QED
      BY <1>1, <2>2, <2>4, <2>5, <2>6
<1> QED
    BY <1>7, <1>8, <1>9, <1>10, <1>11, <1>12, <1>13 DEF GuardInductive, GuessingIsSlow

LEMMA CheckKeeps ==
    ASSUME GuardInductive, NEW s \in Guesses, NEW n \in Numbers, Check(s, n)
    PROVE  GuardInductive'
<1>1. CASE Cardinality(Pruned[n]) + pending[n] < Limit
  <2>1. /\ Unused(s) /\ left[n] = 0 /\ fails' = Pruned
        /\ pending' = [pending EXCEPT ![n] = @ + 1]
        /\ guess' = [guess EXCEPT ![s] = [state |-> "flying", of |-> n, age |-> 0]]
        /\ UNCHANGED left
    <3>1. ~(Cardinality(Pruned[n]) + pending[n] >= Limit)
        BY <1>1, PrunedKept, LimitsFit DEF GuardInductive, GuardTypeOK
    <3> QED
        BY <3>1 DEF Check, Answered
  <2> QED
      BY <1>1, <2>1, ReservingKeeps
<1>2. CASE ~(Cardinality(Pruned[n]) + pending[n] < Limit)
  <2>1. fails' = Pruned /\ UNCHANGED <<guess, left, pending>>
      BY <1>2 DEF Check
  <2> QED
      BY <2>1, PruningKeeps
<1> QED
    BY <1>1, <1>2

-----------------------------------------------------------------------------
\* The guard's bookkeeping is right in every reachable state.
THEOREM GuardInvariant == GuardSpec => []GuardInductive
<1>1. GuardInductive /\ [GuardNext]_guardVars => GuardInductive'
  <2> SUFFICES ASSUME GuardInductive, [GuardNext]_guardVars
               PROVE  GuardInductive'
      OBVIOUS
  <2>1. CASE \E s \in Guesses, n \in Numbers : Check(s, n)
      BY <2>1, CheckKeeps
  <2>2. CASE \E s \in Guesses : Fail(s) \/ Succeed(s) \/ Release(s)
      BY <2>2, FailKeeps, SucceedKeeps, ReleaseKeeps
  <2>3. CASE Tick
      BY <2>3, TickKeeps
  <2>4. CASE UNCHANGED guardVars
      BY <2>4 DEF guardVars, GuardInductive, GuardTypeOK, InFlightIsCounted, LockedIsQuiet,
                  CountedIsWrong, LockCoversTheForgotten, GuessingIsSlow, Flying, Recent
  <2> QED
      BY <2>1, <2>2, <2>3, <2>4 DEF GuardNext
<1> QED
    BY <1>1, GuardStarts, PTL DEF GuardSpec

\* Type correctness: a number's reservations never exceed the limit, and a lock
\* never outlasts the lockout.
THEOREM GuardTyped == GuardSpec => []GuardTypeOK
<1>1. GuardInductive => GuardTypeOK
    BY DEF GuardInductive
<1> QED
    BY <1>1, GuardInvariant, PTL

\* The guesses in flight are the ones reserved, and they and the failures
\* counted never exceed the limit.
THEOREM AttemptsAreReserved == GuardSpec => []InFlightIsCounted
<1>1. GuardInductive => InFlightIsCounted
    BY DEF GuardInductive
<1> QED
    BY <1>1, GuardInvariant, PTL

\* No more than the limit of wrong answers in any lockout's length.
THEOREM GuessingStaysSlow == GuardSpec => []GuessingIsSlow
<1>1. GuardInductive => GuessingIsSlow
    BY DEF GuardInductive
<1> QED
    BY <1>1, GuardInvariant, PTL

\* Nobody lifts or restarts a lock before it has run out: no guess for a locked
\* number is in flight.
THEOREM LocksStand == GuardSpec => LocksRunTheirCourse
<1>1. GuardInductive /\ [GuardNext]_guardVars
        => [\A n \in Numbers : left[n] > 0 => left'[n] \in {left[n], left[n] - 1}]_guardVars
  <2> SUFFICES ASSUME GuardInductive, GuardNext, NEW n \in Numbers, left[n] > 0
               PROVE  left'[n] \in {left[n], left[n] - 1}
      OBVIOUS
  <2>1. left \in [Numbers -> 0..Lockout] /\ left[n] # 0
      BY LimitsFit DEF GuardInductive, GuardTypeOK
  <2>2. ASSUME NEW s \in Guesses, guess[s].state = "flying"
        PROVE  guess[s].of # n
      BY <2>1, <2>2, FlyingIsReserved
  <2>3. CASE \E s \in Guesses, m \in Numbers : Check(s, m)
      BY <2>3 DEF Check
  <2>4. CASE \E s \in Guesses : Fail(s) \/ Succeed(s) \/ Release(s)
      BY <2>1, <2>2, <2>4 DEF Fail, Succeed, Release
  <2>5. CASE Tick
      BY <2>1, <2>5 DEF Tick
  <2> QED
      BY <2>3, <2>4, <2>5 DEF GuardNext
<1> QED
    BY <1>1, GuardInvariant, PTL DEF GuardSpec, LocksRunTheirCourse
=============================================================================
