----------------------------- MODULE LoginGuard -----------------------------
(***************************************************************************)
(* The typed-password lockout of internal/stockroom/login_guard.go, as     *)
(* LoginByPassword uses it.  A guess is one call of LoginByPassword: check *)
(* reserves it, and fail, succeed or release settles it when the database  *)
(* and bcrypt have answered.  Each of the four holds the guard's mutex, so *)
(* each is one step; any number of guesses may be between two of them.     *)
(*                                                                         *)
(* Times are kept as how long ago they were, so that the clock needs no    *)
(* bound: an age stops growing at Window, where nothing asks further.      *)
(***************************************************************************)
EXTENDS Naturals, FiniteSets

CONSTANTS
    Numbers,    \* student numbers
    Guesses,    \* names for guesses; one may be used again once nothing counts it
    Limit,      \* loginFailLimit
    Window,     \* loginFailWindow
    Lockout     \* loginLockout

\* In the code 5 guesses, 15 minutes and 5 minutes.
ASSUME LimitsFit ==
    /\ Limit \in Nat \ {0} /\ Window \in Nat \ {0} /\ Lockout \in Nat \ {0}
    /\ Lockout <= Window /\ Numbers # {}

VARIABLES
    guess,    \* each guess: what became of it, for which number, how long ago
    fails,    \* the wrong guesses counted against each number
    left,     \* until, as the time left of the lock; 0 when there is none
    pending   \* reserved attempts of each number

guardVars == <<guess, fails, left, pending>>

Guess == [state : {"unused", "flying", "wrong"}, of : Numbers, age : 0..Window]

GuardTypeOK ==
    /\ guess \in [Guesses -> Guess]
    /\ fails \in [Numbers -> SUBSET Guesses]
    /\ left \in [Numbers -> 0..Lockout]
    /\ pending \in [Numbers -> 0..Limit]

NoGuess == [state |-> "unused", of |-> CHOOSE n \in Numbers : TRUE, age |-> 0]

GuardInit ==
    /\ guess = [s \in Guesses |-> NoGuess]
    /\ fails = [n \in Numbers |-> {}]
    /\ left = [n \in Numbers |-> 0]
    /\ pending = [n \in Numbers |-> 0]

Flying(n) == {s \in Guesses : guess[s].state = "flying" /\ guess[s].of = n}

\* The wrong answers of the last Lockout, since the number's last right one.
Recent(n) == {s \in Guesses : guess[s].state = "wrong" /\ guess[s].of = n
                                                       /\ guess[s].age < Lockout}

Unused(s) ==
    \/ guess[s].state = "unused"
    \/ guess[s].state = "wrong" /\ s \notin fails[guess[s].of] /\ guess[s].age >= Lockout

-----------------------------------------------------------------------------
(* The guard.                                                               *)

Pruned == [n \in Numbers |-> {s \in fails[n] : guess[s].age < Window}]

Settled(n) == [pending EXCEPT ![n] = IF @ <= 1 THEN 0 ELSE @ - 1]

Answered(s, answer) == guess' = [guess EXCEPT ![s] = answer]

\* Bug: only the failures already recorded count.
Check_InFlightUncounted(s, n) ==
    /\ Unused(s) /\ left[n] = 0
    /\ fails' = Pruned
    /\ \/ /\ Cardinality(Pruned[n]) < Limit
          /\ pending' = [pending EXCEPT ![n] = @ + 1]
          /\ Answered(s, [state |-> "flying", of |-> n, age |-> 0])
       \/ Cardinality(Pruned[n]) >= Limit /\ UNCHANGED <<guess, pending>>
    /\ UNCHANGED left

\* A locked number is refused and nothing changes.  Otherwise old failures are
\* dropped, and the guess is reserved unless those left and the guesses in
\* flight could lock the number already.
Check(s, n) ==
    /\ Unused(s) /\ left[n] = 0
    /\ fails' = Pruned
    /\ \/ /\ Cardinality(Pruned[n]) + pending[n] < Limit
          /\ pending' = [pending EXCEPT ![n] = @ + 1]
          /\ Answered(s, [state |-> "flying", of |-> n, age |-> 0])
       \/ Cardinality(Pruned[n]) + pending[n] >= Limit /\ UNCHANGED <<guess, pending>>
    /\ UNCHANGED left

\* A wrong password, a number no account has, or an account without a password.
Fail(s) ==
    LET n == guess[s].of
        recent == Pruned[n] \cup {s} IN
    /\ guess[s].state = "flying"
    /\ pending' = Settled(n)
    /\ Answered(s, [state |-> "wrong", of |-> n, age |-> 0])
    /\ \/ /\ Cardinality(recent) >= Limit
          /\ fails' = [Pruned EXCEPT ![n] = {}]
          /\ left' = [left EXCEPT ![n] = Lockout]
       \/ /\ Cardinality(recent) < Limit
          /\ fails' = [Pruned EXCEPT ![n] = recent]
          /\ UNCHANGED left

\* The right password clears the number's count, and its record of wrong ones.
Succeed(s) ==
    LET n == guess[s].of IN
    /\ guess[s].state = "flying"
    /\ pending' = Settled(n)
    /\ fails' = [fails EXCEPT ![n] = {}]
    /\ left' = [left EXCEPT ![n] = 0]
    /\ guess' = [t \in Guesses |->
                    IF t = s \/ (guess[t].state = "wrong" /\ guess[t].of = n)
                    THEN NoGuess ELSE guess[t]]

\* Bug: the early return that forgets its reservation.
Release_Forgotten(s) ==
    /\ guess[s].state = "flying"
    /\ Answered(s, NoGuess)
    /\ UNCHANGED <<fails, left, pending>>

\* The database could not answer.
Release(s) ==
    /\ guess[s].state = "flying"
    /\ pending' = Settled(guess[s].of)
    /\ Answered(s, NoGuess)
    /\ UNCHANGED <<fails, left>>

Tick ==
    /\ guess' = [s \in Guesses |->
                   [guess[s] EXCEPT !.age = IF guess[s].state = "wrong" /\ @ < Window
                                            THEN @ + 1 ELSE @]]
    /\ left' = [n \in Numbers |-> IF left[n] = 0 THEN 0 ELSE left[n] - 1]
    /\ UNCHANGED <<fails, pending>>

-----------------------------------------------------------------------------
Answer(s) == Fail(s) \/ Succeed(s) \/ Release(s)

GuardNext ==
    \/ \E s \in Guesses, n \in Numbers : Check(s, n)
    \/ \E s \in Guesses : Fail(s) \/ Succeed(s) \/ Release(s)
    \/ Tick

GuardSpec == GuardInit /\ [][GuardNext]_guardVars

\* Time passes, and every guess let through is settled: each path of
\* LoginByPassword after check ends in one of the three.
FairGuardSpec == GuardSpec /\ WF_guardVars(Tick) /\ \A s \in Guesses : WF_guardVars(Answer(s))

-----------------------------------------------------------------------------
(* What must hold.                                                          *)

\* The reservations are the guesses in flight, and with the failures counted
\* they are never more than Limit: thirty guesses sent at once are not all let
\* through while none of them has failed yet.
InFlightIsCounted ==
    \A n \in Numbers :
        /\ pending[n] = Cardinality(Flying(n))
        /\ Cardinality(fails[n]) + pending[n] <= Limit

\* A number is never answered "wrong" more than Limit times in any stretch of
\* Lockout without the right password among them, however the guesses overlap,
\* and although the lock forgets the failures that led to it.
GuessingIsSlow == \A n \in Numbers : Cardinality(Recent(n)) <= Limit

\* A lock runs its full time: no guess let through before it fell can lift it
\* by succeeding late, or start it again by failing late.
LocksRunTheirCourse ==
    [][\A n \in Numbers : left[n] > 0 => left'[n] \in {left[n], left[n] - 1}]_guardVars

\* No number is refused for good: the lock runs out and every reservation is
\* settled, so a student who knows the password gets to type it again.
Open(n) == left[n] = 0 /\ Cardinality(Pruned[n]) + pending[n] < Limit

NumbersReopen == \A n \in Numbers : ~Open(n) ~> Open(n)

-----------------------------------------------------------------------------
(* Why: while a number is locked no guess for it is in flight and none is   *)
(* counted; and what is recent is counted still, unless a lock younger than *)
(* it stands.                                                               *)

LockedIsQuiet == \A n \in Numbers : left[n] > 0 => Flying(n) = {} /\ fails[n] = {}

CountedIsWrong ==
    \A n \in Numbers : \A s \in fails[n] : guess[s].state = "wrong" /\ guess[s].of = n

LockCoversTheForgotten ==
    \A n \in Numbers : \A s \in Recent(n) \ fails[n] : left[n] + guess[s].age >= Lockout

GuardInductive ==
    /\ GuardTypeOK
    /\ \A n \in Numbers : IsFiniteSet(Flying(n)) /\ IsFiniteSet(fails[n]) /\ IsFiniteSet(Recent(n))
    /\ InFlightIsCounted
    /\ LockedIsQuiet
    /\ CountedIsWrong
    /\ LockCoversTheForgotten
    /\ GuessingIsSlow
=============================================================================
