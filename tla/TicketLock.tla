----------------------------- MODULE TicketLock -----------------------------
(***************************************************************************)
(* Common::Ticket_lock (lib/common/include/common/spinlocks.h), the lock   *)
(* of fixobd's metadata records and of nupm's transaction cache.           *)
(*                                                                         *)
(* Two unsigned short counters share a word: lock draws a number from      *)
(* users with an atomic add and spins until ticket shows it, unlock moves  *)
(* ticket on with a plain load and store, trylock compares and exchanges   *)
(* the whole word.  The counters wrap.                                     *)
(***************************************************************************)
EXTENDS Counting

CONSTANTS Thread,
          Modulus   \* 2^16, the values of an unsigned short

ASSUME ModulusAssumption == Modulus \in Nat \ {0}

\* Every thread may have drawn a number; more of them than numbers would have
\* two threads with the same.
ASSUME ThreadAssumption == Countable(Thread) /\ Cardinality(Thread) <= Modulus

VARIABLES ticket, users,  \* s.ticket and s.users
          pc,             \* where each thread is
          me,             \* local to lock and trylock: the number drawn
          next            \* local to unlock: ticket as it was loaded, plus one

vars == <<ticket, users, pc, me, next>>

Number == 0 .. Modulus - 1

\* What an unsigned short x becomes with ++.
Incremented(x) == (x + 1) % Modulus

\* The type of each variable: counters keep within their width.
TypeOK ==
  /\ ticket \in Number
  /\ users \in Number
  /\ pc \in [Thread -> {"out", "spin", "in", "unlock", "try"}]
  /\ me \in [Thread -> Number]
  /\ next \in [Thread -> Number]

Init ==
  /\ ticket = 0
  /\ users = 0
  /\ pc = [t \in Thread |-> "out"]
  /\ me = [t \in Thread |-> 0]
  /\ next = [t \in Thread |-> 0]

-----------------------------------------------------------------------------
Lock(t) ==
  /\ pc[t] = "out"
  /\ me' = [me EXCEPT ![t] = users]
  /\ users' = Incremented(users)
  /\ pc' = [pc EXCEPT ![t] = "spin"]
  /\ UNCHANGED <<ticket, next>>

\* The load that ends the spinning.
Enter(t) ==
  /\ pc[t] = "spin"
  /\ ticket = me[t]
  /\ pc' = [pc EXCEPT ![t] = "in"]
  /\ UNCHANGED <<ticket, users, me, next>>

\* s.ticket++ is a load and a store.
UnlockLoad(t) ==
  /\ pc[t] = "in"
  /\ next' = [next EXCEPT ![t] = Incremented(ticket)]
  /\ pc' = [pc EXCEPT ![t] = "unlock"]
  /\ UNCHANGED <<ticket, users, me>>

\* Mutant: the next number is taken from users instead of ticket.
UnlockStoreUsers(t) ==
  /\ pc[t] = "unlock"
  /\ ticket' = users
  /\ pc' = [pc EXCEPT ![t] = "out"]
  /\ UNCHANGED <<users, me, next>>

UnlockStore(t) ==
  /\ pc[t] = "unlock"
  /\ ticket' = next[t]
  /\ pc' = [pc EXCEPT ![t] = "out"]
  /\ UNCHANGED <<users, me, next>>

TrylockLoad(t) ==
  /\ pc[t] = "out"
  /\ me' = [me EXCEPT ![t] = users]
  /\ pc' = [pc EXCEPT ![t] = "try"]
  /\ UNCHANGED <<ticket, users, next>>

\* Mutant: the exchange compares users only, and not ticket.
TrylockSwapUsers(t) ==
  /\ pc[t] = "try"
  /\ IF users = me[t]
     THEN users' = Incremented(me[t]) /\ pc' = [pc EXCEPT ![t] = "in"]
     ELSE users' = users /\ pc' = [pc EXCEPT ![t] = "out"]
  /\ UNCHANGED <<ticket, me, next>>

\* Mutant: the exchange compares ticket only, and not users.
TrylockSwapTicket(t) ==
  /\ pc[t] = "try"
  /\ IF ticket = me[t]
     THEN users' = Incremented(me[t]) /\ pc' = [pc EXCEPT ![t] = "in"]
     ELSE users' = users /\ pc' = [pc EXCEPT ![t] = "out"]
  /\ UNCHANGED <<ticket, me, next>>

\* The exchange puts me, its old value, in ticket.
TrylockSwap(t) ==
  /\ pc[t] = "try"
  /\ IF users = me[t] /\ ticket = me[t]
     THEN users' = Incremented(me[t]) /\ pc' = [pc EXCEPT ![t] = "in"]
     ELSE users' = users /\ pc' = [pc EXCEPT ![t] = "out"]
  /\ UNCHANGED <<ticket, me, next>>

-----------------------------------------------------------------------------
Finish(t) == Enter(t) \/ UnlockLoad(t) \/ UnlockStore(t) \/ TrylockSwap(t)

Next == \E t \in Thread : Lock(t) \/ TrylockLoad(t) \/ Finish(t)

\* Threads run, and whoever has the lock gives it back; nobody has to ask.
Fairness == \A t \in Thread : WF_vars(Finish(t))

Spec == Init /\ [][Next]_vars

LiveSpec == Spec /\ Fairness

-----------------------------------------------------------------------------
\* At most one thread is between lock or a successful trylock and the store
\* that ends unlock.
MutualExclusion ==
  \A t, u \in Thread :
    pc[t] \in {"in", "unlock"} /\ pc[u] \in {"in", "unlock"} => t = u

\* The lock is fair: who spins in lock gets it, whatever trylock and the other
\* threads do, if each of them gives it back.
EveryoneEnters == \A t \in Thread : pc[t] = "spin" ~> pc[t] = "in"

\* The threads that have drawn a number and not given it up.
Active == {t \in Thread : pc[t] \in {"spin", "in", "unlock"}}

\* trylock overtakes nobody: it gets the lock only when no thread has it or
\* waits for it, however old the number is that it loaded and although the
\* counters may have come round to that number since.
TrylockFindsFree ==
  [][\A t \in Thread : pc[t] = "try" /\ pc'[t] = "in" => Active = {}]_vars

-----------------------------------------------------------------------------
\* The inductive invariant.

\* How many turns before number x is shown.
Turns(x) == IF ticket <= x THEN x - ticket ELSE x + Modulus - ticket

\* The numbers in use are the next ones to be shown, all different, and users
\* comes after them; the lock's holder has the one that is shown.
NumbersOK ==
  /\ users = (ticket + Cardinality(Active)) % Modulus
  /\ \A t \in Active : Turns(me[t]) < Cardinality(Active)
  /\ \A t, u \in Active : me[t] = me[u] => t = u
  /\ \A t \in Thread : pc[t] \in {"in", "unlock"} => me[t] = ticket
  /\ \A t \in Thread : pc[t] = "unlock" => next[t] = Incremented(ticket)

IInv == TypeOK /\ NumbersOK
=============================================================================
