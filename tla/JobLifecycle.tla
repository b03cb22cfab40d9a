---------------------------- MODULE JobLifecycle ----------------------------
(***************************************************************************)
(* What the Claude Translate queue promises the person who clicked the    *)
(* button, with no worker, no request and no clock in sight.               *)
(*                                                                         *)
(* A job waits, is held by somebody, and ends delivered, failed or         *)
(* withdrawn.  It starts with Tries attempts; holding it costs one, and    *)
(* only an attempt that is given back returns it.  A waiting job always    *)
(* has an attempt left, and a file is never in two active jobs at once.    *)
(***************************************************************************)
EXTENDS Integers

CONSTANTS Jobs,   \* every job that can ever exist
          Files,  \* the source files a job can be about
          Tries   \* attempts a job starts with

VARIABLES state,  \* state[j]: where job j stands
          left,   \* left[j]: attempts job j still has
          about   \* about[j]: the file job j translates

lifecycleVars == <<state, left, about>>

States == {"absent", "waiting", "held", "delivered", "failed", "withdrawn"}

IsActive(st, j) == st[j] \in {"waiting", "held"}

OnePerFile(st, ab) ==
    \A i, j \in Jobs : IsActive(st, i) /\ IsActive(st, j) /\ ab[i] = ab[j] => i = j

Init ==
    /\ state = [j \in Jobs |-> "absent"]
    /\ left  = [j \in Jobs |-> Tries]
    /\ about \in [Jobs -> Files]

-----------------------------------------------------------------------------
(* The moves of one job. *)

From(j, before, after) == state[j] = before /\ state'[j] = after

Stay(j)     == state'[j] = state[j] /\ left'[j] = left[j] /\ about'[j] = about[j]
Keep(j)     == left'[j] = left[j] /\ about'[j] = about[j]

Ask(j)      == From(j, "absent", "waiting") /\ left'[j] = Tries
Hold(j)     == From(j, "waiting", "held") /\ left[j] > 0 /\ left'[j] = left[j] - 1 /\ about'[j] = about[j]
Deliver(j)  == From(j, "held", "delivered") /\ Keep(j)
Fail(j)     == From(j, "held", "failed") /\ Keep(j)
Spoil(j)    == From(j, "waiting", "failed") /\ left[j] > 0 /\ left'[j] = left[j] - 1 /\ about'[j] = about[j]
GiveBack(j) == From(j, "held", "waiting") /\ left'[j] = left[j] + 1 /\ about'[j] = about[j]
PutBack(j)  == From(j, "held", "waiting") /\ left[j] > 0 /\ Keep(j)
Withdraw(j) == From(j, "waiting", "withdrawn") /\ Keep(j)
AskAgain(j) == From(j, "failed", "waiting") /\ left'[j] = Tries /\ about'[j] = about[j]

Move(j) ==
    \/ Stay(j)    \/ Ask(j)      \/ Hold(j)    \/ Deliver(j) \/ Fail(j) \/ Spoil(j)
    \/ GiveBack(j) \/ PutBack(j) \/ Withdraw(j) \/ AskAgain(j)

(* One transaction may move several jobs, each by a move of its own. *)
Next == (\A j \in Jobs : Move(j)) /\ OnePerFile(state', about')

Spec == Init /\ [][Next]_lifecycleVars
=============================================================================
