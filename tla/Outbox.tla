-------------------------------- MODULE Outbox --------------------------------
(***************************************************************************)
(* What a durable upload queue promises.  A job is a promise that the      *)
(* backup of a file will hold at least the content the file had when the   *)
(* job was handed in.  An open promise is never dropped, a promise is kept *)
(* only when the backup is new enough, a settled promise stays settled     *)
(* until it is forgotten, and a backup does not return to older content.   *)
(* Two things end these obligations.  Where somebody else writes over the  *)
(* file, the content of its backup is not the queue's business any more;   *)
(* and a list of promises that was damaged promises nothing.               *)
(***************************************************************************)
EXTENDS Integers

CONSTANTS
    Job, Name, NameOf,
    MaxVersion   \* bound on the versions of a file

VARIABLES
    backup,   \* [Name -> version of the content held by the backup]
    need,     \* [Job -> version the promise is about]
    lost,     \* the promises whose content was written over
    promise,  \* [Job -> "new", "open", "kept", "broken" or "forgotten"]
    sound     \* the list of promises was never damaged

Init ==
    /\ backup \in [Name -> 0..MaxVersion]
    /\ need = [j \in Job |-> 0]
    /\ lost = {}
    /\ promise = [j \in Job |-> "new"]
    /\ sound = TRUE

Promise(j, v) ==
    /\ promise[j] = "new"
    /\ promise' = [promise EXCEPT ![j] = "open"]
    /\ need' = [need EXCEPT ![j] = v]
    /\ lost' \in {lost, lost \cup {j}}
    /\ UNCHANGED <<backup, sound>>

\* The file of n is written over: the content of its promises is gone.
Overwrite(n) ==
    /\ lost' = lost \cup {j \in Job : NameOf[j] = n /\ promise[j] # "new"}
    /\ UNCHANGED <<backup, need, promise, sound>>

Backup(n, v) ==
    /\ v >= backup[n] \/ \E j \in lost : NameOf[j] = n
    /\ backup' = [backup EXCEPT ![n] = v]
    /\ UNCHANGED <<need, lost, promise, sound>>

Keep(j) ==
    /\ promise[j] = "open"
    /\ backup[NameOf[j]] >= need[j] \/ j \in lost
    /\ promise' = [promise EXCEPT ![j] = "kept"]
    /\ UNCHANGED <<backup, need, lost, sound>>

Break(j) ==
    /\ promise[j] = "open"
    /\ promise' = [promise EXCEPT ![j] = "broken"]
    /\ UNCHANGED <<backup, need, lost, sound>>

\* Settled promises are forgotten, any number of them at once.
Forget(S) ==
    /\ \A j \in S : promise[j] \in {"kept", "broken"}
    /\ promise' = [j \in Job |-> IF j \in S THEN "forgotten" ELSE promise[j]]
    /\ UNCHANGED <<backup, need, lost, sound>>

\* The list is damaged, now or earlier.
Damaged == ~sound'

Next ==
    \/ \E j \in Job, v \in 1..MaxVersion : Promise(j, v)
    \/ \E n \in Name, v \in 0..MaxVersion : Backup(n, v)
    \/ \E n \in Name : Overwrite(n)
    \/ \E j \in Job : Keep(j) \/ Break(j)
    \/ \E S \in SUBSET Job : Forget(S)
    \/ Damaged

vars == <<backup, need, lost, promise, sound>>
Spec == Init /\ [][Next]_vars
=============================================================================
