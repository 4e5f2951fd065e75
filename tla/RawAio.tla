-------------------------------- MODULE RawAio --------------------------------
(***************************************************************************)
(* Asynchronous requests to the host (block-raw-posix.c).  A request is    *)
(* put on the list first_aio and handed to the POSIX AIO of the host,      *)
(* which completes it at any time and then sends a signal.  The program    *)
(* polls the list from its main loop, or blocks the signal and waits for   *)
(* it: qemu_aio_flush before a snapshot is taken or loaded, bdrv_read_em   *)
(* and bdrv_write_em of block.c (same code) when a device wants its data   *)
(* at once.  A signal that is sent twice while blocked is kept once.       *)
(***************************************************************************)
EXTENDS Naturals, Sequences, Functions

CONSTANTS
  Req,                     \* the RawAIOCB structures
  Flush,                   \* what is waited for: every request
  None,
  CancelAny,               \* whether a request other than the newest is cancelled
  MayRefuse,               \* whether aio_read and aio_write may fail
  MaxSubmits               \* bound: requests

VARIABLES
  first_aio,               \* the list, newest request first
  result,                  \* of each structure: free, or what aio_error gives
  unsent,                  \* completed requests whose signal is still to be sent
  signal,                  \* the signal is pending
  blocked,                 \* the signal is blocked, sigprocmask
  pc,                      \* where the main thread is
  at,                      \* position of qemu_aio_poll in the list
  then,                    \* what qemu_aio_poll returns to
  want,                    \* what the thread waits for
  submits,
  cancelled                \* history: newest requests a device has cancelled and not reused

listVars == <<first_aio, result, submits, cancelled>>
waitVars == <<blocked, want>>
vars == <<listVars, waitVars, unsent, signal, pc, at, then>>

Init ==
  /\ first_aio = <<>> /\ result = [r \in Req |-> "free"]
  /\ unsent = {} /\ signal = FALSE /\ blocked = FALSE
  /\ pc = "main" /\ at = 1 /\ then = "main" /\ want = None
  /\ submits = 0 /\ cancelled = {}

-----------------------------------------------------------------------------
\* raw_aio_setup and the call of aio_read or aio_write: the list l takes the
\* request before the host does; a refused one is released and stays there.
\* (Its next use would close the list to a cycle and is not modelled.)
Submitted(l, st, r) ==
  /\ st[r] = "free" /\ r \notin Range(l) /\ submits < MaxSubmits
  /\ submits' = submits + 1
  /\ first_aio' = <<r>> \o l
  /\ result' \in {[st EXCEPT ![r] = "in progress"]} \cup (IF MayRefuse THEN {st} ELSE {})
  /\ cancelled' = cancelled \ {r}

raw_aio_read(r) ==
  /\ pc = "main" /\ Submitted(first_aio, result, r)
  /\ UNCHANGED <<waitVars, unsent, signal, pc, at, then>>

\* Mutated form: the cancelled request stays on the list.
CancelLeaves(r) ==
  /\ pc = "main" /\ r \in Range(first_aio) /\ (CancelAny \/ r = Head(first_aio))
  /\ result[r] \notin {"free", "cancelled"}
  /\ result' = [result EXCEPT ![r] = "cancelled"]
  /\ cancelled' = cancelled \cup {r}
  /\ UNCHANGED <<waitVars, unsent, signal, at, then, submits, first_aio, pc>>

\* The host drops the request or finishes it.  The search for it in the list
\* never gets past the first position: "pacb = &acb->next" goes on from the
\* request itself, ends at once when it is the oldest, and never otherwise.
raw_aio_cancel(r) ==
  /\ pc = "main" /\ r \in Range(first_aio) /\ (CancelAny \/ r = Head(first_aio))
  /\ result[r] \notin {"free", "cancelled"}
  /\ \/ /\ r = Head(first_aio)
        /\ cancelled' = cancelled \cup {r}
        /\ first_aio' = Tail(first_aio) /\ result' = [result EXCEPT ![r] = "free"]
        /\ unsent' \in {unsent, unsent \cup {r}}
        /\ UNCHANGED pc
     \/ /\ r # Head(first_aio)
        /\ \/ result[r] = "in progress" /\ result' = [result EXCEPT ![r] = "cancelled"]
           \/ result' = [result EXCEPT ![r] = "done"]
        /\ unsent' = IF result[r] = "done" THEN unsent ELSE unsent \cup {r}
        /\ pc' = IF r = first_aio[Len(first_aio)] THEN "main" ELSE "hangs"
        /\ UNCHANGED <<first_aio, cancelled>>
  /\ UNCHANGED <<waitVars, signal, at, then, submits>>

\* The search that never ends.
CancelSearches == pc = "hangs" /\ UNCHANGED vars

-----------------------------------------------------------------------------
\* The host: a request completes, then its signal is sent.  When the signal is
\* not blocked the handler makes the CPU return to the main loop.
Complete(r) ==
  /\ result[r] = "in progress"
  /\ result' = [result EXCEPT ![r] = "done"]
  /\ unsent' = unsent \cup {r}
  /\ UNCHANGED <<waitVars, signal, pc, at, then, first_aio, submits, cancelled>>

aio_signal_handler(r) ==
  /\ r \in unsent
  /\ unsent' = unsent \ {r}
  /\ signal' = blocked
  /\ UNCHANGED <<waitVars, listVars, pc, at, then>>

-----------------------------------------------------------------------------
\* One request of the list at a time; after a callback the list is searched
\* from its start, since the callback may have changed it: devices go on with
\* the next part of a transfer.
PollFrom(ret) == pc' = "poll" /\ at' = 1 /\ then' = ret

\* Mutated form: the request is released and not taken from the list.
UnlinkNone(l, i) == l

Unlink(l, i) == SubSeq(l, 1, i - 1) \o SubSeq(l, i + 1, Len(l))

CalledBack(r) ==
  /\ at' = 1
  /\ want' = IF want = r THEN None ELSE want
  /\ LET l  == Unlink(first_aio, at)
         st == [result EXCEPT ![r] = "free"]
     IN \/ first_aio' = l /\ result' = st /\ UNCHANGED <<submits, cancelled>>
        \/ \E n \in Req \ {r} : Submitted(l, st, n)

qemu_aio_poll ==
  /\ pc = "poll"
  /\ \/ /\ at > Len(first_aio)
        /\ pc' = then /\ at' = 1
        /\ UNCHANGED <<listVars, want>>
     \/ /\ at <= Len(first_aio)
        /\ LET r == first_aio[at] IN
           \/ result[r] = "in progress" /\ at' = at + 1 /\ UNCHANGED <<listVars, want>>
           \/ /\ result[r] = "cancelled"
              /\ first_aio' = Unlink(first_aio, at)
              /\ result' = [result EXCEPT ![r] = "free"]
              /\ UNCHANGED <<at, want, submits, cancelled>>
           \/ result[r] \in {"done", "free"} /\ CalledBack(r)
        /\ UNCHANGED pc
  /\ UNCHANGED <<blocked, unsent, signal, then>>

main_loop_poll ==
  /\ pc = "main" /\ PollFrom("main")
  /\ UNCHANGED <<waitVars, listVars, unsent, signal>>

\* Mutated form: the requests that are complete already are not looked for.
FlushWaits ==
  /\ pc = "main" /\ blocked' = TRUE /\ want' = Flush
  /\ pc' = "wait"
  /\ UNCHANGED <<listVars, unsent, signal, at, then>>

qemu_aio_flush ==
  /\ pc = "main" /\ blocked' = TRUE /\ want' = Flush
  /\ PollFrom("wait")
  /\ UNCHANGED <<listVars, unsent, signal>>

bdrv_read_em(r) ==
  /\ pc = "main" /\ Submitted(first_aio, result, r)
  /\ IF result'[r] = "free"
     THEN UNCHANGED <<pc, waitVars>>
     ELSE pc' = "wait" /\ blocked' = TRUE /\ want' = r
  /\ UNCHANGED <<unsent, signal, at, then>>

\* qemu_aio_wait until the list is empty, or until the request was called back;
\* then qemu_aio_wait_end, which lets a pending signal through.
qemu_aio_wait ==
  /\ pc = "wait"
  /\ IF want = Flush THEN first_aio # <<>> ELSE want # None
  /\ signal /\ signal' = FALSE
  /\ PollFrom("wait")
  /\ UNCHANGED <<listVars, waitVars, unsent>>

qemu_aio_wait_end ==
  /\ pc = "wait"
  /\ IF want = Flush THEN first_aio = <<>> ELSE want = None
  /\ pc' = "main" /\ blocked' = FALSE /\ want' = None /\ signal' = FALSE
  /\ UNCHANGED <<listVars, unsent, at, then>>

Thread ==
  \/ \E r \in Req : raw_aio_read(r) \/ raw_aio_cancel(r) \/ bdrv_read_em(r)
  \/ qemu_aio_poll \/ main_loop_poll \/ qemu_aio_flush
  \/ qemu_aio_wait \/ qemu_aio_wait_end \/ CancelSearches

Next == Thread \/ \E r \in Req : Complete(r) \/ aio_signal_handler(r)

Spec == Init /\ [][Next]_vars

\* The thread goes on when it can, the main loop polls, and the host completes
\* requests and sends their signals.
Fairness ==
  /\ WF_vars(qemu_aio_poll) /\ WF_vars(qemu_aio_wait) /\ WF_vars(qemu_aio_wait_end)
  /\ \A r \in Req : WF_vars(Complete(r)) /\ WF_vars(aio_signal_handler(r))

FairSpec == Spec /\ Fairness

-----------------------------------------------------------------------------
\* "AIO issued": what is on the list was given to the host and not released.
ListedAreIssued ==
  /\ \A r \in Range(first_aio) : result[r] # "free"
  /\ \A i, j \in DOMAIN first_aio : first_aio[i] = first_aio[j] => i = j

\* "remove the callback from the queue": a request that was cancelled while it
\* was the newest is no longer on the list, so its device is not called back.
CancelledAreGone == cancelled \cap Range(first_aio) = {}

\* The thread never sleeps over the last completion: while it waits for a
\* request, the signal is pending, about to be sent, or a request still runs.
NoLostWakeup ==
  pc = "wait" /\ first_aio # <<>> =>
    signal \/ unsent # {} \/ \E r \in Range(first_aio) : result[r] = "in progress"

\* "Wait for all IO requests to complete": a flush ends, and so does a
\* synchronous read.
WaitEnds == pc = "wait" ~> pc = "main"
=============================================================================
