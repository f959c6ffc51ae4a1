----------------------------- MODULE ScanClient -----------------------------
(***************************************************************************)
(* The browser's side of a background scan: the hook useSSEScan of one     *)
(* tab, composed with an endpoint that behaves as ScanJob.                 *)
(*                                                                         *)
(* The state of the hook is kept in a module-level store and survives the  *)
(* component; every mount is a new instance with its own mountedRef, and   *)
(* what an earlier instance left behind (its event source, timers and      *)
(* requests) still runs with that earlier reference.  Instances and        *)
(* presses of the start button are numbered.                               *)
(***************************************************************************)
EXTENDS Naturals

CONSTANTS
    MaxMounts,      \* bound: mounts of the component
    MaxStarts,      \* bound: presses of the start button
    MaxOthers,      \* bound: scans started by other tabs
    MaxDrops,       \* bound: requests and streams that break
    MaxForgets      \* bound: times the endpoint forgets its state or result

ASSUME ClientBounds ==
    /\ MaxMounts \in Nat /\ MaxStarts \in Nat /\ MaxOthers \in Nat
    /\ MaxDrops \in Nat /\ MaxForgets \in Nat

VARIABLES
    status, latest, shown,  \* the endpoint
    view,           \* store.state: status and result
    inst,           \* the mounted instance, 0 when there is none
    mounts,         \* mounts so far
    es,             \* the instance that owns store.eventSource, 0 when null
    wire,           \* what the stream has sent and the tab has not yet read
    ended,          \* whether the endpoint has closed the stream
    get,            \* the hydration request of each instance
    post,           \* the start request of each press
    owner,          \* the instance in which a press happened
    startTimers,    \* presses whose 300 ms timer is running
    retryTimers,    \* instances whose 2 s reconnect timer is running
    others,         \* scans other tabs have started
    drops,          \* requests and streams broken so far
    forgets         \* times the endpoint has forgotten

server == <<status, latest, shown>>
stream == <<es, wire, ended>>
requests == <<get, post, owner>>
timers == <<startTimers, retryTimers>>
bounds == <<others, drops, forgets>>
clientVars == <<server, view, inst, mounts, stream, requests, timers, bounds>>

MaxScans == MaxStarts + MaxOthers
Job == INSTANCE ScanJob WITH MaxRuns <- MaxScans

Instances == 1..MaxMounts
Presses == 1..MaxStarts
Messages == [status : {"idle", "scanning", "done", "error"}, result : 0..MaxScans]

\* What the endpoint answers now; an idle one may still have a cached result.
Answers ==
    IF status = "idle"
    THEN {[status |-> "idle", result |-> 0]}
         \cup {[status |-> "done", result |-> r] : r \in 1..latest}
    ELSE {[status |-> status, result |-> shown]}

----------------------------------------------------------------------------
ClientInit ==
    /\ Job!Init
    /\ view = [status |-> "idle", result |-> 0]
    /\ inst = 0
    /\ mounts = 0
    /\ es = 0 /\ wire = {} /\ ended = FALSE
    /\ get = [i \in Instances |-> {}]
    /\ post = [n \in Presses |-> "none"]
    /\ owner = [n \in Presses |-> 0]
    /\ startTimers = {} /\ retryTimers = {}
    /\ others = 0 /\ drops = 0 /\ forgets = 0

\* setState: React may ignore the update of an instance that is gone.
SetView(i, v) == IF inst = i THEN view' = v ELSE view' \in {view, v}

CloseSSE == es' = 0 /\ wire' = {} /\ ended' = FALSE
ConnectSSE(i) == es' = i /\ wire' = {} /\ ended' = FALSE

Pending == [status |-> "pending", result |-> 0]

\* Mutant: the counter of instances lags behind.
MountStaleRef ==
    /\ inst = 0
    /\ mounts < MaxMounts
    /\ mounts' = mounts + 1
    /\ inst' = mounts
    /\ get' = IF view.status = "idle" THEN [get EXCEPT ![mounts + 1] = {Pending}] ELSE get
    /\ UNCHANGED <<server, view, stream, post, owner, timers, bounds>>

(* The mount effect: an idle store asks the status endpoint; a scan that   *)
(* was left running is followed again, unless an event source exists.      *)
Mount ==
    /\ inst = 0
    /\ mounts < MaxMounts
    /\ mounts' = mounts + 1
    /\ inst' = mounts + 1
    /\ get' = IF view.status = "idle" THEN [get EXCEPT ![mounts + 1] = {Pending}] ELSE get
    /\ IF view.status = "scanning" /\ es = 0 THEN ConnectSSE(mounts + 1) ELSE UNCHANGED stream
    /\ UNCHANGED <<server, view, post, owner, timers, bounds>>

\* The effect's cleanup clears mountedRef and nothing else.
Unmount ==
    /\ inst # 0
    /\ inst' = 0
    /\ UNCHANGED <<server, view, mounts, stream, requests, timers, bounds>>

\* The page shows its start button unless a scan is shown as running.
PressStart(n) ==
    /\ inst # 0
    /\ view.status # "scanning"
    /\ post[n] = "none"
    /\ \A m \in Presses : m < n => post[m] # "none"
    /\ CloseSSE
    /\ view' = [status |-> "scanning", result |-> 0]
    /\ post' = [post EXCEPT ![n] = "sent"]
    /\ owner' = [owner EXCEPT ![n] = inst]
    /\ UNCHANGED <<server, inst, mounts, get, timers, bounds>>

\* The start handler: a scan is accepted, or one is already running.
ServePost(n) ==
    /\ post[n] = "sent"
    /\ \/ Job!Start
       \/ status = "scanning" /\ UNCHANGED server
    /\ post' = [post EXCEPT ![n] = "accepted"]
    /\ UNCHANGED <<view, inst, mounts, stream, get, owner, timers, bounds>>

PostReply(n) ==
    /\ post[n] = "accepted"
    /\ post' = [post EXCEPT ![n] = "over"]
    /\ startTimers' = startTimers \cup {n}
    /\ UNCHANGED <<server, view, inst, mounts, stream, get, owner, retryTimers, bounds>>

\* apiPost returns null: the request, or its reply, was lost.
PostFailure(n) ==
    /\ post[n] \in {"sent", "accepted"}
    /\ drops < MaxDrops
    /\ drops' = drops + 1
    /\ post' = [post EXCEPT ![n] = "over"]
    /\ SetView(owner[n], [view EXCEPT !.status = "error"])
    /\ UNCHANGED <<server, inst, mounts, stream, get, owner, timers, others, forgets>>

ServeGet(i) ==
    /\ get[i] = {Pending}
    /\ \E a \in Answers : get' = [get EXCEPT ![i] = {a}]
    /\ UNCHANGED <<server, view, inst, mounts, stream, post, owner, timers, bounds>>

\* The reply to the hydration request; after an unmount it is ignored.
GetReply(i) ==
    \E a \in get[i] :
        /\ a # Pending
        /\ get' = [get EXCEPT ![i] = {}]
        /\ IF inst = i /\ a.status = "done" /\ a.result # 0
           THEN view' = a /\ UNCHANGED stream
           ELSE IF inst = i /\ a.status = "scanning"
           THEN view' = [view EXCEPT !.status = "scanning"] /\ ConnectSSE(i)
           ELSE UNCHANGED <<view, stream>>
        /\ UNCHANGED <<server, inst, mounts, post, owner, timers, bounds>>

GetFailure(i) ==
    /\ get[i] # {}
    /\ drops < MaxDrops
    /\ drops' = drops + 1
    /\ get' = [get EXCEPT ![i] = {}]
    /\ UNCHANGED <<server, view, inst, mounts, stream, post, owner, timers, others, forgets>>

StartTimer(n) ==
    /\ n \in startTimers
    /\ startTimers' = startTimers \ {n}
    /\ ConnectSSE(owner[n])
    /\ UNCHANGED <<server, view, inst, mounts, requests, retryTimers, bounds>>

RetryTimer(i) ==
    /\ i \in retryTimers
    /\ retryTimers' = retryTimers \ {i}
    /\ IF inst = i /\ view.status = "scanning" THEN ConnectSSE(i) ELSE UNCHANGED stream
    /\ UNCHANGED <<server, view, inst, mounts, requests, startTimers, bounds>>

\* The stream handler: it sends what it reads, and ends unless scanning.
StreamSend ==
    /\ es # 0
    /\ wire = {}
    /\ ~ended
    /\ \E a \in Answers : wire' = {a} /\ ended' = (a.status # "scanning")
    /\ UNCHANGED <<server, view, inst, mounts, es, requests, timers, bounds>>

\* Mutant: onmessage accepts "done" without a result.
MessageUnchecked(a) ==
    \/ /\ a.status = "done"
       /\ CloseSSE
       /\ view' = a
    \/ /\ a.status = "error"
       /\ CloseSSE
       /\ view' = [view EXCEPT !.status = "error"]
    \/ /\ a.status = "idle"
       /\ CloseSSE
       /\ UNCHANGED view
    \/ /\ a.status = "scanning"
       /\ wire' = {}
       /\ view' = [view EXCEPT !.status = "scanning"]
       /\ UNCHANGED <<es, ended>>

\* The branches of onmessage; "done" without a result matches none of them.
Message(a) ==
    \/ /\ a.status = "done" /\ a.result # 0
       /\ CloseSSE
       /\ view' = a
    \/ /\ a.status = "done" /\ a.result = 0
       /\ wire' = {}
       /\ UNCHANGED <<view, es, ended>>
    \/ /\ a.status = "error"
       /\ CloseSSE
       /\ view' = [view EXCEPT !.status = "error"]
    \/ /\ a.status = "idle"
       /\ CloseSSE
       /\ UNCHANGED view
    \/ /\ a.status = "scanning"
       /\ wire' = {}
       /\ view' = [view EXCEPT !.status = "scanning"]
       /\ UNCHANGED <<es, ended>>

\* Mutant: messages are read, but "error" is not handled.
OnMessageNoError ==
    /\ \E a \in wire :
          IF inst = es /\ a.status # "error" THEN Message(a)
          ELSE wire' = {} /\ UNCHANGED <<view, es, ended>>
    /\ UNCHANGED <<server, inst, mounts, requests, timers, bounds>>

\* onmessage returns at once in an instance that is gone.
OnMessage ==
    /\ \E a \in wire :
          IF inst = es THEN Message(a)
          ELSE wire' = {} /\ UNCHANGED <<view, es, ended>>
    /\ UNCHANGED <<server, inst, mounts, requests, timers, bounds>>

\* Mutant: onerror closes the stream and schedules no reconnect.
OnErrorNoRetry ==
    /\ es # 0
    /\ \/ ended /\ wire = {} /\ UNCHANGED drops
       \/ drops < MaxDrops /\ drops' = drops + 1
    /\ CloseSSE
    /\ UNCHANGED <<server, view, inst, mounts, requests, timers, others, forgets>>

\* onerror: the stream has ended without a terminal message, or breaks.
OnError ==
    /\ es # 0
    /\ \/ ended /\ wire = {} /\ UNCHANGED drops
       \/ drops < MaxDrops /\ drops' = drops + 1
    /\ CloseSSE
    /\ retryTimers' = IF inst = es /\ view.status = "scanning"
                      THEN retryTimers \cup {es} ELSE retryTimers
    /\ UNCHANGED <<server, view, inst, mounts, requests, startTimers, others, forgets>>

\* The tab becomes visible.
Visible ==
    /\ inst # 0
    /\ view.status = "scanning"
    /\ es = 0
    /\ ConnectSSE(inst)
    /\ UNCHANGED <<server, view, inst, mounts, requests, timers, bounds>>

----------------------------------------------------------------------------
(* The endpoint: scans end, other tabs start some, and its state expires.  *)

client == <<view, inst, mounts, stream, requests, timers, drops>>

ScanEnds ==
    /\ Job!Succeed \/ Job!Fail
    /\ UNCHANGED <<client, others, forgets>>

OtherStart ==
    /\ others < MaxOthers
    /\ others' = others + 1
    /\ Job!Start
    /\ UNCHANGED <<client, forgets>>

Forgets ==
    /\ forgets < MaxForgets
    /\ forgets' = forgets + 1
    /\ Job!Forget \/ Job!ForgetResult
    /\ UNCHANGED <<client, others>>

User == Mount \/ Unmount \/ Visible \/ \E n \in Presses : PressStart(n)

Network ==
    \/ StreamSend
    \/ \E n \in Presses : ServePost(n) \/ PostFailure(n)
    \/ \E i \in Instances : ServeGet(i) \/ GetFailure(i)

Handlers ==
    \/ OnMessage
    \/ OnError
    \/ \E n \in Presses : PostReply(n) \/ StartTimer(n)
    \/ \E i \in Instances : GetReply(i) \/ RetryTimer(i)

ClientNext == User \/ Network \/ Handlers \/ ScanEnds \/ OtherStart \/ Forgets

(* The network delivers, the browser runs its handlers and timers, and     *)
(* scans end (ScanTask).  Nothing obliges a user to mount, press, or look. *)
ClientFairness ==
    /\ WF_clientVars(OnMessage) /\ WF_clientVars(OnError)
    /\ WF_clientVars(StreamSend) /\ WF_clientVars(ScanEnds)
    /\ \A n \in Presses :
          WF_clientVars(ServePost(n)) /\ WF_clientVars(PostReply(n)) /\ WF_clientVars(StartTimer(n))
    /\ \A i \in Instances : WF_clientVars(RetryTimer(i))

ClientSafeSpec == ClientInit /\ [][ClientNext]_clientVars
ClientSpec == ClientSafeSpec /\ ClientFairness

----------------------------------------------------------------------------
(* Properties.                                                             *)

ClientTypeOK ==
    /\ status \in {"idle", "scanning", "done", "error"}
    /\ latest \in 0..MaxScans
    /\ shown \in 0..MaxScans
    /\ view \in Messages
    /\ mounts \in 0..MaxMounts
    /\ inst \in {0, mounts}
    /\ es \in 0..MaxMounts
    /\ wire \in SUBSET Messages
    /\ ended \in BOOLEAN
    /\ get \in [Instances -> SUBSET (Messages \cup {Pending})]
    /\ post \in [Presses -> {"none", "sent", "accepted", "over"}]
    /\ owner \in [Presses -> 0..MaxMounts]
    /\ startTimers \in SUBSET Presses
    /\ retryTimers \in SUBSET Instances
    /\ others \in 0..MaxOthers
    /\ drops \in 0..MaxDrops
    /\ forgets \in 0..MaxForgets

\* Something of this instance is under way that will change what is shown.
Followed(i) ==
    \/ es = i
    \/ i \in retryTimers
    \/ \E n \in Presses :
          owner[n] = i /\ (post[n] \in {"sent", "accepted"} \/ n \in startTimers)

(* The page first mounted shows a running scan only while it follows one:  *)
(* it has a stream whose messages it reads, or a request or timer that     *)
(* leads to one, through lost requests, broken streams and late replies.   *)
NeverStranded ==
    inst = 1 /\ view.status = "scanning" /\ forgets = 0 => Followed(1)

(* A page never shows "done" with nothing to show, whatever the endpoint   *)
(* has forgotten in the meantime and whichever instance a reply reaches.   *)
DoneHasResult == view.status = "done" => view.result # 0

(* The page first mounted does not show a running scan forever, unless it  *)
(* is left or the endpoint forgets the scan.                               *)
ScanningEnds ==
    inst = 1 /\ view.status = "scanning"
        ~> inst # 1 \/ view.status # "scanning" \/ forgets # 0
=============================================================================
