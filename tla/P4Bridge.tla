------------------------------ MODULE P4Bridge ------------------------------
(***************************************************************************)
(* The client pool and the drop-and-retry loop of                         *)
(* src/libs/go/p4lib/p4_cgo_bridge.cc.                                     *)
(*                                                                         *)
(* Several Go goroutines (OS threads, once in cgo) call p4runcb at the     *)
(* same time.  Each call picks one of the two process-wide pools           *)
(* (defaultPool or tagPool), leases a ClientApi from it (Pool::Client),    *)
(* overrides the credentials, runs the command, and either restores the    *)
(* credentials and leaves the loop, or, when the connection was dropped,   *)
(* calls Final and loops for a new client.  The lease ends when the        *)
(* shared_ptr goes out of scope: its deleter pushes the client back to     *)
(* the pool under the pool's mutex, or deletes it.                         *)
(*                                                                         *)
(* Every pool critical section (pop in Client, push in the deleter) is one *)
(* atomic step; everything a thread does to its own leased client happens *)
(* outside the lock and is a step of its own, so the model interleaves     *)
(* threads exactly where the code can.                                     *)
(***************************************************************************)
EXTENDS Naturals, Sequences, FiniteSets

CONSTANTS
  Threads,        \* the calling threads
  Conns,          \* identities a new ClientApi may get (addresses)
  kMaxClients,    \* p4_cgo_bridge.cc:28, the idle bound of each pool
  DefaultUser,    \* what GetUser() returns on a fresh client
  DefaultPasswd,  \* what GetPassword() returns on a fresh client
  Users,          \* user strings a caller may pass, "" included
  Passwds,        \* password strings a caller may pass, "" included
  OutputLen,      \* number of output callbacks the command produces
  MaxCalls,       \* bound: p4runcb calls per thread
  MaxDrops,       \* bound: connections dropped in the whole behaviour
  None            \* no client held (a null shared_ptr)

ASSUME /\ kMaxClients \in Nat \ {0}
       /\ "" \in Users /\ "" \in Passwds
       /\ OutputLen \in Nat /\ MaxCalls \in Nat /\ MaxDrops \in Nat
       \* enough identities that `new ClientApi` never runs out
       /\ None \notin Conns
       /\ Cardinality(Conns) >= Cardinality(Threads) + 2 * kMaxClients


\* The pool registry: defaultPool (tag = FALSE) and tagPool (tag = TRUE).
Variants == BOOLEAN

\* The events the Go side receives through the gop4api* callbacks.
OutputEvent(i) == [kind |-> "output", n |-> i]
ErrorEvent     == [kind |-> "error", n |-> 0]
RetryEvent     == [kind |-> "retry", n |-> 0]
Events == {OutputEvent(i) : i \in 1..OutputLen} \cup {ErrorEvent, RetryEvent}

\* The p4runcb prototype (p4_cgo_bridge.h:31-33) as far as the pools and
\* the loop tell its arguments apart: the tag flag and the credentials.
\* cmd, input, the packed arguments (module PackedArgs) and cb are passed
\* through unchanged.
Args == [tag : Variants, user : Users, passwd : Passwds]

Cred == [user : Users \cup {DefaultUser}, passwd : Passwds \cup {DefaultPasswd}]
DefaultCred == [user |-> DefaultUser, passwd |-> DefaultPasswd]
\* origUser and origPasswd as declared at line 193-194: empty strings.
NoCred == [user |-> "", passwd |-> ""]
\* What a ClientApi that does not exist is recorded as.
NoSess == [tag |-> FALSE, cred |-> DefaultCred, dropped |-> FALSE]

VARIABLES
  clients,     \* clients[v]: the deque Pool::clients_ of the pool for variant v
  alive,       \* the ClientApi objects that exist (not yet deleted)
  sess,        \* sess[c]: protocol variant, credentials and Dropped() of c
  pc,          \* where each thread is in p4runcb
  call,        \* the arguments of each thread's current p4runcb call
  client,      \* the client each thread holds (the shared_ptr c), or None
  orig,        \* origUser / origPasswd captured before the override
  out,         \* events delivered to the Go callback for the current call
  initUs,      \* init_us: fresh clients constructed during the current call
  calls,       \* calls made by each thread so far (bounded by MaxCalls)
  drops,       \* connections dropped so far (bounded by MaxDrops)
  callDrops    \* history: drops seen by the current call of each thread

vars == <<clients, alive, sess, pc, call, client, orig, out, initUs,
          calls, drops, callDrops>>

PCs == {"idle", "acquire", "init", "override", "run", "check", "release", "retry"}

TypeOK ==
  /\ clients \in [Variants -> Seq(Conns)]
  /\ alive \subseteq Conns
  /\ sess \in [Conns -> [tag : Variants, cred : Cred, dropped : BOOLEAN]]
  /\ pc \in [Threads -> PCs]
  /\ call \in [Threads -> Args]
  /\ client \in [Threads -> Conns \cup {None}]
  \* the shared_ptr c is non-null from a successful Client to the deleter
  /\ \A t \in Threads : (client[t] = None) <=> pc[t] \in {"idle", "acquire", "init"}
  /\ orig \in [Threads -> Cred]
  /\ out \in [Threads -> Seq(Events)]
  /\ initUs \in [Threads -> Nat]
  /\ calls \in [Threads -> 0..MaxCalls]
  /\ drops \in 0..MaxDrops
  /\ callDrops \in [Threads -> 0..MaxDrops]

Init ==
  /\ clients = [v \in Variants |-> <<>>]
  /\ alive = {}
  /\ sess = [c \in Conns |-> NoSess]
  /\ pc = [t \in Threads |-> "idle"]
  /\ call = [t \in Threads |-> [tag |-> FALSE, user |-> "", passwd |-> ""]]
  /\ client = [t \in Threads |-> None]
  /\ orig = [t \in Threads |-> NoCred]
  /\ out = [t \in Threads |-> <<>>]
  /\ initUs = [t \in Threads |-> 0]
  /\ calls = [t \in Threads |-> 0]
  /\ drops = 0
  /\ callDrops = [t \in Threads |-> 0]

Goto(t, to) == pc' = [pc EXCEPT ![t] = to]

\* Line 195 and 212: the credentials are overridden only when both are given.
Overrides(t) == call[t].user # "" /\ call[t].passwd # ""

(***************************************************************************)
(* p4runcb, lines 177-184: a Go caller enters with its arguments.          *)
(***************************************************************************)
p4runcb(t) ==
  /\ pc[t] = "idle"
  /\ calls[t] < MaxCalls
  /\ \E a \in Args : call' = [call EXCEPT ![t] = a]
  /\ calls' = [calls EXCEPT ![t] = @ + 1]
  /\ out' = [out EXCEPT ![t] = <<>>]
  /\ initUs' = [initUs EXCEPT ![t] = 0]
  /\ callDrops' = [callDrops EXCEPT ![t] = 0]
  /\ Goto(t, "acquire")
  /\ UNCHANGED <<clients, alive, sess, client, orig, drops>>

\* Mutant of PopClient: reads the front of clients_ but forgets pop_front.
PopClientNoPop(t) ==
  LET q == clients[call[t].tag] IN
  /\ pc[t] = "acquire"
  /\ IF q # <<>>
       THEN /\ client' = [client EXCEPT ![t] = Head(q)]
            /\ UNCHANGED clients
            /\ Goto(t, "override")
       ELSE /\ UNCHANGED <<client, clients>>
            /\ Goto(t, "init")
  /\ UNCHANGED <<alive, sess, call, orig, out, initUs, calls, drops,
                 callDrops>>

(***************************************************************************)
(* Pool::Client, lines 36-42: pop the front of clients_ under mu_.         *)
(***************************************************************************)
PopClient(t) ==
  LET q == clients[call[t].tag] IN
  /\ pc[t] = "acquire"
  /\ IF q # <<>>
       THEN /\ client' = [client EXCEPT ![t] = Head(q)]
            /\ clients' = [clients EXCEPT ![call[t].tag] = Tail(q)]
            /\ Goto(t, "override")
       ELSE /\ UNCHANGED <<client, clients>>
            /\ Goto(t, "init")
  /\ UNCHANGED <<alive, sess, call, orig, out, initUs, calls, drops,
                 callDrops>>

\* Mutant of InitClient: the error is reported but `return init_us` is
\* missing, so the loop goes on with a null c.
InitClientNoReturn(t) ==
  /\ pc[t] = "init"
  /\ \/ \E c \in Conns \ alive :
          /\ alive' = alive \cup {c}
          /\ sess' = [sess EXCEPT ![c] = [tag |-> call[t].tag,
                                          cred |-> DefaultCred,
                                          dropped |-> FALSE]]
          /\ client' = [client EXCEPT ![t] = c]
          /\ initUs' = [initUs EXCEPT ![t] = @ + 1]
          /\ Goto(t, "override")
          /\ UNCHANGED out
     \/ /\ out' = [out EXCEPT ![t] = Append(@, ErrorEvent)]
        /\ Goto(t, "override")
        /\ UNCHANGED <<alive, sess, client, initUs>>
  /\ UNCHANGED <<clients, call, orig, calls, drops, callDrops>>

\* Mutant of InitClient: a failed Init is retried (continue) instead of
\* being reported and returned.
InitClientRetryFailure(t) ==
  /\ pc[t] = "init"
  /\ \/ \E c \in Conns \ alive :
          /\ alive' = alive \cup {c}
          /\ sess' = [sess EXCEPT ![c] = [tag |-> call[t].tag,
                                          cred |-> DefaultCred,
                                          dropped |-> FALSE]]
          /\ client' = [client EXCEPT ![t] = c]
          /\ initUs' = [initUs EXCEPT ![t] = @ + 1]
          /\ Goto(t, "override")
     \/ /\ Goto(t, "acquire")
        /\ UNCHANGED <<alive, sess, client, initUs>>
  /\ UNCHANGED <<clients, call, orig, out, calls, drops, callDrops>>

\* p4runcb, lines 189-192: Client returned no client; its message goes to
\* Go through HandleError and the call returns.
ReportInitError(t) ==
  /\ out' = [out EXCEPT ![t] = Append(@, ErrorEvent)]
  /\ Goto(t, "idle")

(***************************************************************************)
(* Pool::Client, lines 43-68, outside the lock: construct a ClientApi, set *)
(* the charset and the pool's protocol, and Init it.  When Init fails the  *)
(* client is dropped without a deleter (the unique_ptr frees it) and       *)
(* p4runcb reports the error and returns (lines 189-192).                  *)
(***************************************************************************)
InitClient(t) ==
  /\ pc[t] = "init"
  /\ \/ \E c \in Conns \ alive :
          /\ alive' = alive \cup {c}
          /\ sess' = [sess EXCEPT ![c] = [tag |-> call[t].tag,
                                          cred |-> DefaultCred,
                                          dropped |-> FALSE]]
          /\ client' = [client EXCEPT ![t] = c]
          /\ initUs' = [initUs EXCEPT ![t] = @ + 1]
          /\ Goto(t, "override")
          /\ UNCHANGED out
     \/ /\ ReportInitError(t)
        /\ UNCHANGED <<alive, sess, client, initUs>>
  /\ UNCHANGED <<clients, call, orig, calls, drops, callDrops>>

(***************************************************************************)
(* Lines 193-208: capture and override the credentials, bind the          *)
(* positional arguments (modelled in module PackedArgs).                   *)
(***************************************************************************)
Override(t) ==
  LET c == client[t] IN
  /\ pc[t] = "override"
  /\ IF Overrides(t)
       THEN /\ orig' = [orig EXCEPT ![t] = sess[c].cred]
            /\ sess' = [sess EXCEPT ![c].cred = [user |-> call[t].user,
                                                 passwd |-> call[t].passwd]]
       ELSE UNCHANGED <<orig, sess>>
  /\ Goto(t, "run")
  /\ UNCHANGED <<clients, alive, call, client, out, initUs, calls,
                 drops, callDrops>>

(***************************************************************************)
(* Line 209, c->Run(cmd, &cb): the server streams the command's output     *)
(* through ClientCb to the Go callback.  The connection may drop after any *)
(* prefix of the output has been delivered; Dropped() then reports it.     *)
(***************************************************************************)
Run(t) ==
  LET c == client[t] IN
  /\ pc[t] = "run"
  /\ \/ /\ out' = [out EXCEPT ![t] = @ \o [i \in 1..OutputLen |-> OutputEvent(i)]]
        /\ UNCHANGED <<sess, drops, callDrops>>
     \/ /\ drops < MaxDrops
        /\ \E k \in 0..OutputLen :
             out' = [out EXCEPT ![t] = @ \o [i \in 1..k |-> OutputEvent(i)]]
        /\ sess' = [sess EXCEPT ![c].dropped = TRUE]
        /\ drops' = drops + 1
        /\ callDrops' = [callDrops EXCEPT ![t] = @ + 1]
  /\ Goto(t, "check")
  /\ UNCHANGED <<clients, alive, call, client, orig, initUs, calls>>

\* Mutant of CheckDropped: the override is never restored.
CheckDroppedNoRestore(t) ==
  LET c == client[t] IN
  /\ pc[t] = "check"
  /\ IF ~sess[c].dropped
       THEN /\ Goto(t, "release")
            /\ UNCHANGED out
       ELSE /\ \E finalFails \in BOOLEAN :
                 out' = [out EXCEPT ![t] =
                           IF finalFails THEN Append(@, RetryEvent) ELSE @]
            /\ Goto(t, "retry")
  /\ UNCHANGED <<sess, clients, alive, call, client, orig, initUs, calls, drops,
                 callDrops>>

(***************************************************************************)
(* Lines 211-224.  Not dropped: restore the captured credentials and       *)
(* break.  Dropped: Final(&err), and report a retry only when Final        *)
(* itself failed.  Either way the lease then ends (Deleter).               *)
(***************************************************************************)
CheckDropped(t) ==
  LET c == client[t] IN
  /\ pc[t] = "check"
  /\ IF ~sess[c].dropped
       THEN /\ IF Overrides(t)
                 THEN sess' = [sess EXCEPT ![c].cred = orig[t]]
                 ELSE UNCHANGED sess
            /\ Goto(t, "release")
            /\ UNCHANGED out
       ELSE /\ \E finalFails \in BOOLEAN :
                 out' = [out EXCEPT ![t] =
                           IF finalFails THEN Append(@, RetryEvent) ELSE @]
            /\ Goto(t, "retry")
            /\ UNCHANGED sess
  /\ UNCHANGED <<clients, alive, call, client, orig, initUs, calls, drops,
                 callDrops>>

(***************************************************************************)
(* The shared_ptr deleter, lines 70-77, run when c leaves scope at the end *)
(* of the loop body: under the mu_ of the pool it captured as `this` (the  *)
(* pool chosen at line 184), push the client back if it is not dropped and *)
(* that pool holds fewer than kMaxClients, else delete it.  The thread     *)
(* then returns (after break) or loops to acquire a new client.            *)
(***************************************************************************)
Deleter(t) ==
  LET c == client[t]
      v == call[t].tag
  IN
  /\ pc[t] \in {"release", "retry"}
  /\ IF ~sess[c].dropped /\ Len(clients[v]) < kMaxClients
       THEN /\ clients' = [clients EXCEPT ![v] = Append(@, c)]
            /\ UNCHANGED <<alive, sess>>
       ELSE /\ alive' = alive \ {c}
            /\ sess' = [sess EXCEPT ![c] = NoSess]
            /\ UNCHANGED clients
  /\ client' = [client EXCEPT ![t] = None]
  /\ orig' = [orig EXCEPT ![t] = NoCred]
  /\ Goto(t, IF pc[t] = "retry" THEN "acquire" ELSE "idle")
  /\ UNCHANGED <<call, out, initUs, calls, drops, callDrops>>

\* Every caller has made its calls and returned: the program is quiescent.
Terminated ==
  /\ \A t \in Threads : pc[t] = "idle" /\ calls[t] = MaxCalls
  /\ UNCHANGED vars

Step(t) ==
  \/ PopClient(t) \/ InitClient(t) \/ Override(t) \/ Run(t)
  \/ CheckDropped(t) \/ Deleter(t)

Next ==
  \/ \E t \in Threads : p4runcb(t) \/ Step(t)
  \/ Terminated

\* A thread inside p4runcb is never blocked for long (the mutex guards only
\* a push or a pop), so each thread keeps taking its own steps.  Starting a
\* call is the Go caller's choice and is not fair.
Fairness == \A t \in Threads : WF_vars(Step(t))

Spec == Init /\ [][Next]_vars /\ Fairness

-----------------------------------------------------------------------------
(***************************************************************************)
(* Properties.                                                             *)
(***************************************************************************)

\* The places a client can be owned from: a thread's shared_ptr, or a slot
\* of a pool's deque.
Holders(c) == {t \in Threads : client[t] = c}
Slots(c)   == UNION {{<<v, i>> : i \in {j \in DOMAIN clients[v] : clients[v][j] = c}} :
                     v \in Variants}

\* Every live ClientApi is owned exactly once: leased to one thread, or idle
\* in one slot of one pool, never both, never twice, never leaked; a deleted
\* one is owned by nobody.  Concerns the pop in Pool::Client and the push
\* or delete in the deleter, racing between threads.
ExactlyOneOwner ==
  \A c \in Conns :
    Cardinality(Holders(c)) + Cardinality(Slots(c)) =
      IF c \in alive THEN 1 ELSE 0

\* Every command runs with exactly the credentials its caller asked for:
\* the override when both user and password were given, and otherwise the
\* client's own credentials, never ones another call left behind on a
\* pooled client (override and restore, lines 195-216).
RunsWithRequestedCreds ==
  \A t \in Threads : pc[t] = "run" =>
    sess[client[t]].cred =
      IF Overrides(t) THEN [user |-> call[t].user, passwd |-> call[t].passwd]
                      ELSE DefaultCred

\* Every p4runcb call returns: the retry loop ends once drops stop, and a
\* failed Init ends the call rather than looping (lines 185-225).
CallReturns == \A t \in Threads : pc[t] = "acquire" ~> pc[t] = "idle"

\* The events of a finished call (the "check" states are the ones the Go
\* side can have seen when p4runcb returns).
Returned(t) == pc[t] = "idle" /\ calls[t] > 0
IsRetry(e)  == e.kind = "retry"
IsOutput(e) == e.kind = "output"

\* spec.md 8: the caller observes exactly one retry notice per dropped
\* connection (Retry is called at line 223).
RetryNoticePerDrop ==
  \A t \in Threads : Returned(t) =>
    Len(SelectSeq(out[t], IsRetry)) = callDrops[t]

\* spec.md 8: a call that succeeds after drops delivers the output a fresh,
\* non-dropping session would have produced, each output event once
\* (ClientCb forwards every output callback as it arrives, lines 137-163).
OutputDeliveredOnce ==
  \A t \in Threads :
    Returned(t) /\ out[t] # <<>> /\ out[t][Len(out[t])] # ErrorEvent =>
      SelectSeq(out[t], IsOutput) = [i \in 1..OutputLen |-> OutputEvent(i)]

=============================================================================
