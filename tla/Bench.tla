------------------------------- MODULE Bench -------------------------------
(***************************************************************************)
(* The benchmark programs of perf/, which show what the library's users    *)
(* rely on: local_lat with remote_lat (one frame back and forth),          *)
(* local_thr with remote_thr and perf_thr (many frames one way) and        *)
(* perf_pubsub (one publisher, several subscribers, all in one process).   *)
(*                                                                         *)
(* The library stands here for what the other modules show of it: frames   *)
(* of a connection arrive at most once and in order, though one may stay   *)
(* behind until the next send or be lost (SendPath, RecvPath),             *)
(* fsock_get_event returns NULL when a wait expires, may abort in a later  *)
(* wait and is sometimes woken for nothing and aborts (RecvPath), and      *)
(* fsock_send returns no value.  upset records which of these happened.    *)
(***************************************************************************)
EXTENDS Integers, FiniteSets

CONSTANTS Clients,          \* subscribers of perf_pubsub; the others have one
          Peer,             \* the client of the other two programs
          Rounds            \* rts, count, msg_cnt

ASSUME BenchAssumption == Peer \in Clients /\ IsFiniteSet(Clients) /\ Rounds \in Nat \ {0}

VARIABLES prog,             \* which of Programs
          srv, cli,         \* where the server and each client are
          n, m,             \* their loop counters
          joined,           \* connections the server has accepted
          up, down,         \* frames on the way to the server, to a client
          stuck,            \* directions in which the last frame stays behind
          main,             \* perf_pubsub's main thread
          gone,             \* an assertion failed or NULL was followed
          upset             \* history: what the programs do not reckon with

benchVars == <<prog, srv, cli, n, m, joined, up, down, stuck, main, gone, upset>>

Programs == {"lat", "thr", "perf_thr", "pubsub"}
Upsets == {"too soon", "expired", "no rc", "stuck", "quit", "lost", "empty"}

BenchTypeOK ==
    /\ prog \in Programs
    /\ srv \in {"start", "get", "send", "blast", "publish", "sleep", "done"}
    /\ cli \in [Clients -> {"off", "start", "send", "get", "sleep", "done"}]
    /\ n \in 0..(Rounds + Cardinality(Clients)) /\ m \in [Clients -> 0..Rounds]
    /\ joined \subseteq Clients
    /\ up \in [Clients -> 0..Rounds] /\ down \in [Clients -> 0..Rounds]
    /\ stuck \subseteq {"up", "down"} \X Clients
    /\ main \in {"off", "wait", "measure", "done"}
    /\ gone \in BOOLEAN /\ upset \subseteq Upsets

BenchInit ==
    /\ prog \in Programs
    /\ srv = "start"
    /\ cli = [c \in Clients |-> IF prog = "pubsub" \/ c = Peer THEN "start" ELSE "off"]
    /\ n = 0 /\ m = [c \in Clients |-> 0]
    /\ joined = {} /\ up = [c \in Clients |-> 0] /\ down = [c \in Clients |-> 0]
    /\ stuck = {} /\ main = IF prog = "pubsub" THEN "wait" ELSE "off"
    /\ gone = FALSE /\ upset = {}

-----------------------------------------------------------------------------
(* The library.                                                            *)
net == <<up, down, stuck>>

\* fsock_sock_accept_handler
Accept(c) ==
    /\ ~gone /\ cli[c] \notin {"off", "start"} /\ c \notin joined
    /\ joined' = joined \cup {c}
    /\ UNCHANGED <<prog, srv, cli, n, m, net, main, gone, upset>>

\* A frame is inserted just before the write handler stops.
StaysBehind(d, c) ==
    /\ ~gone /\ <<d, c>> \notin stuck
    /\ IF d = "up" THEN up[c] > 0 ELSE down[c] > 0
    /\ stuck' = stuck \cup {<<d, c>>}
    /\ upset' = upset \cup {"stuck"}
    /\ UNCHANGED <<prog, srv, cli, n, m, joined, up, down, main, gone>>

PutUp(c) == /\ up' = [up EXCEPT ![c] = @ + 1]
            /\ stuck' = stuck \ {<<"up", c>>}
            /\ UNCHANGED down

PutDown(cs) == /\ down' = [c \in Clients |-> IF c \in cs THEN down[c] + 1 ELSE down[c]]
               /\ stuck' = stuck \ {<<"down", c>> : c \in cs}
               /\ UNCHANGED up

\* The frame that stays behind is the last one.
TakeUp(c) == /\ c \in joined
             /\ up[c] > IF <<"up", c>> \in stuck THEN 1 ELSE 0
             /\ up' = [up EXCEPT ![c] = @ - 1]
             /\ UNCHANGED <<down, stuck>>

TakeDown(c) == /\ down[c] > IF <<"down", c>> \in stuck THEN 1 ELSE 0
               /\ down' = [down EXCEPT ![c] = @ - 1]
               /\ UNCHANGED <<up, stuck>>

\* A frame is lost: a newer one was linked over it after a full socket buffer,
\* or its reader has no memory for the event.
Loses(d, c) ==
    /\ ~gone
    /\ IF d = "up"
       THEN /\ up[c] > IF <<d, c>> \in stuck THEN 1 ELSE 0
            /\ up' = [up EXCEPT ![c] = @ - 1] /\ UNCHANGED down
       ELSE /\ down[c] > IF <<d, c>> \in stuck THEN 1 ELSE 0
            /\ down' = [down EXCEPT ![c] = @ - 1] /\ UNCHANGED up
    /\ upset' = upset \cup {"lost"}
    /\ UNCHANGED <<prog, srv, cli, n, m, joined, stuck, main, gone>>

\* A reader signals for no frame; the wait finds no event and its assert fails.
WokenEmpty ==
    /\ ~gone /\ (srv = "get" \/ \E c \in Clients : cli[c] = "get")
    /\ gone' = TRUE
    /\ upset' = upset \cup {"empty"}
    /\ UNCHANGED <<prog, srv, cli, n, m, joined, net, main>>

\* A wait of fsock_get_event runs into its 10 seconds.
Expires == upset' = upset \cup {"expired"} /\ UNCHANGED net

\* assert (rc == 0) on the value fsock_send does not return.
AssertRc == \/ UNCHANGED <<gone, upset>>
            \/ gone' = TRUE /\ upset' = upset \cup {"no rc"}

-----------------------------------------------------------------------------
(* Both ends up to their loops.                                            *)
Bind ==
    /\ ~gone /\ srv = "start"
    /\ srv' = IF prog = "perf_thr" THEN "blast" ELSE "get"
    /\ UNCHANGED <<prog, cli, n, m, joined, net, main, gone, upset>>

\* Only a started server can be connected to; nothing makes sure of it.
Connect(c) ==
    /\ ~gone /\ cli[c] = "start"
    /\ cli' = [cli EXCEPT ![c] = IF prog = "perf_thr" THEN "get" ELSE "send"]
    /\ gone' = (srv = "start")
    /\ upset' = IF srv = "start" THEN upset \cup {"too soon"} ELSE upset
    /\ UNCHANGED <<prog, srv, n, m, joined, net, main>>

-----------------------------------------------------------------------------
(* local_lat and remote_lat.                                               *)
LocalLatGet ==
    /\ ~gone /\ prog = "lat" /\ srv = "get"
    /\ \/ TakeUp(Peer) /\ srv' = "send" /\ UNCHANGED <<gone, upset>>
       \/ Expires /\ gone' = TRUE /\ UNCHANGED srv
    /\ UNCHANGED <<prog, cli, n, m, joined, main>>

LocalLatSend ==
    /\ ~gone /\ prog = "lat" /\ srv = "send"
    /\ PutDown({Peer}) /\ AssertRc
    /\ n' = n + 1
    /\ srv' = IF n + 1 = Rounds THEN "sleep" ELSE "get"
    /\ UNCHANGED <<prog, cli, m, joined, main>>

\* sleep (1), then the process ends with whatever it has not sent.
LocalLatQuit ==
    /\ ~gone /\ srv = "sleep"
    /\ \E k \in 0..down[Peer] :
          /\ down' = [down EXCEPT ![Peer] = k]
          /\ upset' = IF k < down[Peer] THEN upset \cup {"quit"} ELSE upset
    /\ srv' = "done"
    /\ UNCHANGED <<prog, cli, n, m, joined, up, stuck, main, gone>>

RemoteLatSend ==
    /\ ~gone /\ prog = "lat" /\ cli[Peer] = "send"
    /\ PutUp(Peer) /\ AssertRc
    /\ cli' = [cli EXCEPT ![Peer] = "get"]
    /\ UNCHANGED <<prog, srv, n, m, joined, main>>

RemoteLatGet ==
    /\ ~gone /\ prog = "lat" /\ cli[Peer] = "get"
    /\ \/ /\ TakeDown(Peer)
          /\ m' = [m EXCEPT ![Peer] = @ + 1]
          /\ cli' = [cli EXCEPT ![Peer] = IF m[Peer] + 1 = Rounds THEN "done" ELSE "send"]
          /\ UNCHANGED <<gone, upset>>
       \/ Expires /\ gone' = TRUE /\ UNCHANGED <<cli, m>>
    /\ UNCHANGED <<prog, srv, n, joined, main>>

-----------------------------------------------------------------------------
(* local_thr and remote_thr.                                               *)
LocalThrGet ==
    /\ ~gone /\ prog = "thr" /\ srv = "get"
    /\ \/ /\ TakeUp(Peer)
          /\ n' = n + 1
          /\ srv' = IF n + 1 = Rounds THEN "done" ELSE "get"
          /\ UNCHANGED <<gone, upset>>
       \/ Expires /\ gone' = TRUE /\ UNCHANGED <<srv, n>>
    /\ UNCHANGED <<prog, cli, m, joined, main>>

RemoteThrSend ==
    /\ ~gone /\ prog = "thr" /\ cli[Peer] = "send"
    /\ PutUp(Peer) /\ AssertRc
    /\ m' = [m EXCEPT ![Peer] = @ + 1]
    /\ cli' = [cli EXCEPT ![Peer] = IF m[Peer] + 1 = Rounds THEN "sleep" ELSE "send"]
    /\ UNCHANGED <<prog, srv, n, joined, main>>

\* "TODO: wait till all data sent"
RemoteThrQuit ==
    /\ ~gone /\ cli[Peer] = "sleep"
    /\ \E k \in 0..up[Peer] :
          /\ up' = [up EXCEPT ![Peer] = k]
          /\ upset' = IF k < up[Peer] THEN upset \cup {"quit"} ELSE upset
    /\ cli' = [cli EXCEPT ![Peer] = "done"]
    /\ UNCHANGED <<prog, srv, n, m, joined, down, stuck, main, gone>>

\* The server of perf_thr sends after 10 ms, whether the client is there or not.
PerfThrSend ==
    /\ ~gone /\ srv = "blast"
    /\ IF Peer \in joined
       THEN PutDown({Peer}) /\ UNCHANGED <<gone, upset>>
       ELSE gone' = TRUE /\ upset' = upset \cup {"too soon"} /\ UNCHANGED net
    /\ n' = n + 1
    /\ srv' = IF n + 1 = Rounds THEN "done" ELSE "blast"
    /\ UNCHANGED <<prog, cli, m, joined, main>>

-----------------------------------------------------------------------------
(* perf_pubsub, whose clients are also the client of perf_thr.             *)

\* How many events the publisher takes for the hellos of its clients.
OneFewer == Cardinality(Clients) - 1

Hellos == Cardinality(Clients)

\* An expired wait counts like an event.  After the last the main thread is
\* signalled.
SrvHello ==
    /\ ~gone /\ prog = "pubsub" /\ srv = "get" /\ n < Hellos
    /\ \/ (\E c \in Clients : TakeUp(c)) /\ UNCHANGED <<gone, upset>>
       \/ Expires /\ gone' \in {FALSE, "expired" \in upset}
    /\ n' = n + 1
    /\ UNCHANGED <<prog, srv, cli, m, joined, main>>

SrvSignal ==
    /\ ~gone /\ prog = "pubsub" /\ srv = "get" /\ n = Hellos
    /\ srv' = "publish"
    /\ n' = 0
    /\ main' = "measure"
    /\ UNCHANGED <<prog, cli, m, joined, net, gone, upset>>

\* fsock_sendc to all connections there are.
SrvPublish ==
    /\ ~gone /\ srv = "publish"
    /\ PutDown(joined)
    /\ n' = n + 1
    /\ srv' = IF n + 1 = Rounds THEN "done" ELSE "publish"
    /\ UNCHANGED <<prog, cli, m, joined, main, gone, upset>>

CliHello(c) ==
    /\ ~gone /\ prog = "pubsub" /\ cli[c] = "send"
    /\ PutUp(c)
    /\ cli' = [cli EXCEPT ![c] = "get"]
    /\ UNCHANGED <<prog, srv, n, m, joined, main, gone, upset>>

\* An expired wait is tried again, and a wait after one that expired may abort.
CliGet(c) ==
    /\ ~gone /\ prog \in {"pubsub", "perf_thr"} /\ cli[c] = "get"
    /\ \/ /\ TakeDown(c)
          /\ m' = [m EXCEPT ![c] = @ + 1]
          /\ cli' = [cli EXCEPT ![c] = IF m[c] + 1 = Rounds THEN "done" ELSE "get"]
          /\ UNCHANGED <<gone, upset>>
       \/ Expires /\ gone' \in {FALSE, "expired" \in upset} /\ UNCHANGED <<cli, m>>
    /\ UNCHANGED <<prog, srv, n, joined, main>>

\* main takes the time from the signal on until every client has ended.
MainJoin ==
    /\ ~gone /\ main = "measure" /\ \A c \in Clients : cli[c] = "done"
    /\ main' = "done"
    /\ UNCHANGED <<prog, srv, cli, n, m, joined, net, gone, upset>>

-----------------------------------------------------------------------------
Server == \/ Bind \/ LocalLatGet \/ LocalLatSend \/ LocalLatQuit \/ LocalThrGet
          \/ PerfThrSend \/ SrvHello \/ SrvSignal \/ SrvPublish

Remote == RemoteLatSend \/ RemoteLatGet \/ RemoteThrSend \/ RemoteThrQuit

Client(c) == Connect(c) \/ CliHello(c) \/ CliGet(c)

BenchNext == \/ Server \/ Remote \/ MainJoin \/ WokenEmpty
             \/ \E c \in Clients : Client(c) \/ Accept(c)
             \/ \E c \in Clients, d \in {"up", "down"} : StaysBehind(d, c) \/ Loses(d, c)

\* Frames that are there are taken and calls go on: steps that upset nothing.
Smoothly(A) == A /\ UNCHANGED upset

BenchFairness == /\ WF_benchVars(Smoothly(Server)) /\ WF_benchVars(Smoothly(Remote))
                 /\ WF_benchVars(MainJoin)
                 /\ \A c \in Clients : /\ WF_benchVars(Smoothly(Client(c)))
                                       /\ WF_benchVars(Accept(c))

BenchSpec == BenchInit /\ [][BenchNext]_benchVars /\ BenchFairness

-----------------------------------------------------------------------------
(***************************************************************************)
(* Properties.                                                             *)
(***************************************************************************)
Published == IF srv = "publish" THEN n ELSE IF srv = "done" THEN Rounds ELSE 0

\* remote_lat measures single round trips, one frame in the air at a time.  No
\* subscriber of perf_pubsub sees more than was published, and perf_pubsub, as
\* its comment says, waits for all clients before it publishes (perf_pubsub.c:24:
\* "wait for clients to connect and send hello frame"), whatever the library
\* does, unless a wait expires: from then on every message that the library
\* does not lose is seen by every subscriber.
BenchSound ==
    /\ prog = "lat" => up[Peer] + down[Peer] <= 1
    /\ prog = "pubsub" =>
          /\ \A c \in Clients : m[c] + down[c] <= Published
          /\ "expired" \notin upset =>
                /\ srv \in {"publish", "done"} => joined = Clients
                /\ "lost" \notin upset => \A c \in Clients : m[c] + down[c] = Published

Ended == /\ srv = "done" /\ \A c \in Clients : cli[c] \in {"off", "done"}
         /\ main \in {"off", "done"}

\* Undisturbed, every program comes to its end and prints its result.
BenchFinishes == srv = "start" ~> (Ended \/ upset # {})
=============================================================================
