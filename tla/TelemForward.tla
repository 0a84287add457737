---------------------------- MODULE TelemForward ----------------------------
(***************************************************************************)
(* telem_forward on Solo: who receives the telemetry of the Pixhawk, and   *)
(* what reaches the Pixhawk.                                               *)
(*                                                                         *)
(* The upstream thread reads datagrams from port 14560 and writes them to  *)
(* the serial port.  Every sender but the controller is a client: it is    *)
(* sent the downstream telemetry until nothing has come from it for        *)
(* CLIENT_TIMEOUT_US.  arp_table remembers which client a MAVLink          *)
(* component was seen from; its entry for component 0 says that the system *)
(* was seen at all.  The downstream thread reads the serial port, sends a  *)
(* log block addressed to a component to the client of that component, and *)
(* everything else to every client.                                        *)
(*                                                                         *)
(* mutex_clients protects the list of clients, mutex_arp_table the table - *)
(* but the downstream thread also reads the table without it - and both    *)
(* threads feed the MAVLink parser of channel 0.  The steps are the        *)
(* statements between which the other thread can run.                      *)
(*                                                                         *)
(* Abstracted: one MAVLink system; a frame is its head and its tail; the   *)
(* aggregated datagrams for the controller are left out.                   *)
(***************************************************************************)
EXTENDS Integers

CONSTANTS
    Addrs,            \* addresses of possible clients
    Comps,            \* MAVLink components
    ClientTimeout,    \* CLIENT_TIMEOUT_US, in ticks of one second
    CheckEvery,       \* client_timeout_check_interval, in ticks
    Fifo,             \* do the threads run under SCHED_FIFO on one core?
    None              \* NULL

ASSUME TelemForwardAssumption ==
    /\ ClientTimeout \in Nat \ {0} /\ CheckEvery \in Nat \ {0}
    /\ Fifo \in BOOLEAN
    /\ None \notin Addrs \cup {"artoo"}
    /\ "artoo" \notin Addrs /\ "all" \notin Comps /\ "system" \notin Comps

VARIABLES
    clients,      \* the clients in the list
    age,          \* ticks since lastRecvTime_us of a client
    table,        \* arp_table of the system; "system" is component 0
    mClients,     \* holder of mutex_clients: "none", "up" or "down"
    mArp,         \* holder of mutex_arp_table
    parser,       \* channel 0: "idle", the thread whose frame it is in, "junk"
    upPc, from, comp, kind, discard,     \* the upstream thread and its datagram
    sawLock,      \* ghost: rc_locked was set when this datagram was checked
    disturbed,    \* ghost: the parser was not its own during that check
    check,        \* ticks until next_client_timeout_check
    ran,          \* what recvfrom returned in this tick: nothing yet, only "empty", "some"
    starved,      \* ghost: a tick passed with empty datagrams only
    downPc, half, target, todo, cur, sent,   \* the downstream thread and its message
    owner,        \* ghost: table[target] when the message began to be sent
    orphan,       \* ghost: the entry of component 0 was missing then
    raced         \* ghost: the table was read while the other thread inserted

shared == << clients, age, table, parser >>
mutexes == << mClients, mArp >>
datagram == << from, comp, kind >>
verdict == << discard, sawLock, disturbed >>
timing == << check, ran, starved >>
upVars == << upPc, datagram, verdict, timing >>
message == << target, todo, cur, sent, owner, orphan, raced >>
downVars == << downPc, half, message >>
vars == << shared, mutexes, upVars, downVars >>

Keys == Comps \cup {"system"}

\* A client is removed at the first check after its timeout.
MaxAge == ClientTimeout + CheckEvery
\* The age of a client that has only sent an empty datagram: lastRecvTime_us = 0.
Never == MaxAge + 2

\* Datagrams: empty, not MAVLink, a MAVLink message, COMMAND_LONG with an arm command.
Kinds == {"empty", "bad", "message", "arm"}

Init ==
    /\ clients = {} /\ age = [a \in Addrs |-> Never]
    /\ table = [k \in Keys |-> None]
    /\ mClients = "none" /\ mArp = "none"
    /\ parser = "idle"
    /\ upPc = "recv" /\ from = None /\ comp = None /\ kind = "none"
    /\ discard = FALSE /\ sawLock = FALSE /\ disturbed = FALSE
    /\ check = 0 /\ ran = "none" /\ starved = FALSE
    /\ downPc = "read" /\ half = FALSE /\ target = "all" /\ todo = {} /\ cur = None
    /\ sent = {} /\ owner = None /\ orphan = FALSE /\ raced = FALSE

-----------------------------------------------------------------------------
(* The MAVLink parser of channel 0, fed by both threads.                   *)

\* Does this half complete a good frame of the thread?
Completes(who, part) == part = "tail" /\ parser = who

\* mavlink_frame_char over half a frame: bytes that do not continue the frame
\* end it with a bad CRC or are swallowed, and may contain a start byte.
Feed(who, part) ==
    IF part = "head" /\ parser = "idle" THEN {who}
    ELSE IF Completes(who, part) THEN {"idle"}
    ELSE {"idle", "junk"}

-----------------------------------------------------------------------------
(* The upstream thread.                                                    *)

\* Where the downstream thread waits: for data or for a mutex.
DownWaits ==
    \/ downPc = "read"
    \/ downPc = "route" /\ mClients = "up"
    \/ downPc \in {"sys", "comp"} /\ mArp = "up"

\* The downstream thread has the higher priority.
UpAt(pc) == upPc = pc /\ (Fifo => DownWaits)

\* recvfrom returns a datagram; find_client looks for its sender.
Recv(a, k, m) ==
    /\ UpAt("recv")
    /\ from' = a /\ comp' = k /\ kind' = m
    /\ upPc' = IF a = "artoo" \/ a \in clients THEN "accept" ELSE "find"
    /\ UNCHANGED << shared, mutexes, verdict, timing, downVars >>

\* find_client: a sender that is neither known nor the controller becomes a client.
FindClient ==
    /\ UpAt("find") /\ mClients = "none"
    /\ clients' = clients \cup {from}
    /\ age' = [age EXCEPT ![from] = Never]
    /\ upPc' = "accept"
    /\ UNCHANGED << table, parser, mutexes, datagram, verdict, timing, downVars >>

\* The datagram is dealt with.
Forget ==
    /\ from' = None /\ comp' = None /\ kind' = "none"
    /\ discard' = FALSE /\ sawLock' = FALSE /\ disturbed' = FALSE

\* An empty datagram only registers its sender.
AcceptEmpty ==
    /\ UpAt("accept") /\ kind = "empty"
    /\ upPc' = "recv" /\ Forget
    /\ ran' = IF ran = "none" THEN "empty" ELSE ran
    /\ UNCHANGED << shared, mutexes, check, starved, downVars >>

\* One that cannot be MAVLink is dropped.
Accept ==
    /\ UpAt("accept") /\ kind # "empty"
    /\ upPc' = IF kind = "bad" THEN "stamp" ELSE "check"
    /\ UNCHANGED << shared, mutexes, datagram, verdict, timing, downVars >>

\* When the RC is locked, COMMAND_LONG is parsed to find arm commands.  rc_locked
\* is a copy main makes of the lock files every second: it may have either value.
CheckLock ==
    /\ UpAt("check")
    /\ sawLock' \in BOOLEAN
    /\ disturbed' = (parser # "idle")
    /\ upPc' = IF sawLock' /\ kind = "arm" THEN "head" ELSE "write"
    /\ UNCHANGED << shared, mutexes, datagram, discard, timing, downVars >>

ParseHead ==
    /\ UpAt("head")
    /\ parser' \in Feed("up", "head")
    /\ upPc' = "tail"
    /\ UNCHANGED << clients, age, table, mutexes, datagram, verdict, timing, downVars >>

\* Mutant of ParseTail: the arm command is not discarded.
ParseTailKept ==
    /\ UpAt("tail")
    /\ parser' \in Feed("up", "tail")
    /\ upPc' = "write"
    /\ UNCHANGED << clients, age, table, mutexes, datagram, verdict, timing, downVars >>

ParseTail ==
    /\ UpAt("tail")
    /\ parser' \in Feed("up", "tail")
    /\ discard' = Completes("up", "tail")
    /\ upPc' = "write"
    /\ UNCHANGED << clients, age, table, mutexes, datagram, sawLock, disturbed,
                    timing, downVars >>

\* The message is written to the serial port, unless it is discarded.
Write ==
    /\ UpAt("write")
    /\ upPc' = IF from = "artoo" THEN "stamp" ELSE "seen"
    /\ UNCHANGED << shared, mutexes, datagram, verdict, timing, downVars >>

\* set_seen_sysid_compid_from_client takes mutex_arp_table ...
Seen ==
    /\ UpAt("seen") /\ mArp = "none"
    /\ mArp' = "up"
    /\ upPc' = "insert"
    /\ UNCHANGED << shared, mClients, datagram, verdict, timing, downVars >>

\* Mutant of Inserted: the last sender takes the component over.
InsertedAlways == [table EXCEPT ![comp] = from, !["system"] = from]

Inserted ==
    IF table[comp] = None THEN [table EXCEPT ![comp] = from, !["system"] = from] ELSE table

\* ... and the first client of a component gets it.
Insert ==
    /\ UpAt("insert")
    /\ table' = Inserted
    /\ mArp' = "none"
    /\ upPc' = "stamp"
    /\ UNCHANGED << clients, age, parser, mClients, datagram, verdict, timing, downVars >>

\* Mutant of CheckDue: clients are checked only when recvfrom times out.
CheckOnTimeout(received) == ~received /\ check = 0

CheckDue(received) == check = 0

\* lastRecvTime_us = now_us; is it time to check the clients?
Stamp ==
    /\ UpAt("stamp")
    /\ age' = IF from \in clients THEN [age EXCEPT ![from] = 0] ELSE age
    /\ upPc' = IF CheckDue(TRUE) THEN "reap" ELSE "recv"
    /\ ran' = "some"
    /\ Forget
    /\ UNCHANGED << clients, table, parser, mutexes, check, starved, downVars >>

\* recvfrom returns after a second without a datagram.
RecvTimeout ==
    /\ UpAt("recv") /\ ran = "none"
    /\ upPc' = IF CheckDue(FALSE) THEN "reap" ELSE "recv"
    /\ ran' = "some"
    /\ UNCHANGED << shared, mutexes, datagram, verdict, check, starved, downVars >>

\* check_client_timeouts takes mutex_clients ...
Reap ==
    /\ UpAt("reap") /\ mClients = "none"
    /\ mClients' = "up"
    /\ upPc' = "reaping"
    /\ UNCHANGED << shared, mArp, datagram, verdict, timing, downVars >>

Expired(a) == a \in clients /\ age[a] > ClientTimeout

\* Mutant of Purged: the table keeps its pointers to the client.
PurgedNothing(a) == table

\* purge_client_from_arp_table: every entry of the client, component 0 included.
Purged(a) == [k \in Keys |-> IF table[k] = a THEN None ELSE table[k]]

\* ... removes and deletes the clients that have timed out ...
Remove(a) ==
    /\ UpAt("reaping") /\ mArp = "none"
    /\ Expired(a)
    /\ table' = Purged(a)
    /\ clients' = clients \ {a}
    /\ UNCHANGED << age, parser, mutexes, upVars, downVars >>

\* ... and lets go.
Reaped ==
    /\ UpAt("reaping")
    /\ \A a \in Addrs : ~Expired(a)
    /\ mClients' = "none"
    /\ check' = CheckEvery /\ starved' = FALSE
    /\ upPc' = "recv"
    /\ UNCHANGED << shared, mArp, datagram, verdict, ran, downVars >>

-----------------------------------------------------------------------------
(* The downstream thread.                                                  *)

\* read returns the first half of a frame ...
ReadHead ==
    /\ downPc = "read" /\ ~half
    /\ half' = TRUE
    /\ parser' \in Feed("down", "head")
    /\ disturbed' = (disturbed \/ upPc \in {"head", "tail"})
    /\ UNCHANGED << clients, age, table, mutexes, upPc, datagram, discard, sawLock,
                    timing, downPc, message >>

\* ... and, after another poll, the second.  The frame is forwarded even if its
\* CRC is bad, but a disturbed parser may not find a frame at all.
ReadTail ==
    /\ downPc = "read" /\ half
    /\ half' = FALSE
    /\ parser' \in Feed("down", "tail")
    /\ disturbed' = (disturbed \/ upPc \in {"head", "tail"})
    /\ \/ downPc' = "route" /\ target' \in Comps \cup {"all"}
       \/ ~Completes("down", "tail") /\ UNCHANGED << downPc, target >>
    /\ UNCHANGED << clients, age, table, mutexes, upPc, datagram, discard, sawLock,
                    timing, todo, cur, sent, owner, orphan, raced >>

\* A message from the injection port goes to every client.
Inject ==
    /\ downPc = "read"
    /\ target' = "all"
    /\ downPc' = "route"
    /\ UNCHANGED << shared, mutexes, upVars, half, todo, cur, sent, owner, orphan, raced >>

Begin ==
    /\ todo' = clients /\ sent' = {}
    /\ owner' = IF target \in Comps THEN table[target] ELSE None
    /\ orphan' = (table["system"] = None)
    /\ raced' = FALSE
    /\ downPc' = "next"
    /\ UNCHANGED << shared, mArp, upVars, half, target, cur >>

\* It takes mutex_clients and goes through the list.
Route ==
    /\ downPc = "route" /\ mClients = "none"
    /\ mClients' = "down"
    /\ Begin

Visit(c) ==
    /\ downPc = "next"
    /\ c \in todo
    /\ cur' = c /\ todo' = todo \ {c}
    /\ IF target = "all" THEN sent' = sent \cup {c} /\ downPc' = "next"
                         ELSE downPc' = "sys" /\ UNCHANGED sent
    /\ UNCHANGED << shared, mutexes, upVars, half, target, owner, orphan, raced >>

\* should_send_message_to_client: seen_sysid ...
SeenSys ==
    /\ downPc = "sys" /\ mArp = "none"
    /\ downPc' = IF table["system"] # None THEN "comp" ELSE "next"
    /\ UNCHANGED << shared, mutexes, upVars, half, message >>

\* ... seen_sysid_compid ...
SeenComp ==
    /\ downPc = "comp" /\ mArp = "none"
    /\ downPc' = IF table["system"] # None /\ table[target] # None THEN "match" ELSE "next"
    /\ UNCHANGED << shared, mutexes, upVars, half, message >>

\* ... and clients_match on the entry, read without a mutex: it may be missed
\* while the other thread inserts another one.
Match ==
    /\ downPc = "match"
    /\ \/ /\ sent' = IF table[target] = cur THEN sent \cup {cur} ELSE sent
          /\ UNCHANGED raced
       \/ /\ upPc = "insert"
          /\ raced' = TRUE /\ UNCHANGED sent
    /\ downPc' = "next"
    /\ UNCHANGED << shared, mutexes, upVars, half, target, todo, cur, owner, orphan >>

Routed ==
    /\ downPc = "next" /\ todo = {}
    /\ mClients' = IF mClients = "down" THEN "none" ELSE mClients
    /\ downPc' = "read"
    /\ target' = "all" /\ cur' = None /\ sent' = {} /\ owner' = None
    /\ orphan' = FALSE /\ raced' = FALSE
    /\ UNCHANGED << shared, mArp, upVars, half, todo >>

-----------------------------------------------------------------------------
\* Mutant of Tick: the countdown of the check runs below zero.
TickBelow ==
    /\ upPc = "recv" /\ ran # "none"
    /\ ran' = "none" /\ starved' = (starved \/ ran = "empty")
    /\ age' = [a \in Addrs |-> IF age[a] <= MaxAge THEN age[a] + 1 ELSE age[a]]
    /\ check' = check - 1
    /\ UNCHANGED << clients, table, parser, mutexes, upPc, datagram, verdict, downVars >>

\* A second passes; upstream_task has gone round its loop in it.
Tick ==
    /\ upPc = "recv" /\ ran # "none"
    /\ ran' = "none"
    /\ starved' = (starved \/ ran = "empty")
    /\ age' = [a \in Addrs |-> IF age[a] <= MaxAge THEN age[a] + 1 ELSE age[a]]
    /\ check' = IF check > 0 THEN check - 1 ELSE 0
    /\ UNCHANGED << clients, table, parser, mutexes, upPc, datagram, verdict, downVars >>

\* The serial port stays full for a second: the process exits, init restarts it.
Stuck ==
    /\ UpAt("check")
    /\ clients' = {} /\ age' = [a \in Addrs |-> Never] /\ table' = [k \in Keys |-> None]
    /\ mClients' = "none" /\ mArp' = "none" /\ parser' = "idle"
    /\ upPc' = "recv" /\ check' = 0 /\ ran' = "none" /\ starved' = FALSE
    /\ downPc' = "read" /\ half' = FALSE /\ target' = "all" /\ todo' = {} /\ cur' = None
    /\ sent' = {} /\ owner' = None /\ orphan' = FALSE /\ raced' = FALSE
    /\ Forget

UpNext ==
    \/ \E a \in Addrs \cup {"artoo"}, k \in Comps, m \in Kinds : Recv(a, k, m)
    \/ FindClient \/ AcceptEmpty \/ Accept \/ CheckLock \/ ParseHead \/ ParseTail \/ Write
    \/ Seen \/ Insert \/ Stamp \/ RecvTimeout
    \/ Reap \/ Reaped
    \/ \E a \in Addrs : Remove(a)
    \/ Stuck

DownNext ==
    \/ ReadHead \/ ReadTail \/ Inject
    \/ Route \/ SeenSys \/ SeenComp \/ Match \/ Routed
    \/ \E c \in Addrs : Visit(c)

Next == UpNext \/ DownNext \/ Tick

Spec == Init /\ [][Next]_vars

-----------------------------------------------------------------------------
(* Properties.                                                             *)

\* Every variable has its type.
TypeOK ==
    /\ clients \subseteq Addrs /\ age \in [Addrs -> 0..Never]
    /\ table \in [Keys -> Addrs \cup {None}]
    /\ mClients \in {"none", "up", "down"} /\ mArp \in {"none", "up"}
    /\ parser \in {"idle", "up", "down", "junk"}
    /\ upPc \in {"recv", "find", "accept", "check", "head", "tail", "write", "seen", "insert",
                 "stamp", "reap", "reaping"}
    /\ from \in Addrs \cup {"artoo", None} /\ comp \in Comps \cup {None}
    /\ kind \in Kinds \cup {"none"}
    /\ discard \in BOOLEAN /\ sawLock \in BOOLEAN /\ disturbed \in BOOLEAN
    /\ check \in 0..CheckEvery /\ ran \in {"none", "empty", "some"}
    /\ starved \in BOOLEAN /\ half \in BOOLEAN
    /\ downPc \in {"read", "route", "next", "sys", "comp", "match"}
    /\ target \in Comps \cup {"all"} /\ todo \subseteq Addrs /\ cur \in Addrs \cup {None}
    /\ sent \subseteq Addrs /\ owner \in Addrs \cup {None}
    /\ orphan \in BOOLEAN /\ raced \in BOOLEAN

\* No thread follows a pointer to a deleted client: arp_table and the part of the
\* list the downstream thread is still to visit name clients that exist.
NoDangling ==
    /\ \A k \in Keys : table[k] \in clients \cup {None}
    /\ downPc \notin {"read", "route"} => todo \subseteq clients
    /\ downPc \in {"sys", "comp", "match"} => cur \in clients

\* The client a component was seen from gets the log blocks addressed to it,
\* unless the entry of component 0 was lost or the table was read while the
\* upstream thread wrote it.
RoutedToOwner ==
    downPc = "next" /\ todo = {} /\ owner # None /\ ~orphan /\ ~raced => sent = {owner}

\* Statement by statement, with the upstream thread in between and the table read
\* without its mutex, the downstream thread passes messages on as a Router does: to
\* every client that was there, or to the one client a component was first seen from.
Passing == downPc \in {"next", "sys", "comp", "match"}
Ahead == IF downPc = "next" THEN todo ELSE todo \cup {cur}
Due ==
    IF ~Passing THEN {}
    ELSE IF target = "all" THEN todo
    ELSE IF orphan THEN {}
    ELSE {owner} \cap Ahead
Routes == INSTANCE Router WITH
    Clients <- Addrs, members <- clients, home <- table, claiming <- mArp = "up",
    busy <- Passing, message <- IF Passing THEN target ELSE "all",
    due <- Due, got <- sent
RouterSpec == Routes!Spec

\* A client that stopped sending is removed within the timeout and one check
\* interval, even if other datagrams never stop coming - unless for a second
\* nothing but empty datagrams came, after which nothing is checked.
FreshClients == ~starved => \A a \in clients : age[a] # Never => age[a] <= MaxAge

\* While the RC is locked no arm command is written to the Pixhawk, unless the
\* downstream thread was using the parser.
LockedNoArm == upPc = "write" /\ kind = "arm" /\ sawLock /\ ~disturbed => discard

\* If we're rc-locked, an arm command is not sent.
RcLockedNoArm == upPc = "write" /\ kind = "arm" /\ sawLock => discard

=============================================================================
