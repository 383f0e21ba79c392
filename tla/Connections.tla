---------------------------- MODULE Connections ----------------------------
(***************************************************************************)
(* The connections of StratumServer (stratum.py), from accept to the end   *)
(* of ClientConn.run, and the offline monitor that watches the miners      *)
(* behind them.                                                            *)
(*                                                                         *)
(* A miner that loses power or its network leaves a socket that looks open *)
(* until keepalive gives up, and meanwhile comes back on another one.      *)
(* on_authorize awaits its reply after it has set the identity and before  *)
(* it registers, so another authorize may run in between.  Time is counted *)
(* in units small against OFFLINE_TICK; what is in progress when nothing   *)
(* is awaited is one action.                                               *)
(***************************************************************************)
EXTENDS Naturals, FiniteSets

CONSTANTS Conn,            \* sockets, used again after they ended
          User, NoUser,    \* identities address.worker
          Ip,
          DiagUser, Loopback,  \* identity and address of the self-test
          MaxConnections,  \* MAX_CONNECTIONS
          AuthTimeout,     \* AUTH_TIMEOUT
          ScanEvery,       \* OFFLINE_TICK
          Grace            \* OFFLINE_GRACE

ASSUME UserAssumption == NoUser \notin User /\ IsFiniteSet(User)
ASSUME LimitAssumption ==
  /\ MaxConnections \in Nat /\ AuthTimeout \in Nat \ {0}
  /\ ScanEvery \in Nat \ {0} /\ Grace \in Nat \ {0}

VARIABLES
  conn,         \* conn[c]: its coroutine, identity and peer, or Free
  clients,      \* StratumServer.clients
  subscribers,  \* JobManager.subscribers
  seen,         \* seen_miners[u]: time since last_seen, alerted; or Never
  slept,        \* how long offline_loop has slept
  delivering,   \* alerts it still has to hand to the webhook
  alerts        \* alerts[u]: alerts since an authorize as u, or its end

server == <<conn, clients, subscribers>>
monitor == <<seen, slept, delivering>>
vars == <<server, monitor, alerts>>

Free == [at |-> "free"]
Never == [known |-> FALSE, since |-> 0, alerted |-> FALSE]

Running(c) == conn[c].at # "free"
Authorized(c) == Running(c) /\ conn[c].user # NoUser
Internal(c) == conn[c].user = DiagUser /\ conn[c].ip = Loopback
Present(u) == \E c \in clients : Authorized(c) /\ conn[c].user = u
Live(u) == \E c \in clients : Authorized(c) /\ conn[c].user = u /\ conn[c].alive

-----------------------------------------------------------------------------
(* A connection: accept, read, authorize, end. *)

Init ==
  /\ conn = [c \in Conn |-> Free]
  /\ clients = {} /\ subscribers = {}
  /\ seen = [u \in User |-> Never]
  /\ slept = 0 /\ delivering = 0
  /\ alerts = [u \in User |-> 0]

\* handle; beyond the limit the socket is closed at once.
Connect(c, ip) ==
  /\ ~Running(c) /\ Cardinality(clients) < MaxConnections
  /\ conn' = [conn EXCEPT ![c] = [at |-> "reading", user |-> NoUser, ip |-> ip,
                                  alive |-> TRUE, closed |-> FALSE, waited |-> 0]]
  /\ clients' = clients \cup {c}
  /\ UNCHANGED <<subscribers, monitor, alerts>>

Readable(c) == conn[c].at = "reading" /\ conn[c].alive /\ ~conn[c].closed

\* Any line but a good authorize, before the first good one.  Its reply, if it
\* gets one, is written at once or has to wait for the peer to read.
Speak(c) ==
  /\ Running(c) /\ Readable(c) /\ ~Authorized(c)
  /\ \E at \in {"reading", "answering"} :
       conn' = [conn EXCEPT ![c].at = at, ![c].waited = 0]
  /\ UNCHANGED <<clients, subscribers, monitor, alerts>>

\* drain returns; AUTH_TIMEOUT starts again with the next readline.
Answered(c) ==
  /\ conn[c].at = "answering"
  /\ conn' = [conn EXCEPT ![c].at = "reading"]
  /\ UNCHANGED <<clients, subscribers, monitor, alerts>>

\* on_authorize as far as its reply, which may have to wait for the peer.
Authorize(c, u) ==
  /\ Running(c) /\ Readable(c)
  /\ conn' = [conn EXCEPT ![c].user = u, ![c].at = "replying"]
  /\ alerts' = [alerts EXCEPT ![u] = 0]
  /\ UNCHANGED <<clients, subscribers, monitor>>

\* (mutant) Only the first authorize of a connection looks for ghosts.
GhostsAtFirst(c) ==
  {d \in clients \ {c} : Authorized(d) /\ ~Internal(d) /\ c \notin subscribers
                         /\ conn[d].user = conn[c].user /\ conn[d].ip = conn[c].ip}

\* evict_stale_duplicates: who is taken for a ghost of c.
Ghosts(c) ==
  {d \in clients \ {c} : Authorized(d) /\ ~Internal(d)
                         /\ conn[d].user = conn[c].user /\ conn[d].ip = conn[c].ip}

\* (mutant) A miner that is back keeps the alert it had.
NotedKeeping(e) == [known |-> TRUE, since |-> 0, alerted |-> e.alerted]

\* note_miner.
Noted(e) == [known |-> TRUE, since |-> 0, alerted |-> FALSE]

\* on_authorize after its reply: evict, note, register.  Whether c is itself
\* still among the clients is not asked.
Join(c) ==
  /\ conn[c].at = "replying"
  /\ LET ghosts == IF Internal(c) THEN {} ELSE Ghosts(c) IN
       /\ clients' = clients \ ghosts
       /\ subscribers' = (subscribers \ ghosts) \cup {c}
       /\ conn' = [d \in Conn |-> IF d \in ghosts THEN [conn[d] EXCEPT !.closed = TRUE]
                                  ELSE IF d = c THEN [conn[d] EXCEPT !.at = "reading"]
                                  ELSE conn[d]]
  /\ seen' = IF Internal(c) THEN seen ELSE [seen EXCEPT ![conn[c].user] = Noted(@)]
  /\ alerts' = [alerts EXCEPT ![conn[c].user] = 0]
  /\ UNCHANGED <<slept, delivering>>

\* (mutant) Only who is still listed is unregistered.
LeaveListed(c) ==
  /\ conn' = [conn EXCEPT ![c] = Free]
  /\ clients' = clients \ {c}
  /\ subscribers' = IF c \in clients THEN subscribers \ {c} ELSE subscribers
  /\ UNCHANGED <<monitor, alerts>>

\* run and handle return.
Leave(c) ==
  /\ conn' = [conn EXCEPT ![c] = Free]
  /\ clients' = clients \ {c} /\ subscribers' = subscribers \ {c}
  /\ UNCHANGED <<monitor, alerts>>

\* End of file, a reset, keepalive: at any time.
End(c) == Running(c) /\ Leave(c)

\* (mutant) Without keepalive.
DeadClosed(c) == Running(c) /\ conn[c].closed

\* Whose end must come.
Dead(c) == Running(c) /\ (~conn[c].alive \/ conn[c].closed)

\* Only this readline has a time limit.
Limited(c) == conn[c].at = "reading" /\ ~Authorized(c)

\* (mutant) The time limit is on the other branch.
TimedOutAuthorized(c) ==
  Authorized(c) /\ conn[c].at = "reading" /\ conn[c].waited = AuthTimeout

TimedOut(c) == Limited(c) /\ conn[c].waited = AuthTimeout

TimeOut(c) == TimedOut(c) /\ Leave(c)

\* Power cut or network blip: the socket stays.
PeerDies(c) ==
  /\ Running(c) /\ conn[c].alive
  /\ conn' = [conn EXCEPT ![c].alive = FALSE]
  /\ UNCHANGED <<clients, subscribers, monitor, alerts>>

-----------------------------------------------------------------------------
(* The offline monitor. *)

\* (mutant) An alert that is out is no reason.
LateAgain(e) == e.known /\ e.since = Grace

\* Gone for OFFLINE_GRACE and not alerted yet.
Late(e) == e.known /\ ~e.alerted /\ e.since = Grace

\* scan_offline_miners, when offline_loop has slept and its alerts are out.
Scan ==
  /\ slept = ScanEvery /\ delivering = 0
  /\ LET late == {u \in User : ~Present(u) /\ Late(seen[u])} IN
       /\ seen' = [u \in User |->
            IF seen[u].known /\ Present(u) THEN Noted(seen[u])
            ELSE IF u \in late THEN [seen[u] EXCEPT !.alerted = TRUE] ELSE seen[u]]
       /\ delivering' = Cardinality(late)
       /\ alerts' = [u \in User |-> IF u \in late /\ alerts[u] < 2 THEN alerts[u] + 1
                                    ELSE alerts[u]]
  /\ slept' = 0
  /\ UNCHANGED server

\* notify_miner_offline returns, whether the webhook answered or not.
Delivered ==
  /\ delivering > 0 /\ delivering' = delivering - 1
  /\ UNCHANGED <<server, seen, slept, alerts>>

UpTo(limit, n) == IF n < limit THEN n + 1 ELSE n

\* Time passes.  A scan and a timeout that are due happen first.
Tick ==
  /\ slept < ScanEvery
  /\ \A c \in Conn : Running(c) => ~TimedOut(c)
  /\ slept' = IF delivering = 0 THEN slept + 1 ELSE slept
  /\ seen' = [u \in User |->
       IF seen[u].known THEN [seen[u] EXCEPT !.since = UpTo(Grace, @)] ELSE seen[u]]
  /\ conn' = [c \in Conn |->
       IF Limited(c) THEN [conn[c] EXCEPT !.waited = UpTo(AuthTimeout, @)] ELSE conn[c]]
  /\ UNCHANGED <<clients, subscribers, delivering, alerts>>

-----------------------------------------------------------------------------

Next ==
  \/ \E c \in Conn :
       \/ \E ip \in Ip : Connect(c, ip)
       \/ \E u \in User : Authorize(c, u)
       \/ Speak(c) \/ Answered(c) \/ Join(c) \/ End(c) \/ TimeOut(c) \/ PeerDies(c)
  \/ Scan \/ Delivered \/ Tick

Fairness ==
  /\ WF_vars(Tick) /\ WF_vars(Scan) /\ WF_vars(Delivered)
  /\ \A c \in Conn : WF_vars(Dead(c) /\ End(c)) /\ WF_vars(TimeOut(c))

Spec == Init /\ [][Next]_vars /\ Fairness

-----------------------------------------------------------------------------
(* Properties. *)

Connection ==
  [at : {"reading", "answering", "replying"}, user : User \cup {NoUser}, ip : Ip,
   alive : BOOLEAN, closed : BOOLEAN, waited : 0..AuthTimeout]

TypeOK ==
  /\ conn \in [Conn -> Connection \cup {Free}]
  /\ clients \subseteq Conn /\ subscribers \subseteq Conn
  /\ Cardinality(clients) <= MaxConnections
  /\ \A c \in clients \cup subscribers : Running(c)
  /\ seen \in [User -> [known : BOOLEAN, since : 0..Grace, alerted : BOOLEAN]]
  /\ slept \in 0..ScanEvery /\ delivering \in 0..Cardinality(User)
  /\ alerts \in [User -> 0..2]

\* "Remove it immediately, so only the fresh connection remains on the
\* dashboard" (stratum.py:200): of one rig (identity and address) never two
\* connections are listed, however authorizations and their replies overlap.
OneRig(c, d) == conn[c].user = conn[d].user /\ conn[c].ip = conn[d].ip /\ ~Internal(c)
Joined == {c \in clients : Authorized(c) /\ conn[c].at = "reading"}
NoTwins == \A c, d \in Joined : c # d => ~OneRig(c, d)

\* However a miner's connections come and go, it is reported offline at most
\* once until it authorizes again, also when scans meet a reply under way.
OneAlertPerAbsence == \A u \in User : alerts[u] <= 1

\* A listed miner is armed: it is known and carries no earlier alert, which
\* would hide its next loss.
LossArmed ==
  \A c \in Joined : ~Internal(c) => seen[conn[c].user].known /\ ~seen[conn[c].user].alerted

\* A miner that is gone for good is reported in the end, even if its socket
\* looks open at first.
LossReported ==
  \A u \in User : <>[](seen[u].known /\ ~Live(u)) => <>[](seen[u].alerted)

\* "Idle sockets cannot hold the connection slots forever" (stratum.py:454): a
\* connection that never authorizes ends, unless it speaks again and again or
\* does not read what it is answered, for which nothing sets a limit.
IdleDropped ==
  \A c \in Conn : \/ []<>(~Running(c) \/ Authorized(c))
                  \/ []<><<Speak(c)>>_vars
                  \/ <>[](conn[c].at = "answering")

\* "Drop a connection that never authorizes (slot hogging)" (stratum.py:55).
UnauthorizedDropped == \A c \in Conn : []<>(~Running(c) \/ Authorized(c))
=============================================================================
