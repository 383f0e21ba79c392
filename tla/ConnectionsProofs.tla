------------------------- MODULE ConnectionsProofs -------------------------
(***************************************************************************)
(* Proofs about Connections, for any number of sockets, identities and     *)
(* addresses and any limits and periods.                                   *)
(***************************************************************************)
EXTENDS Connections, FiniteSetTheorems, TLAPS

\* Who is alerted about is alerted in the monitor's eyes, and not present.
AlertsAccounted ==
  \A u \in User :
    /\ alerts[u] # 0 => seen[u].known /\ seen[u].alerted /\ ~Present(u)
    /\ alerts[u] <= 1

\* Who waits for the reply to its authorize has said who it is, who waits for
\* another has not.
Introduced ==
  \A c \in Conn : /\ conn[c].at = "replying" => conn[c].user \in User
                  /\ conn[c].at = "answering" => conn[c].user = NoUser

IInv ==
  /\ TypeOK /\ IsFiniteSet(clients) /\ Introduced
  /\ NoTwins /\ LossArmed /\ AlertsAccounted

Entry == [known : BOOLEAN, since : 0..Grace, alerted : BOOLEAN]

-----------------------------------------------------------------------------
(* Lemmas on the pieces. *)

LEMMA CapStays ==
  ASSUME NEW limit \in Nat, NEW n \in 0..limit
  PROVE  UpTo(limit, n) \in 0..limit
BY DEF UpTo

LEMMA FreeIsNone ==
  ASSUME NEW r \in Connection
  PROVE  /\ r # Free /\ r.at \in {"reading", "answering", "replying"} /\ r.user \in User \cup {NoUser}
         /\ r.ip \in Ip /\ r.alive \in BOOLEAN /\ r.closed \in BOOLEAN
         /\ r.waited \in 0..AuthTimeout
BY DEF Connection, Free

\* What runs is a connection, what does not is Free.
LEMMA RunningTyped ==
  ASSUME TypeOK, NEW c \in Conn
  PROVE  /\ Running(c) => conn[c] \in Connection
         /\ ~Running(c) => conn[c] = Free
<1>1. conn[c] \in Connection \cup {Free}
  BY DEF TypeOK
<1>2. conn[c] \in Connection => conn[c].at # "free"
  BY FreeIsNone
<1>3. Free.at = "free"
  BY DEF Free
<1> QED
  BY <1>1, <1>2, <1>3 DEF Running

\* A connection with one field changed.
LEMMA FieldChanges ==
  ASSUME NEW r \in Connection, NEW u \in User, NEW w \in 0..AuthTimeout
  PROVE  /\ [r EXCEPT !.waited = w] \in Connection
         /\ [r EXCEPT !.alive = FALSE] \in Connection
         /\ [r EXCEPT !.closed = TRUE] \in Connection
         /\ [r EXCEPT !.at = "reading"] \in Connection
         /\ [r EXCEPT !.user = u, !.at = "replying"] \in Connection
BY DEF Connection

\* Nobody joins and nobody changes identity: no twins appear.
LEMMA JoinedKept ==
  ASSUME IInv,
         \A d \in Joined' : /\ d \in Joined /\ conn'[d].user = conn[d].user
                            /\ conn'[d].ip = conn[d].ip
  PROVE  /\ NoTwins'
         /\ seen' = seen => LossArmed'
<1>1. \A c, d \in Joined' : OneRig(c, d)' => OneRig(c, d)
  BY DEF OneRig, Internal
<1>2. \A d \in Joined' : ~Internal(d)' => ~Internal(d)
  BY DEF Internal
<1> QED
  BY <1>1, <1>2 DEF IInv, NoTwins, LossArmed

\* Nobody appears and nothing is noted or alerted: the accounts stay.
LEMMA AccountsKept ==
  ASSUME IInv, seen' = seen, alerts' = alerts,
         \A u \in User : Present(u)' => Present(u)
  PROVE  AlertsAccounted'
BY DEF IInv, AlertsAccounted

\* Fewer clients are still few.
LEMMA ClientsShrink ==
  ASSUME IInv, clients' \subseteq clients
  PROVE  IsFiniteSet(clients') /\ Cardinality(clients') <= MaxConnections
<1>1. IsFiniteSet(clients) /\ Cardinality(clients) \in Nat /\ Cardinality(clients) <= MaxConnections
  BY FS_CardinalityType DEF IInv, TypeOK
<1>2. IsFiniteSet(clients') /\ Cardinality(clients') <= Cardinality(clients)
  BY <1>1, FS_Subset
<1>3. Cardinality(clients') \in Nat
  BY <1>2, FS_CardinalityType
<1> QED
  BY <1>1, <1>2, <1>3, LimitAssumption

LEMMA InitInv == Init => IInv
<1> SUFFICES ASSUME Init PROVE IInv
  OBVIOUS
<1>1. IsFiniteSet({}) /\ Cardinality({}) = 0
  BY FS_EmptySet
<1>2. Cardinality(User) \in Nat
  BY UserAssumption, FS_CardinalityType
<1>3. TypeOK
  BY <1>1, <1>2, LimitAssumption DEF Init, TypeOK, Never, Free
<1>4. Joined = {} /\ \A u \in User : ~Present(u)
  BY DEF Init, Joined, Present
<1> QED
  BY <1>1, <1>3, <1>4 DEF Init, Free, IInv, NoTwins, LossArmed, AlertsAccounted, Introduced

-----------------------------------------------------------------------------
(* Each action. *)

LEMMA ConnectInv ==
  ASSUME IInv, NEW c \in Conn, NEW ip \in Ip, Connect(c, ip)
  PROVE  IInv'
<1> USE DEF IInv
<1> DEFINE r == [at |-> "reading", user |-> NoUser, ip |-> ip,
                 alive |-> TRUE, closed |-> FALSE, waited |-> 0]
<1>1. r \in Connection
  BY LimitAssumption DEF Connection
<1>2. conn' = [conn EXCEPT ![c] = r] /\ conn \in [Conn -> Connection \cup {Free}]
  BY DEF Connect, TypeOK
<1>3. conn'[c] = r /\ \A d \in Conn : d # c => conn'[d] = conn[d]
  BY <1>2
<1>4. c \notin clients /\ c \notin subscribers
  BY DEF Connect, TypeOK
<1>5. IsFiniteSet(clients') /\ Cardinality(clients') <= MaxConnections
  <2>1. IsFiniteSet(clients) /\ Cardinality(clients) \in Nat
    BY FS_CardinalityType
  <2>2. Cardinality(clients \cup {c}) = Cardinality(clients) + 1
    BY <2>1, <1>4, FS_AddElement
  <2>3. IsFiniteSet(clients \cup {c})
    BY <2>1, FS_AddElement
  <2> QED
    BY <2>1, <2>2, <2>3, LimitAssumption DEF Connect
<1>6. TypeOK'
  <2>1. conn' \in [Conn -> Connection \cup {Free}]
    BY <1>1, <1>2
  <2>2. \A d \in clients' \cup subscribers' : Running(d)'
    BY <1>3, <1>4 DEF TypeOK, Connect, Running
  <2> QED
    BY <2>1, <2>2, <1>5 DEF TypeOK, Connect, server, monitor
<1>7. Joined' = Joined /\ \A d \in Joined : conn'[d] = conn[d]
  BY <1>3, <1>4 DEF Joined, Connect, Authorized, Running, TypeOK
<1>8. \A u \in User : Present(u)' = Present(u)
  BY <1>3, <1>4, UserAssumption DEF Present, Connect, Authorized, Running, TypeOK
<1>9. NoTwins' /\ LossArmed'
  BY <1>7, JoinedKept DEF Connect, monitor
<1>10. AlertsAccounted'
  BY <1>8, AccountsKept DEF Connect, monitor
<1>11. Introduced'
  BY <1>3 DEF Introduced
<1> QED
  BY <1>5, <1>6, <1>9, <1>10, <1>11

\* One connection is changed, but neither who it is nor, once it is authorized,
\* what it waits for.
LEMMA TouchInv ==
  ASSUME IInv, NEW c \in Conn, Running(c), NEW r \in Connection,
         conn' = [conn EXCEPT ![c] = r],
         r.user = conn[c].user, r.ip = conn[c].ip,
         r.at = conn[c].at \/ (~Authorized(c) /\ r.at \in {"reading", "answering"}),
         UNCHANGED <<clients, subscribers, monitor, alerts>>
  PROVE  IInv'
<1> USE DEF IInv, monitor
<1>1. conn \in [Conn -> Connection \cup {Free}] /\ conn[c] \in Connection
  BY RunningTyped DEF TypeOK
<1>2. conn'[c] = r /\ \A d \in Conn : d # c => conn'[d] = conn[d]
  BY <1>1
<1>3. r.at # "free"
  BY FreeIsNone
<1>4. TypeOK'
  <2>1. conn' \in [Conn -> Connection \cup {Free}]
    BY <1>1
  <2>2. \A d \in Conn : Running(d) => Running(d)'
    BY <1>2, <1>3 DEF Running
  <2> QED
    BY <2>1, <2>2 DEF TypeOK
<1>5. \A d \in Conn : /\ Authorized(d)' <=> Authorized(d)
                      /\ conn'[d].user = conn[d].user /\ conn'[d].ip = conn[d].ip
                      /\ Authorized(d) => conn'[d].at = conn[d].at
  BY <1>2, <1>3 DEF Authorized, Running
<1>6. clients \subseteq Conn
  BY DEF TypeOK
<1>7. NoTwins' /\ LossArmed'
  BY <1>5, <1>6, JoinedKept DEF Joined
<1>8. AlertsAccounted'
  BY <1>5, <1>6, AccountsKept DEF Present
<1>9. Introduced'
  <2>1. CASE r.at = conn[c].at
    BY <2>1, <1>2 DEF Introduced
  <2>2. CASE ~Authorized(c) /\ r.at \in {"reading", "answering"}
    BY <2>2, <1>2 DEF Introduced, Authorized
  <2> QED
    BY <2>1, <2>2
<1> QED
  BY <1>4, <1>7, <1>8, <1>9

LEMMA SpeakInv ==
  ASSUME IInv, NEW c \in Conn, Speak(c)
  PROVE  IInv'
<1>1. PICK at \in {"reading", "answering"} :
        conn' = [conn EXCEPT ![c].at = at, ![c].waited = 0]
  BY DEF Speak
<1> DEFINE r == [conn[c] EXCEPT !.at = at, !.waited = 0]
<1>2. Running(c) /\ ~Authorized(c) /\ conn[c] \in Connection
  BY RunningTyped DEF Speak, IInv
<1>3. 0 \in 0..AuthTimeout
  BY LimitAssumption
<1>4. r \in Connection /\ r.user = conn[c].user /\ r.ip = conn[c].ip /\ r.at = at
  BY <1>2, <1>3 DEF Connection
<1>5. conn' = [conn EXCEPT ![c] = r]
  BY <1>1
<1> HIDE DEF r
<1> QED
  BY <1>2, <1>4, <1>5, TouchInv DEF Speak

LEMMA AnsweredInv ==
  ASSUME IInv, NEW c \in Conn, Answered(c)
  PROVE  IInv'
<1> DEFINE r == [conn[c] EXCEPT !.at = "reading"]
<1>1. Running(c) /\ conn[c] \in Connection
  BY RunningTyped DEF Answered, Running, IInv
<1>2. ~Authorized(c)
  BY DEF Answered, IInv, Introduced, Authorized
<1>3. r \in Connection /\ r.user = conn[c].user /\ r.ip = conn[c].ip /\ r.at = "reading"
  BY <1>1 DEF Connection
<1>4. conn' = [conn EXCEPT ![c] = r]
  BY DEF Answered
<1> HIDE DEF r
<1> QED
  BY <1>1, <1>2, <1>3, <1>4, TouchInv DEF Answered

LEMMA PeerDiesInv ==
  ASSUME IInv, NEW c \in Conn, PeerDies(c)
  PROVE  IInv'
<1> DEFINE r == [conn[c] EXCEPT !.alive = FALSE]
<1>1. Running(c) /\ conn[c] \in Connection
  BY RunningTyped DEF PeerDies, IInv
<1>2. r \in Connection /\ r.user = conn[c].user /\ r.ip = conn[c].ip /\ r.at = conn[c].at
  BY <1>1 DEF Connection
<1>3. conn' = [conn EXCEPT ![c] = r]
  BY DEF PeerDies
<1> HIDE DEF r
<1> QED
  BY <1>1, <1>2, <1>3, TouchInv DEF PeerDies

LEMMA AuthorizeInv ==
  ASSUME IInv, NEW c \in Conn, NEW u \in User, Authorize(c, u)
  PROVE  IInv'
<1> USE DEF IInv
<1> DEFINE r == [conn[c] EXCEPT !.user = u, !.at = "replying"]
<1>1. Running(c) /\ conn[c] \in Connection /\ conn \in [Conn -> Connection \cup {Free}]
  BY RunningTyped DEF Authorize, TypeOK
<1>2. r \in Connection /\ r.user = u /\ r.at = "replying"
  BY <1>1 DEF Connection
<1>3. conn' = [conn EXCEPT ![c] = r]
  BY <1>1 DEF Authorize
<1> HIDE DEF r
<1>4. conn'[c] = r /\ \A d \in Conn : d # c => conn'[d] = conn[d]
  BY <1>1, <1>3
<1>5. clients \subseteq Conn /\ clients' = clients /\ subscribers' = subscribers /\ seen' = seen
  BY DEF Authorize, TypeOK, monitor
<1>6. alerts' = [alerts EXCEPT ![u] = 0] /\ alerts \in [User -> 0..2]
  BY DEF Authorize, TypeOK
<1>7. TypeOK'
  <2>1. conn' \in [Conn -> Connection \cup {Free}]
    BY <1>1, <1>2, <1>3
  <2>2. \A d \in Conn : Running(d) => Running(d)'
    BY <1>2, <1>4 DEF Running
  <2>3. alerts' \in [User -> 0..2]
    BY <1>6
  <2> QED
    BY <2>1, <2>2, <2>3, <1>5 DEF TypeOK, Authorize, monitor
<1>8. NoTwins' /\ LossArmed'
  <2>1. \A d \in Joined' : d \in Joined /\ d # c
    BY <1>2, <1>4, <1>5 DEF Joined, Authorized, Running
  <2> QED
    BY <2>1, <1>4, <1>5, JoinedKept DEF Joined
<1>9. AlertsAccounted'
  <2>1. \A v \in User : v # u /\ Present(v)' => Present(v)
    BY <1>2, <1>4, <1>5 DEF Present, Authorized, Running
  <2> QED
    BY <2>1, <1>5, <1>6 DEF AlertsAccounted
<1>10. Introduced'
  BY <1>2, <1>4 DEF Introduced
<1> QED
  BY <1>5, <1>7, <1>8, <1>9, <1>10

LEMMA LeaveInv ==
  ASSUME IInv, NEW c \in Conn, Leave(c)
  PROVE  IInv'
<1> USE DEF IInv
<1>1. conn \in [Conn -> Connection \cup {Free}] /\ clients \subseteq Conn
  BY DEF TypeOK
<1>2. conn'[c] = Free /\ \A d \in Conn : d # c => conn'[d] = conn[d]
  BY <1>1 DEF Leave
<1>3. Free.at = "free"
  BY DEF Free
<1>4. IsFiniteSet(clients') /\ Cardinality(clients') <= MaxConnections
  BY ClientsShrink DEF Leave
<1>5. TypeOK'
  <2>1. conn' \in [Conn -> Connection \cup {Free}]
    BY <1>1 DEF Leave
  <2>2. \A d \in clients' \cup subscribers' : Running(d)'
    BY <1>1, <1>2 DEF TypeOK, Leave, Running
  <2> QED
    BY <2>1, <2>2, <1>4 DEF TypeOK, Leave, monitor
<1>6. \A d \in Conn : Authorized(d)' => Authorized(d) /\ d # c
  BY <1>2, <1>3 DEF Authorized, Running
<1>7. NoTwins' /\ LossArmed'
  BY <1>1, <1>2, <1>6, JoinedKept DEF Joined, Leave, monitor
<1>8. AlertsAccounted'
  BY <1>1, <1>2, <1>6, AccountsKept DEF Present, Leave, monitor
<1>9. Introduced'
  BY <1>2, <1>3 DEF Introduced
<1> QED
  BY <1>4, <1>5, <1>7, <1>8, <1>9

LEMMA JoinInv ==
  ASSUME IInv, NEW c \in Conn, Join(c)
  PROVE  IInv'
<1> USE DEF IInv
<1> DEFINE ghosts == IF Internal(c) THEN {} ELSE Ghosts(c)
           u == conn[c].user
<1>1. conn \in [Conn -> Connection \cup {Free}] /\ clients \subseteq Conn
  BY DEF TypeOK
<1>2. conn[c].at = "replying" /\ Running(c) /\ conn[c] \in Connection /\ u \in User
  BY RunningTyped DEF Join, Introduced, Running
<1>3. c \notin ghosts /\ ghosts \subseteq clients
  BY DEF Ghosts
<1>4. /\ clients' = clients \ ghosts /\ subscribers' = (subscribers \ ghosts) \cup {c}
      /\ conn' = [d \in Conn |-> IF d \in ghosts THEN [conn[d] EXCEPT !.closed = TRUE]
                                 ELSE IF d = c THEN [conn[d] EXCEPT !.at = "reading"]
                                 ELSE conn[d]]
  BY DEF Join
<1>5. \A d \in clients' : d = c \/ Internal(c) \/ ~(Authorized(d) /\ OneRig(c, d))
  BY <1>4 DEF Ghosts, OneRig, Internal
<1>6. \A d \in Conn : d \in ghosts => Running(d) /\ conn[d] \in Connection
  BY RunningTyped DEF Ghosts, Authorized
<1> HIDE DEF ghosts
<1>7. \A d \in Conn : /\ conn'[d] \in Connection \cup {Free}
                      /\ conn'[d].user = conn[d].user /\ conn'[d].ip = conn[d].ip
                      /\ conn'[d].at = IF d = c THEN "reading" ELSE conn[d].at
  <2> SUFFICES ASSUME NEW d \in Conn
               PROVE  /\ conn'[d] \in Connection \cup {Free}
                      /\ conn'[d].user = conn[d].user /\ conn'[d].ip = conn[d].ip
                      /\ conn'[d].at = IF d = c THEN "reading" ELSE conn[d].at
    OBVIOUS
  <2>1. CASE d \in ghosts
    BY <2>1, <1>3, <1>4, <1>6 DEF Connection
  <2>2. CASE d = c
    BY <2>2, <1>2, <1>3, <1>4 DEF Connection
  <2>3. CASE d \notin ghosts /\ d # c
    BY <2>3, <1>1, <1>4
  <2> QED
    BY <2>1, <2>2, <2>3
<1>8. \A d \in Conn : Authorized(d)' <=> Authorized(d)
  BY <1>2, <1>7 DEF Authorized, Running
<1>9. IsFiniteSet(clients') /\ Cardinality(clients') <= MaxConnections
  BY <1>4, ClientsShrink
<1>10. seen' = [v \in User |-> IF v = u /\ ~Internal(c) THEN Noted(seen[v]) ELSE seen[v]]
       /\ seen \in [User -> Entry]
  BY DEF Join, TypeOK, Entry
<1>11. alerts' = [alerts EXCEPT ![u] = 0] /\ alerts \in [User -> 0..2]
  BY DEF Join, TypeOK
<1> HIDE DEF u
<1>12. TypeOK'
  <2>1. conn' \in [Conn -> Connection \cup {Free}]
    BY <1>4, <1>7
  <2>2. \A d \in Conn : Running(d) => Running(d)'
    BY <1>7 DEF Running
  <2>3. seen' \in [User -> Entry]
    BY <1>10, LimitAssumption DEF Noted, Entry
  <2>4. alerts' \in [User -> 0..2]
    BY <1>2, <1>11
  <2> QED
    BY <2>1, <2>2, <2>3, <2>4, <1>2, <1>4, <1>9 DEF TypeOK, Join, Entry
<1>13. \A d \in Joined' : d = c \/ d \in Joined
  BY <1>1, <1>4, <1>7, <1>8 DEF Joined
<1>14. \A d, e \in Conn : OneRig(d, e)' <=> OneRig(d, e)
  BY <1>7 DEF OneRig, Internal
<1>15. NoTwins'
  <2> SUFFICES ASSUME NEW d \in Joined', NEW e \in Joined', d # e, OneRig(d, e)'
               PROVE  FALSE
    BY DEF NoTwins
  <2>1. d \in clients' /\ e \in clients' /\ d \in Conn /\ e \in Conn /\ Authorized(d) /\ Authorized(e)
    BY <1>1, <1>4, <1>8 DEF Joined
  <2>2. OneRig(d, e) /\ OneRig(e, d)
    BY <2>1, <1>14 DEF OneRig, Internal
  <2>3. CASE d # c /\ e # c
    BY <2>2, <2>3, <1>13 DEF NoTwins
  <2>4. CASE d = c \/ e = c
    BY <2>1, <2>2, <2>4, <1>5 DEF OneRig
  <2> QED
    BY <2>3, <2>4
<1>16. LossArmed'
  <2> SUFFICES ASSUME NEW d \in Joined', ~Internal(d)'
               PROVE  seen'[conn'[d].user].known /\ ~seen'[conn'[d].user].alerted
    BY DEF LossArmed
  <2>1. /\ d \in Conn /\ conn'[d].user = conn[d].user
        /\ ~Internal(d) /\ conn[d].user \in User
    <3>1. d \in Conn /\ conn'[d].user = conn[d].user /\ ~Internal(d) /\ Authorized(d)
      BY <1>1, <1>4, <1>7, <1>8 DEF Joined, Internal
    <3>2. conn[d] \in Connection
      BY <3>1, RunningTyped DEF Authorized
    <3> QED
      BY <3>1, <3>2, FreeIsNone DEF Authorized
  <2>2. CASE d = c
    BY <2>1, <2>2, <1>10 DEF Noted, u
  <2>3. CASE d # c
    <3>1. seen[conn[d].user].known /\ ~seen[conn[d].user].alerted
      BY <2>1, <2>3, <1>13 DEF LossArmed
    <3> QED
      BY <3>1, <2>1, <1>10 DEF Noted
  <2> QED
    BY <2>2, <2>3
<1>17. AlertsAccounted'
  <2>1. \A v \in User : Present(v)' => Present(v)
    BY <1>1, <1>4, <1>7, <1>8 DEF Present
  <2> QED
    BY <2>1, <1>2, <1>10, <1>11 DEF AlertsAccounted
<1>18. Introduced'
  BY <1>7 DEF Introduced
<1> QED
  BY <1>9, <1>12, <1>15, <1>16, <1>17, <1>18

LEMMA ScanInv ==
  ASSUME IInv, Scan
  PROVE  IInv'
<1> USE DEF IInv
<1> DEFINE late == {u \in User : ~Present(u) /\ Late(seen[u])}
<1>1. /\ conn' = conn /\ clients' = clients /\ subscribers' = subscribers
      /\ slept' = 0 /\ delivering' = Cardinality(late)
      /\ seen' = [u \in User |->
            IF seen[u].known /\ Present(u) THEN Noted(seen[u])
            ELSE IF u \in late THEN [seen[u] EXCEPT !.alerted = TRUE] ELSE seen[u]]
      /\ alerts' = [u \in User |-> IF u \in late /\ alerts[u] < 2 THEN alerts[u] + 1
                                   ELSE alerts[u]]
  BY DEF Scan, server
<1>2. seen \in [User -> Entry] /\ alerts \in [User -> 0..2]
  BY DEF TypeOK, Entry
<1>3. Cardinality(late) \in 0..Cardinality(User)
  <2>1. late \subseteq User /\ IsFiniteSet(User)
    BY UserAssumption
  <2> HIDE DEF late
  <2>2. IsFiniteSet(late) /\ Cardinality(late) <= Cardinality(User)
    BY <2>1, FS_Subset
  <2>3. Cardinality(late) \in Nat /\ Cardinality(User) \in Nat
    BY <2>1, <2>2, FS_CardinalityType
  <2> QED
    BY <2>2, <2>3
<1>4. \A u \in late : /\ u \in User /\ ~Present(u) /\ alerts[u] = 0
                      /\ seen[u].known /\ ~seen[u].alerted
  BY <1>2 DEF Late, AlertsAccounted
<1> HIDE DEF late
<1>5. \A u \in User : Present(u)' <=> Present(u)
  BY <1>1 DEF Present, Authorized, Running
<1>12. \A u \in User : u \in late => /\ seen'[u].known /\ seen'[u].alerted
                                     /\ alerts'[u] = 1
  <2> SUFFICES ASSUME NEW u \in User, u \in late
               PROVE  seen'[u].known /\ seen'[u].alerted /\ alerts'[u] = 1
    OBVIOUS
  <2>1. seen'[u] = [seen[u] EXCEPT !.alerted = TRUE] /\ seen[u] \in Entry
    BY <1>1, <1>2, <1>4
  <2> QED
    BY <2>1, <1>1, <1>4 DEF Entry
<1>13. \A u \in User : u \notin late => alerts'[u] = alerts[u]
  BY <1>1
<1>15. \A u \in User : u \notin late /\ ~Present(u) => seen'[u] = seen[u]
  BY <1>1
<1>14. \A u \in User : Present(u) /\ seen[u].known => seen'[u].known /\ ~seen'[u].alerted
  BY <1>1 DEF Noted
<1>6. TypeOK'
  <2>1. seen' \in [User -> Entry] /\ alerts' \in [User -> 0..2]
    <3>1. \A e \in Entry : Noted(e) \in Entry
      BY LimitAssumption DEF Entry, Noted
    <3>4. \A e \in Entry : [e EXCEPT !.alerted = TRUE] \in Entry
      BY DEF Entry
    <3>2. seen' \in [User -> Entry]
      BY <3>1, <3>4, <1>1, <1>2
    <3>3. alerts' \in [User -> 0..2]
      BY <1>1, <1>2
    <3> QED
      BY <3>2, <3>3
  <2> QED
    BY <2>1, <1>1, <1>3, LimitAssumption DEF TypeOK, Entry, Running
<1>7. Joined' = Joined /\ conn' = conn
  BY <1>1 DEF Joined, Authorized, Running
<1>8. NoTwins'
  BY <1>7 DEF NoTwins, OneRig, Internal
<1>9. LossArmed'
  <2> SUFFICES ASSUME NEW d \in Joined, ~Internal(d)
               PROVE  seen'[conn[d].user].known /\ ~seen'[conn[d].user].alerted
    BY <1>7 DEF LossArmed, Internal
  <2>1. d \in clients /\ d \in Conn /\ Authorized(d)
    BY DEF Joined, TypeOK
  <2>2. conn[d].user \in User
    BY <2>1, RunningTyped, FreeIsNone DEF Authorized
  <2>3. Present(conn[d].user) /\ seen[conn[d].user].known
    BY <2>1 DEF Present, LossArmed
  <2> QED
    BY <2>2, <2>3, <1>14
<1>10. AlertsAccounted'
  <2> SUFFICES ASSUME NEW u \in User
               PROVE  /\ alerts'[u] # 0 => seen'[u].known /\ seen'[u].alerted /\ ~Present(u)'
                      /\ alerts'[u] <= 1
    BY DEF AlertsAccounted
  <2>1. CASE u \in late
    BY <2>1, <1>4, <1>5, <1>12
  <2>2. CASE u \notin late
    <3>1. alerts'[u] = alerts[u]
      BY <2>2, <1>13
    <3>4. alerts[u] <= 1
      BY DEF AlertsAccounted
    <3>2. ASSUME alerts[u] # 0 PROVE seen[u].known /\ seen[u].alerted /\ ~Present(u)
      BY <3>2 DEF AlertsAccounted
    <3>3. ASSUME alerts[u] # 0 PROVE seen'[u] = seen[u] /\ ~Present(u)'
      BY <2>2, <3>2, <3>3, <1>5, <1>15
    <3> QED
      BY <3>1, <3>2, <3>3, <3>4
  <2> QED
    BY <2>1, <2>2
<1>11. Introduced'
  BY <1>1 DEF Introduced
<1> QED
  BY <1>1, <1>6, <1>8, <1>9, <1>10, <1>11

LEMMA DeliveredInv ==
  ASSUME IInv, Delivered
  PROVE  IInv'
<1> USE DEF IInv
<1>1. /\ UNCHANGED <<conn, clients, subscribers, seen, slept, alerts>>
      /\ delivering' = delivering - 1 /\ delivering > 0
  BY DEF Delivered, server
<1>2. Cardinality(User) \in Nat
  BY UserAssumption, FS_CardinalityType
<1>3. TypeOK'
  BY <1>1, <1>2 DEF TypeOK, Running
<1>4. Joined' = Joined
  BY <1>1 DEF Joined, Authorized, Running
<1>5. NoTwins' /\ LossArmed'
  BY <1>1, <1>4, JoinedKept
<1>6. AlertsAccounted'
  BY <1>1, AccountsKept DEF Present, Authorized, Running
<1>7. Introduced'
  BY <1>1 DEF Introduced
<1> QED
  BY <1>1, <1>3, <1>5, <1>6, <1>7

LEMMA TickInv ==
  ASSUME IInv, Tick
  PROVE  IInv'
<1> USE DEF IInv
<1>1. /\ clients' = clients /\ subscribers' = subscribers
      /\ delivering' = delivering /\ alerts' = alerts
      /\ slept < ScanEvery /\ slept' = IF delivering = 0 THEN slept + 1 ELSE slept
      /\ seen' = [u \in User |->
           IF seen[u].known THEN [seen[u] EXCEPT !.since = UpTo(Grace, @)] ELSE seen[u]]
      /\ conn' = [c \in Conn |->
           IF Limited(c) THEN [conn[c] EXCEPT !.waited = UpTo(AuthTimeout, @)] ELSE conn[c]]
  BY DEF Tick
<1>2. seen \in [User -> Entry] /\ conn \in [Conn -> Connection \cup {Free}]
      /\ clients \subseteq Conn
  BY DEF TypeOK, Entry
<1>3. \A d \in Conn : /\ conn'[d] \in Connection \cup {Free}
                      /\ conn'[d].user = conn[d].user /\ conn'[d].ip = conn[d].ip
                      /\ conn'[d].at = conn[d].at
  <2> SUFFICES ASSUME NEW d \in Conn
               PROVE  /\ conn'[d] \in Connection \cup {Free}
                      /\ conn'[d].user = conn[d].user /\ conn'[d].ip = conn[d].ip
                      /\ conn'[d].at = conn[d].at
    OBVIOUS
  <2>1. CASE Limited(d)
    <3>1. conn[d] \in Connection
      BY <2>1, RunningTyped DEF Limited, Running
    <3>2. UpTo(AuthTimeout, conn[d].waited) \in 0..AuthTimeout
      BY <3>1, FreeIsNone, CapStays, LimitAssumption
    <3>3. conn'[d] = [conn[d] EXCEPT !.waited = UpTo(AuthTimeout, conn[d].waited)]
      BY <1>1, <2>1
    <3> QED
      BY <3>1, <3>2, <3>3 DEF Connection
  <2>2. CASE ~Limited(d)
    BY <2>2, <1>1, <1>2
  <2> QED
    BY <2>1, <2>2
<1>4. \A u \in User : /\ seen'[u] \in Entry
                      /\ seen'[u].known = seen[u].known /\ seen'[u].alerted = seen[u].alerted
  <2> SUFFICES ASSUME NEW u \in User
               PROVE  /\ seen'[u] \in Entry
                      /\ seen'[u].known = seen[u].known /\ seen'[u].alerted = seen[u].alerted
    OBVIOUS
  <2>1. seen[u] \in Entry /\ seen[u].since \in 0..Grace
    BY <1>2 DEF Entry
  <2>2. UpTo(Grace, seen[u].since) \in 0..Grace
    BY <2>1, CapStays, LimitAssumption
  <2>3. seen'[u] = IF seen[u].known THEN [seen[u] EXCEPT !.since = UpTo(Grace, seen[u].since)]
                   ELSE seen[u]
    BY <1>1
  <2> QED
    BY <2>1, <2>2, <2>3 DEF Entry
<1>5. \A d \in Conn : (Running(d)' <=> Running(d)) /\ (Authorized(d)' <=> Authorized(d))
  BY <1>3 DEF Running, Authorized
<1>6. TypeOK'
  <2>1. conn' \in [Conn -> Connection \cup {Free}]
    BY <1>1, <1>3
  <2>2. seen' \in [User -> Entry]
    BY <1>1, <1>4
  <2>3. slept' \in 0..ScanEvery
    BY <1>1, LimitAssumption DEF TypeOK
  <2>4. \A c \in clients' \cup subscribers' : Running(c)'
    BY <1>1, <1>5 DEF TypeOK
  <2> QED
    BY <2>1, <2>2, <2>3, <2>4, <1>1 DEF TypeOK, Entry
<1>7. Joined' = Joined
  BY <1>1, <1>2, <1>3, <1>5 DEF Joined
<1>8. NoTwins'
  BY <1>2, <1>3, <1>7 DEF NoTwins, OneRig, Internal, Joined
<1>9. LossArmed'
  <2> SUFFICES ASSUME NEW d \in Joined, ~Internal(d)'
               PROVE  seen'[conn'[d].user].known /\ ~seen'[conn'[d].user].alerted
    BY <1>7 DEF LossArmed
  <2>1. d \in Conn /\ conn'[d].user = conn[d].user /\ ~Internal(d) /\ Authorized(d)
    BY <1>2, <1>3 DEF Internal, Joined
  <2>2. conn[d].user \in User
    BY <2>1, RunningTyped, FreeIsNone DEF Authorized
  <2> QED
    BY <2>1, <2>2, <1>4 DEF LossArmed
<1>10. AlertsAccounted'
  <2>1. \A u \in User : Present(u)' <=> Present(u)
    BY <1>1, <1>2, <1>3, <1>5 DEF Present
  <2> QED
    BY <2>1, <1>1, <1>4 DEF AlertsAccounted
<1>11. Introduced'
  BY <1>3 DEF Introduced
<1> QED
  BY <1>1, <1>6, <1>8, <1>9, <1>10, <1>11

-----------------------------------------------------------------------------

LEMMA StepInv == IInv /\ [Next]_vars => IInv'
<1> SUFFICES ASSUME IInv, [Next]_vars PROVE IInv'
  OBVIOUS
<1>1. ASSUME NEW c \in Conn, NEW ip \in Ip, Connect(c, ip) PROVE IInv'
  BY <1>1, ConnectInv
<1>2. ASSUME NEW c \in Conn, NEW u \in User, Authorize(c, u) PROVE IInv'
  BY <1>2, AuthorizeInv
<1>3. ASSUME NEW c \in Conn, Speak(c) PROVE IInv'
  BY <1>3, SpeakInv
<1>4. ASSUME NEW c \in Conn, Join(c) PROVE IInv'
  BY <1>4, JoinInv
<1>11. ASSUME NEW c \in Conn, Answered(c) PROVE IInv'
  BY <1>11, AnsweredInv
<1>5. ASSUME NEW c \in Conn, End(c) \/ TimeOut(c) PROVE IInv'
  BY <1>5, LeaveInv DEF End, TimeOut
<1>6. ASSUME NEW c \in Conn, PeerDies(c) PROVE IInv'
  BY <1>6, PeerDiesInv
<1>7. CASE Scan
  BY <1>7, ScanInv
<1>8. CASE Delivered
  BY <1>8, DeliveredInv
<1>9. CASE Tick
  BY <1>9, TickInv
<1>10. CASE UNCHANGED vars
  BY <1>10 DEF vars, server, monitor, IInv, TypeOK, Introduced, NoTwins, Joined, OneRig,
     Internal, LossArmed, AlertsAccounted, Present, Authorized, Running
<1> QED
  BY <1>1, <1>2, <1>3, <1>4, <1>5, <1>6, <1>7, <1>8, <1>9, <1>10, <1>11 DEF Next

\* The inductive invariant holds throughout.
THEOREM Inductive == Spec => []IInv
<1> QED
  BY InitInv, StepInv, PTL DEF Spec

\* Every variable keeps its type, no more connections are listed than
\* MAX_CONNECTIONS, and only running ones are listed or notified.
THEOREM TypeCorrect == Spec => []TypeOK
<1>1. IInv => TypeOK
  BY DEF IInv
<1> QED
  BY Inductive, <1>1, PTL

\* evict_stale_duplicates leaves one listed connection of a rig, however
\* authorizations overlap.
THEOREM OneOfEachRig == Spec => []NoTwins
<1>1. IInv => NoTwins
  BY DEF IInv
<1> QED
  BY Inductive, <1>1, PTL

\* scan_offline_miners reports an absence at most once.
THEOREM AlertedOnce == Spec => []OneAlertPerAbsence
<1>1. IInv => OneAlertPerAbsence
  BY DEF IInv, AlertsAccounted, OneAlertPerAbsence
<1> QED
  BY Inductive, <1>1, PTL

\* note_miner arms every miner that is listed.
THEOREM ListedAreArmed == Spec => []LossArmed
<1>1. IInv => LossArmed
  BY DEF IInv
<1> QED
  BY Inductive, <1>1, PTL
=============================================================================
