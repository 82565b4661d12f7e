------------------------- MODULE SessionTableProofs -------------------------
(***************************************************************************)
(* Proofs about SessionTable for any number of connections, clients,       *)
(* sequence numbers and bins, and any hash function.                       *)
(***************************************************************************)
EXTENDS SessionTable, SequenceTheorems, FiniteSetTheorems, TLAPS

Contains(q, x) == \E i \in DOMAIN q : q[i] = x

Injective(q) == \A i, j \in DOMAIN q : q[i] = q[j] => i = j

\* remove_session puts a connection at the tail of free_session_q.
LEMMA AppendFacts ==
  ASSUME NEW S, NEW q \in Seq(S), NEW x \in S
  PROVE  /\ Append(q, x) \in Seq(S)
         /\ Append(q, x) # <<>>
         /\ \A y : Contains(Append(q, x), y) <=> Contains(q, y) \/ y = x
         /\ Injective(q) /\ ~Contains(q, x) => Injective(Append(q, x))
<1> DEFINE a == Append(q, x)
<1>1. /\ a \in Seq(S) /\ Len(a) = Len(q) + 1 /\ a # <<>>
      /\ \A i \in 1 .. Len(q) : a[i] = q[i]
      /\ a[Len(q) + 1] = x
      /\ DOMAIN a = 1 .. Len(q) + 1
      /\ DOMAIN q = 1 .. Len(q) /\ Len(q) \in Nat
  BY AppendProperties, LenProperties
<1>2. ASSUME NEW y PROVE Contains(a, y) <=> Contains(q, y) \/ y = x
  <2>1. ASSUME Contains(a, y) PROVE Contains(q, y) \/ y = x
    <3>1. PICK i \in 1 .. Len(q) + 1 : a[i] = y BY <2>1, <1>1 DEF Contains
    <3>2. CASE i = Len(q) + 1 BY <3>1, <3>2, <1>1
    <3>3. CASE i \in 1 .. Len(q) BY <3>1, <3>3, <1>1 DEF Contains
    <3> QED BY <3>1, <3>2, <3>3, <1>1
  <2>2. ASSUME Contains(q, y) PROVE Contains(a, y)
    <3>1. PICK i \in 1 .. Len(q) : q[i] = y BY <2>2, <1>1 DEF Contains
    <3>2. i \in DOMAIN a /\ a[i] = y BY <3>1, <1>1
    <3> QED BY <3>2 DEF Contains
  <2>3. Contains(a, x)
    <3>1. Len(q) + 1 \in DOMAIN a BY <1>1
    <3> QED BY <3>1, <1>1 DEF Contains
  <2> QED BY <2>1, <2>2, <2>3
<1>3. ASSUME Injective(q), ~Contains(q, x), NEW i \in DOMAIN a, NEW j \in DOMAIN a, a[i] = a[j]
      PROVE  i = j
  <2>1. \A m \in 1 .. Len(q) : q[m] # x BY <1>3, <1>1 DEF Contains
  <2>2. i \in 1 .. Len(q) \/ i = Len(q) + 1 BY <1>1
  <2>3. j \in 1 .. Len(q) \/ j = Len(q) + 1 BY <1>1
  <2> QED BY <2>1, <2>2, <2>3, <1>1, <1>3 DEF Injective
<1> QED BY <1>1, <1>2, <1>3 DEF Injective

\* pop_free_connection takes the head of free_session_q.
LEMMA PopFacts ==
  ASSUME NEW S, NEW q \in Seq(S), q # <<>>, Injective(q)
  PROVE  /\ Head(q) \in S /\ Contains(q, Head(q))
         /\ Tail(q) \in Seq(S)
         /\ \A y : Contains(Tail(q), y) <=> Contains(q, y) /\ y # Head(q)
         /\ Injective(Tail(q))
<1> DEFINE t == Tail(q)
<1>1. /\ t \in Seq(S) /\ Len(t) = Len(q) - 1 /\ Len(q) \in Nat \ {0}
      /\ \A i \in 1 .. Len(q) - 1 : t[i] = q[i + 1]
      /\ DOMAIN t = 1 .. Len(q) - 1
      /\ DOMAIN q = 1 .. Len(q)
      /\ Head(q) = q[1] /\ Head(q) \in S
  BY HeadTailProperties, LenProperties, EmptySeq
<1>2. Contains(q, Head(q))
  <2>1. 1 \in DOMAIN q BY <1>1
  <2> QED BY <2>1, <1>1 DEF Contains
<1>3. ASSUME NEW y PROVE Contains(t, y) <=> Contains(q, y) /\ y # Head(q)
  <2>1. ASSUME Contains(t, y) PROVE Contains(q, y) /\ y # Head(q)
    <3>1. PICK i \in 1 .. Len(q) - 1 : q[i + 1] = y BY <2>1, <1>1 DEF Contains
    <3>2. i + 1 \in DOMAIN q /\ i + 1 # 1 /\ 1 \in DOMAIN q BY <3>1, <1>1
    <3>3. y # q[1] BY <3>1, <3>2 DEF Injective
    <3> QED BY <3>1, <3>2, <3>3, <1>1 DEF Contains
  <2>2. ASSUME Contains(q, y), y # Head(q) PROVE Contains(t, y)
    <3>1. PICK i \in 1 .. Len(q) : q[i] = y BY <2>2, <1>1 DEF Contains
    <3>2. i # 1 BY <3>1, <2>2, <1>1
    <3>3. i - 1 \in 1 .. Len(q) - 1 /\ (i - 1) + 1 = i BY <3>1, <3>2, <1>1
    <3>4. t[i - 1] = y BY <3>1, <3>3, <1>1
    <3> QED BY <3>3, <3>4, <1>1, Zenon DEF Contains
  <2> QED BY <2>1, <2>2
<1>4. Injective(t)
  <2> SUFFICES ASSUME NEW i \in DOMAIN t, NEW j \in DOMAIN t, t[i] = t[j] PROVE i = j
    BY DEF Injective
  <2>1. i + 1 \in DOMAIN q /\ j + 1 \in DOMAIN q /\ q[i + 1] = q[j + 1] BY <1>1
  <2>2. i + 1 = j + 1 BY <2>1 DEF Injective
  <2> QED BY <2>2, <1>1
<1> QED BY <1>1, <1>2, <1>3, <1>4
-----------------------------------------------------------------------------
\* What the steps preserve together.
IInv == TypeOK /\ TableSound /\ MigrationMatches

\* The record that clear_tcp_connection and clear_ssl_session leave.
LEMMA ClearType ==
  ASSUME NEW r \in ConnState
  PROVE  Clear(r) \in ConnState /\ Clear(r).state = "IDLE"
BY TableAssumption DEF Clear, ConnState, MetaHdr, NoMeta, Era

\* The record that insert_tcp_connection leaves.
LEMMA OpenedType ==
  ASSUME NEW r \in ConnState, NEW k \in Key, NEW i \in Isn, NEW f \in Era, tmajor \in Era
  PROVE  /\ Opened(r, k, i, f) \in ConnState
         /\ Opened(r, k, i, f).state = "OPEN" /\ Opened(r, k, i, f).key = k
BY Zenon DEF Opened, ConnState

\* TableSound in terms of Contains and Injective.
LEMMA TableSoundAlt ==
  TableSound <=>
    /\ \A c \in Conn : conn[c].state = "IDLE" <=> Contains(free, c)
    /\ Injective(free)
    /\ \A b \in Bin : table[b] = {c \in Used : Hash(conn[c].key) = b}
    /\ \A c \in Used : conn[c].key \in Key
    /\ \A c, d \in Used : conn[c].key = conn[d].key => c = d
    /\ active = Cardinality(Used)
BY DEF TableSound, Contains, Injective

\* The same in the next state.
LEMMA TableSoundAltNext ==
  TableSound' <=>
    /\ \A c \in Conn : conn'[c].state = "IDLE" <=> Contains(free', c)
    /\ Injective(free')
    /\ \A b \in Bin : table'[b] = {c \in Used' : Hash(conn'[c].key) = b}
    /\ \A c \in Used' : conn'[c].key \in Key
    /\ \A c, d \in Used' : conn'[c].key = conn'[d].key => c = d
    /\ active' = Cardinality(Used')
BY DEF TableSound, Contains, Injective

\* The connections in use are finitely many, and how their number changes.
LEMMA UsedFinite ==
  ASSUME NEW U \in SUBSET Conn
  PROVE  /\ IsFiniteSet(U) /\ Cardinality(U) \in Nat
         /\ \A c \in U : Cardinality(U \ {c}) = Cardinality(U) - 1
         /\ \A c \in Conn \ U : Cardinality(U \cup {c}) = Cardinality(U) + 1
<1>1. IsFiniteSet(U) BY TableAssumption, FS_Subset
<1> QED BY <1>1, FS_CardinalityType, FS_AddElement, FS_RemoveElement

\* ht_search finds the connection in use with the four-tuple, if there is one.
LEMMA SearchFacts ==
  ASSUME IInv, NEW k \in Key
  PROVE  /\ Matches(k) = {c \in Used : conn[c].key = k}
         /\ Found(k) => Search(k) \in Used /\ conn[Search(k)].key = k
         /\ ~Found(k) => \A c \in Used : conn[c].key # k
<1>1. table[Hash(k)] = {c \in Used : Hash(conn[c].key) = Hash(k)}
  BY TableAssumption DEF IInv, TableSound
<1>2. Matches(k) = {c \in Used : conn[c].key = k} BY <1>1 DEF Matches
<1>3. Found(k) => Search(k) \in Matches(k) BY DEF Found, Search
<1> QED BY <1>2, <1>3 DEF Found
-----------------------------------------------------------------------------
\* A step that leaves the four-tuple and the state of every connection alone
\* keeps the table sound.
LEMMA FieldsOnly ==
  ASSUME IInv, TypeOK', UNCHANGED <<table, free, active>>,
         \A c \in Conn : conn'[c].state = conn[c].state /\ conn'[c].key = conn[c].key
  PROVE  TableSound'
<1>1. Used' = Used BY DEF Used
<1> QED BY <1>1 DEF IInv, TableSound, Used

\* remove_session keeps the table sound.
LEMMA RemoveKeeps ==
  ASSUME IInv, NEW c \in Used, RemoveSession(c)
  PROVE  /\ conn' \in [Conn -> ConnState] /\ table' \in [Bin -> SUBSET Conn]
         /\ free' \in Seq(Conn) /\ active' \in Nat
         /\ TableSound'
<1>1. c \in Conn /\ conn[c] \in ConnState /\ conn[c].key \in Key /\ conn[c].state # "IDLE"
  BY DEF IInv, TypeOK, TableSound, Used
<1>2. conn' = [conn EXCEPT ![c] = Clear(conn[c])] /\ Clear(conn[c]) \in ConnState
      /\ Clear(conn[c]).state = "IDLE"
  BY <1>1, ClearType DEF RemoveSession
<1>3. conn' \in [Conn -> ConnState] /\ conn'[c].state = "IDLE"
      /\ \A d \in Conn \ {c} : conn'[d] = conn[d]
  BY <1>1, <1>2 DEF IInv, TypeOK
<1>4. Used' = Used \ {c} BY <1>1, <1>3 DEF Used
<1>5. table' \in [Bin -> SUBSET Conn]
      /\ \A b \in Bin : table'[b] = table[b] \ (IF b = Hash(conn[c].key) THEN {c} ELSE {})
  BY <1>1, TableAssumption DEF RemoveSession, IInv, TypeOK
<1>6. ~Contains(free, c) /\ Injective(free) /\ free \in Seq(Conn)
  BY <1>1, TableSoundAlt DEF IInv, TypeOK
<1>7. /\ free' \in Seq(Conn) /\ Injective(free')
      /\ \A d : Contains(free', d) <=> Contains(free, d) \/ d = c
  BY <1>1, <1>6, AppendFacts DEF RemoveSession
<1>8. \A d \in Conn : conn'[d].state = "IDLE" <=> Contains(free', d)
  BY <1>3, <1>7, TableSoundAlt DEF IInv
<1>9. \A b \in Bin : table'[b] = {d \in Used' : Hash(conn'[d].key) = b}
  <2> SUFFICES ASSUME NEW b \in Bin
               PROVE table'[b] = {d \in Used' : Hash(conn'[d].key) = b}
    OBVIOUS
  <2>1. table[b] = {d \in Used : Hash(conn[d].key) = b} BY DEF IInv, TableSound
  <2>2. {d \in Used' : Hash(conn'[d].key) = b} = table[b] \ {c}
    BY <2>1, <1>3, <1>4 DEF Used
  <2>3. b # Hash(conn[c].key) => c \notin table[b] BY <2>1
  <2> QED BY <2>2, <2>3, <1>5
<1>10. active' = Cardinality(Used') /\ active' \in Nat
  <2>1. Used \in SUBSET Conn /\ Used \ {c} \in SUBSET Conn BY DEF Used
  <2>2. Cardinality(Used \ {c}) = Cardinality(Used) - 1 /\ Cardinality(Used \ {c}) \in Nat
    BY <2>1, UsedFinite
  <2> QED BY <2>2, <1>4 DEF RemoveSession, IInv, TableSound
<1>11. /\ \A d \in Used' : conn'[d].key \in Key
       /\ \A d, e \in Used' : conn'[d].key = conn'[e].key => d = e
  BY <1>3, <1>4 DEF IInv, TableSound, Used
<1> QED BY <1>3, <1>5, <1>7, <1>8, <1>9, <1>10, <1>11, TableSoundAltNext

\* insert_tcp_connection keeps the table sound when the four-tuple is new.
LEMMA InsertKeeps ==
  ASSUME IInv, NEW k \in Key, NEW i \in Isn, ~Found(k), free # <<>>, InsertConnection(k, i)
  PROVE  /\ conn' \in [Conn -> ConnState] /\ table' \in [Bin -> SUBSET Conn]
         /\ free' \in Seq(Conn) /\ active' \in Nat
         /\ TableSound'
<1> DEFINE c == Head(free)
<1>1. /\ c \in Conn /\ Contains(free, c) /\ free' \in Seq(Conn) /\ Injective(free')
      /\ \A d : Contains(free', d) <=> Contains(free, d) /\ d # c
  BY PopFacts, TableSoundAlt DEF InsertConnection, IInv, TypeOK
<1>2. conn[c].state = "IDLE" /\ conn[c] \in ConnState /\ c \notin Used
  BY <1>1, TableSoundAlt DEF IInv, TypeOK, Used
<1>3. /\ conn' = [conn EXCEPT ![c] = Opened(conn[c], k, i, tmajor)]
      /\ Opened(conn[c], k, i, tmajor) \in ConnState
      /\ Opened(conn[c], k, i, tmajor).state = "OPEN" /\ Opened(conn[c], k, i, tmajor).key = k
  BY <1>2, OpenedType DEF InsertConnection, IInv, TypeOK
<1>4. /\ conn' \in [Conn -> ConnState] /\ conn'[c].state = "OPEN" /\ conn'[c].key = k
      /\ \A d \in Conn \ {c} : conn'[d] = conn[d]
  BY <1>1, <1>3 DEF IInv, TypeOK
<1>5. Used' = Used \cup {c} BY <1>1, <1>4 DEF Used
<1>6. table' \in [Bin -> SUBSET Conn]
      /\ \A b \in Bin : table'[b] = table[b] \cup (IF b = Hash(k) THEN {c} ELSE {})
  BY <1>1, TableAssumption DEF InsertConnection, IInv, TypeOK
<1>7. \A d \in Conn : conn'[d].state = "IDLE" <=> Contains(free', d)
  BY <1>1, <1>4, TableSoundAlt DEF IInv
<1>8. \A b \in Bin : table'[b] = {d \in Used' : Hash(conn'[d].key) = b}
  <2> SUFFICES ASSUME NEW b \in Bin
               PROVE table'[b] = {d \in Used' : Hash(conn'[d].key) = b}
    OBVIOUS
  <2>1. table[b] = {d \in Used : Hash(conn[d].key) = b} BY DEF IInv, TableSound
  <2>2. \A d \in Used : conn'[d] = conn[d] BY <1>2, <1>4 DEF Used
  <2> QED BY <2>1, <2>2, <1>4, <1>5, <1>6
<1>9. active' = Cardinality(Used') /\ active' \in Nat
  <2>1. Used \in SUBSET Conn /\ c \in Conn \ Used BY <1>1, <1>2 DEF Used
  <2>2. Cardinality(Used \cup {c}) = Cardinality(Used) + 1 /\ Cardinality(Used) \in Nat
    BY <2>1, UsedFinite
  <2> QED BY <2>2, <1>5 DEF InsertConnection, IInv, TableSound
<1>10. /\ \A d \in Used' : conn'[d].key \in Key
       /\ \A d, e \in Used' : conn'[d].key = conn'[e].key => d = e
  <2>1. \A d \in Used : conn'[d] = conn[d] /\ conn[d].key # k
    BY <1>2, <1>4, SearchFacts DEF Used
  <2> QED BY <2>1, <1>4, <1>5 DEF IInv, TableSound
<1> QED BY <1>1, <1>4, <1>6, <1>7, <1>8, <1>9, <1>10, TableSoundAltNext

\* One session less and one more.
LEMMA DownAndUp ==
  ASSUME NEW n \in Nat, NEW m, NEW u, m = n - 1, u = m + 1 PROVE u = n
OBVIOUS

\* A session with the client's sequence number i that the host has not been
\* asked about.
Unanswered(r, i) ==
  /\ r.isn = i /\ r.meta.isn = NoIsn /\ r.mig = NoIsn /\ r.ready = NoIsn
  /\ r.hs \notin {"FINISHED", "ACTIVE"}

\* Clearing leaves no answer of the host.
LEMMA ClearUnanswered ==
  ASSUME NEW r PROVE Unanswered(Clear(r), NoIsn)
BY DEF Unanswered, Clear, NoMeta

\* A free connection holds no answer of the host.
LEMMA IdleUnanswered ==
  ASSUME IInv, NEW c \in Conn, conn[c].state = "IDLE" PROVE Unanswered(conn[c], NoIsn)
BY DEF Unanswered, IInv, MigrationMatches

\* Opening a connection only adds the client's sequence number.
LEMMA OpenedUnanswered ==
  ASSUME NEW r \in ConnState, Unanswered(r, NoIsn), NEW k, NEW i, NEW f
  PROVE  Unanswered(Opened(r, k, i, f), i)
BY DEF Unanswered, Opened, ConnState

\* The SYN that replaces a session: the old connection goes to the tail of
\* the queue and the head, perhaps the same one, serves the four-tuple.
LEMMA ReplaceKeeps ==
  ASSUME IInv, NEW k \in Key, NEW i \in Isn, SynNew(k, i)
  PROVE  /\ conn' \in [Conn -> ConnState] /\ table' \in [Bin -> SUBSET Conn]
         /\ free' \in Seq(Conn) /\ active' \in Nat
         /\ TableSound'
         /\ \E d \in Conn :
              /\ Unanswered(conn'[d], i) /\ conn'[d].state = "OPEN"
              /\ \A e \in Conn \ {d} : \/ conn'[e] = conn[e]
                                       \/ e = Search(k) /\ conn'[e] = Clear(conn[e])
<1> DEFINE c == Search(k)
           q == Append(free, c)
           d == Head(q)
           cl == [conn EXCEPT ![c] = Clear(@)]
<1>1. c \in Conn /\ c \in Used /\ conn[c].key = k /\ conn[c].state # "IDLE" /\ conn[c] \in ConnState
  BY SearchFacts DEF SynNew, Used, IInv, TypeOK
<1>2. ~Contains(free, c) /\ Injective(free) /\ free \in Seq(Conn)
  BY <1>1, TableSoundAlt DEF IInv, TypeOK
<1>3. /\ q \in Seq(Conn) /\ q # <<>> /\ Injective(q)
      /\ \A e : Contains(q, e) <=> Contains(free, e) \/ e = c
  BY <1>1, <1>2, AppendFacts
<1>4. /\ d \in Conn /\ Contains(q, d) /\ Tail(q) \in Seq(Conn) /\ Injective(Tail(q))
      /\ \A e : Contains(Tail(q), e) <=> Contains(q, e) /\ e # d
  BY <1>3, PopFacts, Zenon
<1>5. /\ free' = Tail(q)
      /\ conn' = [cl EXCEPT ![d] = Opened(@, k, i, conn[c].cookie)]
      /\ table' = [table EXCEPT ![Hash(k)] = (@ \ {c}) \cup {d}]
      /\ active' = active
  BY DEF SynNew
<1>6. /\ cl \in [Conn -> ConnState] /\ cl[c] = Clear(conn[c]) /\ cl[c].state = "IDLE"
      /\ \A e \in Conn \ {c} : cl[e] = conn[e]
  BY <1>1, ClearType DEF IInv, TypeOK
<1>7. conn[c].cookie \in Era /\ tmajor \in Era /\ cl[d] \in ConnState
  BY <1>1, <1>4, <1>6 DEF IInv, TypeOK, ConnState
<1>8. /\ conn' \in [Conn -> ConnState] /\ conn'[d] = Opened(cl[d], k, i, conn[c].cookie)
      /\ conn'[d].state = "OPEN" /\ conn'[d].key = k
      /\ \A e \in Conn \ {d} : conn'[e] = cl[e]
  BY <1>4, <1>5, <1>6, <1>7, OpenedType
<1>9. d = c \/ (d \notin Used /\ conn[d].state = "IDLE")
  BY <1>3, <1>4, TableSoundAlt DEF IInv, Used
<1>10. Used' = (Used \ {c}) \cup {d}
  BY <1>1, <1>4, <1>6, <1>8 DEF Used
<1>11. \A e \in Conn : conn'[e].state = "IDLE" <=> Contains(free', e)
  BY <1>3, <1>4, <1>5, <1>6, <1>8, TableSoundAlt DEF IInv
<1>12. table' \in [Bin -> SUBSET Conn]
       /\ \A b \in Bin : table'[b] = IF b = Hash(k) THEN (table[b] \ {c}) \cup {d} ELSE table[b]
  BY <1>1, <1>4, <1>5, TableAssumption, Zenon DEF IInv, TypeOK
<1>13. \A e \in Used \ {c} : conn'[e] = conn[e] /\ conn[e].key # k
  BY <1>1, <1>6, <1>8, <1>9 DEF IInv, TableSound, Used
<1>14. \A b \in Bin : table'[b] = {e \in Used' : Hash(conn'[e].key) = b}
  <2> SUFFICES ASSUME NEW b \in Bin
               PROVE table'[b] = {e \in Used' : Hash(conn'[e].key) = b}
    OBVIOUS
  <2>1. table[b] = {e \in Used : Hash(conn[e].key) = b} BY DEF IInv, TableSound
  <2>2. {e \in Used' : Hash(conn'[e].key) = b}
          = (table[b] \ {c}) \cup (IF b = Hash(k) THEN {d} ELSE {})
    BY <2>1, <1>8, <1>10, <1>13
  <2>3. b # Hash(k) => c \notin table[b] BY <2>1, <1>1
  <2> QED BY <2>2, <2>3, <1>12
<1>15. active' = Cardinality(Used') /\ active' \in Nat
  <2>1. Used \in SUBSET Conn /\ Used \ {c} \in SUBSET Conn /\ d \in Conn \ (Used \ {c})
    BY <1>4, <1>9 DEF Used
  <2>2. /\ Cardinality(Used \ {c}) = Cardinality(Used) - 1
        /\ Cardinality((Used \ {c}) \cup {d}) = Cardinality(Used \ {c}) + 1
        /\ Cardinality(Used) \in Nat
    BY <2>1, <1>1, UsedFinite, Zenon
  <2>3. Cardinality((Used \ {c}) \cup {d}) = Cardinality(Used) BY <2>2, DownAndUp, Zenon
  <2>4. active = Cardinality(Used) BY DEF IInv, TableSound
  <2> QED BY <2>2, <2>3, <2>4, <1>5, <1>10, Zenon
<1>16. /\ \A e \in Used' : conn'[e].key \in Key
       /\ \A e, f \in Used' : conn'[e].key = conn'[f].key => e = f
  BY <1>8, <1>10, <1>13 DEF IInv, TableSound
<1>17. Unanswered(conn'[d], i)
  <2>1. CASE d = c BY <2>1, <1>6, <1>8, ClearUnanswered, OpenedUnanswered
  <2>2. CASE d # c BY <2>2, <1>4, <1>6, <1>8, <1>9, IdleUnanswered, OpenedUnanswered
  <2> QED BY <2>1, <2>2
<1>18. \A e \in Conn \ {d} : conn'[e] = conn[e] \/ (e = c /\ conn'[e] = Clear(conn[e]))
  BY <1>6, <1>8
<1>19. \E x \in Conn :
         /\ Unanswered(conn'[x], i) /\ conn'[x].state = "OPEN"
         /\ \A e \in Conn \ {x} : conn'[e] = conn[e] \/ (e = c /\ conn'[e] = Clear(conn[e]))
  BY <1>4, <1>8, <1>17, <1>18
<1> QED BY <1>4, <1>5, <1>8, <1>11, <1>12, <1>14, <1>15, <1>16, <1>19, TableSoundAltNext, Zenon
-----------------------------------------------------------------------------
\* What the other handlers leave there.
LEMMA NoPktType ==
  /\ NoPkt \in [type : {"none", "SYNACK", "RST", "FWD", "NONE", "META", "RSTMETA"},
                key : Key \cup {NoKey}, cookie : Era]
  /\ 0 \in Era
BY TableAssumption DEF NoPkt, Era

\* The preallocated connections form a sound table.
LEMMA InitInvariant == Init => IInv
<1> SUFFICES ASSUME Init PROVE IInv
  OBVIOUS
<1>1. conn \in [Conn -> ConnState] /\ \A c \in Conn : conn[c].state = "IDLE"
  <2>1. Clear([cookie |-> 0, meta |-> NoMeta]) \in ConnState
    BY TableAssumption DEF Clear, ConnState, MetaHdr, NoMeta, Era
  <2> QED BY <2>1 DEF Init, Clear
<1>2. Cardinality(Conn) \in Nat BY TableAssumption, FS_CardinalityType
<1>3. free \in Seq(Conn) BY <1>2 DEF Init
<1>4. TypeOK
  <2>1. NoPkt \in [type : {"none", "SYNACK", "RST", "FWD", "NONE", "META", "RSTMETA"},
                   key : Key \cup {NoKey}, cookie : Era] /\ 0 \in Era
    BY NoPktType
  <2>2. table \in [Bin -> SUBSET Conn] /\ metas \in [Key -> SUBSET Isn] BY DEF Init
  <2> QED BY <1>1, <1>3, <2>1, <2>2, Zenon DEF Init, TypeOK
<1>5. Used = {} BY <1>1 DEF Used
<1>6. TableSound
  BY <1>1, <1>5, TableSoundAlt, FS_EmptySet DEF Init, Contains, Injective
<1>7. MigrationMatches
  <2> SUFFICES ASSUME NEW c \in Conn PROVE Unanswered(conn[c], NoIsn)
    BY <1>1 DEF Unanswered, MigrationMatches
  <2> QED BY ClearUnanswered DEF Init
<1> QED BY <1>4, <1>6, <1>7 DEF IInv

\* What a handler that sends leaves in out is a packet.
LEMMA PktType ==
  ASSUME NEW k \in Key, NEW e \in Era,
         NEW t \in {"none", "SYNACK", "RST", "FWD", "NONE", "META", "RSTMETA"}
  PROVE  Pkt(t, k, e) \in [type : {"none", "SYNACK", "RST", "FWD", "NONE", "META", "RSTMETA"},
                           key : Key \cup {NoKey}, cookie : Era]
BY DEF Pkt

\* A SYN, whether it opens, repeats or replaces a session.
LEMMA SynStep ==
  ASSUME IInv, NEW k \in Key, NEW i \in Isn, process_syn_packet(k, i)
  PROVE  IInv'
<1>1. tmajor \in Era /\ tmajor' = tmajor /\ metas' = metas /\ open' = open \cup {k}
  BY DEF process_syn_packet, IInv, TypeOK
<1>2. CASE SynNone(k, i)
  <2>1. CASE free # <<>> /\ InsertConnection(k, i)
    <3>1. TableSound' BY <1>2, <2>1, InsertKeeps DEF SynNone
    <3>2. TypeOK'
      BY <1>1, <1>2, <2>1, InsertKeeps, PktType DEF SynNone, IInv, TypeOK
    <3>3. MigrationMatches'
      <4> DEFINE c == Head(free)
      <4>1. c \in Conn /\ conn[c].state = "IDLE" /\ conn[c] \in ConnState
        BY <2>1, PopFacts, TableSoundAlt DEF IInv, TypeOK
      <4>2. conn' = [conn EXCEPT ![c] = Opened(conn[c], k, i, tmajor)]
        BY <2>1 DEF InsertConnection
      <4>3. conn'[c] = Opened(conn[c], k, i, tmajor) /\ \A d \in Conn \ {c} : conn'[d] = conn[d]
        BY <4>1, <4>2 DEF IInv, TypeOK
      <4>4. Unanswered(conn'[c], i) /\ conn'[c].state = "OPEN"
        BY <4>1, <4>3, <1>1, IdleUnanswered, OpenedUnanswered, OpenedType
      <4> QED BY <4>3, <4>4, TableAssumption DEF IInv, MigrationMatches, Unanswered
    <3> QED BY <3>1, <3>2, <3>3 DEF IInv
  <2>2. CASE dead' = TRUE /\ UNCHANGED <<conn, table, free, active, out>>
    <3>1. TypeOK' BY <1>1, <2>2 DEF IInv, TypeOK
    <3>2. TableSound' BY <2>2, <3>1, FieldsOnly
    <3>3. MigrationMatches' BY <2>2 DEF IInv, MigrationMatches
    <3> QED BY <3>1, <3>2, <3>3 DEF IInv
  <2> QED BY <1>2, <2>1, <2>2, Zenon DEF SynNone
<1>3. CASE SynRetrans(k, i)
  <2>1. Search(k) \in Conn /\ conn[Search(k)].cookie \in Era
    BY <1>3, SearchFacts DEF SynRetrans, Used, IInv, TypeOK, ConnState
  <2>2. TypeOK' BY <1>1, <1>3, <2>1, PktType DEF SynRetrans, IInv, TypeOK
  <2>3. TableSound' BY <1>3, <2>2, FieldsOnly DEF SynRetrans
  <2>4. MigrationMatches' BY <1>3 DEF SynRetrans, IInv, MigrationMatches
  <2> QED BY <2>2, <2>3, <2>4 DEF IInv
<1>4. CASE SynNew(k, i)
  <2>1. Search(k) \in Conn /\ conn[Search(k)].cookie \in Era
    BY <1>4, SearchFacts DEF SynNew, Used, IInv, TypeOK, ConnState
  <2>2. out' = Pkt("SYNACK", k, conn[Search(k)].cookie) /\ dead' = dead
    BY <1>4 DEF SynNew
  <2>3. TypeOK' BY <1>1, <1>4, <2>1, <2>2, ReplaceKeeps, PktType DEF IInv, TypeOK
  <2>4. TableSound' BY <1>4, ReplaceKeeps
  <2>5. MigrationMatches'
    <3>1. PICK d \in Conn :
            /\ Unanswered(conn'[d], i) /\ conn'[d].state = "OPEN"
            /\ \A e \in Conn \ {d} : \/ conn'[e] = conn[e]
                                     \/ e = Search(k) /\ conn'[e] = Clear(conn[e])
      BY <1>4, ReplaceKeeps
    <3>2. Unanswered(Clear(conn[Search(k)]), NoIsn) /\ Clear(conn[Search(k)]).state = "IDLE"
      BY ClearUnanswered DEF Clear
    <3> QED BY <3>1, <3>2, TableAssumption DEF IInv, MigrationMatches, Unanswered
  <2> QED BY <2>3, <2>4, <2>5 DEF IInv
<1> QED BY <1>2, <1>3, <1>4 DEF process_syn_packet

\* remove_session leaves no answer of the host behind.
LEMMA RemoveMatches ==
  ASSUME IInv, NEW c \in Used, RemoveSession(c)
  PROVE  MigrationMatches'
<1>1. conn'[c] = Clear(conn[c]) /\ \A d \in Conn \ {c} : conn'[d] = conn[d]
  BY DEF RemoveSession, IInv, TypeOK, Used
<1>2. Unanswered(conn'[c], NoIsn) /\ conn'[c].state = "IDLE"
  BY <1>1, ClearUnanswered DEF Clear
<1> QED BY <1>1, <1>2 DEF IInv, MigrationMatches, Unanswered

\* r can take the place of connection c without a change of session.
Fits(c, r) ==
  /\ r \in ConnState /\ r.state = conn[c].state /\ r.key = conn[c].key /\ r.isn = conn[c].isn
  /\ {r.meta.isn, r.mig, r.ready} \subseteq {NoIsn, r.isn}
  /\ r.hs \in {"FINISHED", "ACTIVE"} => r.mig # NoIsn

\* A change of fields of one connection that keeps its state and four-tuple.
LEMMA UpdateKeeps ==
  ASSUME IInv, NEW c \in Conn, NEW r, Fits(c, r), conn' = [conn EXCEPT ![c] = r],
         UNCHANGED <<table, free, active, tmajor, open, dead>>,
         metas' \in [Key -> SUBSET Isn],
         out' \in [type : {"none", "SYNACK", "RST", "FWD", "NONE", "META", "RSTMETA"},
                   key : Key \cup {NoKey}, cookie : Era]
  PROVE  IInv'
<1>1. conn' \in [Conn -> ConnState] /\ conn'[c] = r /\ \A d \in Conn \ {c} : conn'[d] = conn[d]
  BY DEF IInv, TypeOK, Fits
<1>2. TypeOK' BY <1>1 DEF IInv, TypeOK
<1>3. TableSound' BY <1>1, <1>2, FieldsOnly DEF Fits
<1>4. MigrationMatches' BY <1>1 DEF IInv, MigrationMatches, Fits
<1> QED BY <1>2, <1>3, <1>4 DEF IInv

\* Every step keeps the invariant: one case per handler.
LEMMA NextInvariant == IInv /\ [Next]_vars => IInv'
<1> SUFFICES ASSUME IInv, [Next]_vars PROVE IInv'
  OBVIOUS
<1>0. /\ conn \in [Conn -> ConnState] /\ metas \in [Key -> SUBSET Isn]
      /\ \A k \in Key : Found(k) => Search(k) \in Used
      /\ Used \subseteq Conn /\ \A c \in Used : conn[c].key \in Key
  BY SearchFacts DEF IInv, TypeOK, TableSound, Used
<1>m. \A c \in Conn :
        /\ {conn[c].meta.isn, conn[c].mig, conn[c].ready} \subseteq {NoIsn, conn[c].isn}
        /\ conn[c].hs \in {"FINISHED", "ACTIVE"} => conn[c].mig # NoIsn
  BY DEF IInv, MigrationMatches
<1>1. ASSUME NEW k \in Key, NEW i \in Isn, process_syn_packet(k, i) PROVE IInv'
  BY <1>1, SynStep
<1>2. ASSUME NEW k \in Key, process_ack_packet(k) PROVE IInv'
  <2> DEFINE c == Search(k)
             r == [conn[c] EXCEPT !.pend = TRUE]
  <2>1. c \in Conn BY <1>0, <1>2 DEF process_ack_packet
  <2>2. conn[c] \in ConnState BY <1>0, <2>1
  <2>3. Fits(c, r)
    <3>1. {conn[c].meta.isn, conn[c].mig, conn[c].ready} \subseteq {NoIsn, conn[c].isn}
          /\ (conn[c].hs \in {"FINISHED", "ACTIVE"} => conn[c].mig # NoIsn)
      BY <1>m, <2>1
    <3> QED BY <2>2, <3>1, Zenon DEF ConnState, Fits
  <2>4. conn' = [conn EXCEPT ![c] = r] BY <1>2 DEF process_ack_packet
  <2>5. out' = NoPkt /\ UNCHANGED <<table, free, active, tmajor, metas, open, dead>>
    BY <1>2 DEF process_ack_packet
  <2> HIDE DEF r
  <2> QED BY <1>0, <2>1, <2>3, <2>4, <2>5, UpdateKeeps, NoPktType, Zenon
<1>3. ASSUME NEW k \in Key, process_fin_packet(k) \/ process_rst_packet(k) PROVE IInv'
  <2>1. /\ UNCHANGED <<conn, table, free, active, tmajor, metas, dead>>
        /\ open' = open \ {k}
        /\ \E t \in {"RST", "FWD", "NONE"} : out' = Pkt(t, k, 0)
    BY <1>3 DEF process_fin_packet, process_rst_packet
  <2>2. TypeOK' BY <2>1, PktType, NoPktType DEF IInv, TypeOK
  <2>3. TableSound' BY <2>1, <2>2, FieldsOnly
  <2>4. MigrationMatches' BY <2>1 DEF IInv, MigrationMatches
  <2> QED BY <2>2, <2>3, <2>4 DEF IInv
<1>4. ASSUME NEW c \in Conn, send_key_meta(c) PROVE IInv'
  <2> DEFINE h == [isn |-> conn[c].isn, kind |-> "key"]
             r == [conn[c] EXCEPT !.hs = "CERTIFICATE_VERIFY", !.meta = h]
  <2>1. c \in Used /\ conn[c].key \in Key BY <1>0, <1>4 DEF send_key_meta, Used
  <2>2. conn[c] \in ConnState BY <1>0
  <2>3. conn[c].isn \in Isn BY <2>1, <2>2 DEF IInv, MigrationMatches, ConnState, Used
  <2>4. Fits(c, r)
    <3>1. h \in MetaHdr \cup {NoMeta} /\ h.isn = conn[c].isn BY <2>3 DEF MetaHdr
    <3>2. {conn[c].meta.isn, conn[c].mig, conn[c].ready} \subseteq {NoIsn, conn[c].isn} BY <1>m
    <3> HIDE DEF h
    <3> QED BY <2>2, <3>1, <3>2, Zenon DEF ConnState, Fits
  <2>5. conn' = [conn EXCEPT ![c] = r] BY <1>4, Zenon DEF send_key_meta
  <2>6. metas' \in [Key -> SUBSET Isn]
    BY <1>0, <1>4, <2>1, <2>3 DEF send_key_meta
  <2>7. out' = Pkt("META", conn[c].key, 0) /\ UNCHANGED <<table, free, active, tmajor, open, dead>>
    BY <1>4 DEF send_key_meta
  <2> HIDE DEF r
  <2> QED BY <2>1, <2>4, <2>5, <2>6, <2>7, PktType, NoPktType, UpdateKeeps, Zenon
<1>5. ASSUME NEW c \in Conn, handle_application_data(c) PROVE IInv'
  <2> DEFINE r == [conn[c] EXCEPT !.hs = "ACTIVE", !.moved = TRUE]
  <2>1. conn[c] \in ConnState BY <1>0
  <2>2. Fits(c, r)
    <3>1. {conn[c].meta.isn, conn[c].mig, conn[c].ready} \subseteq {NoIsn, conn[c].isn}
          /\ conn[c].mig # NoIsn
      BY <1>m, <1>5 DEF handle_application_data
    <3> QED BY <2>1, <3>1, Zenon DEF ConnState, Fits
  <2>3. conn' = [conn EXCEPT ![c] = r] BY <1>5, Zenon DEF handle_application_data
  <2>4. out' = NoPkt /\ UNCHANGED <<table, free, active, tmajor, metas, open, dead>>
    BY <1>5 DEF handle_application_data
  <2> HIDE DEF r
  <2> QED BY <1>0, <2>2, <2>3, <2>4, NoPktType, UpdateKeeps, Zenon
<1>6. ASSUME NEW c \in Conn, abort_session(c) PROVE IInv'
  <2>1. c \in Used /\ RemoveSession(c) /\ UNCHANGED <<tmajor, metas, open, dead>>
        /\ out' = Pkt("RST", conn[c].key, 0) /\ conn[c].key \in Key
    BY <1>0, <1>6 DEF abort_session, Used
  <2>2. TypeOK' BY <2>1, RemoveKeeps, PktType, NoPktType DEF IInv, TypeOK
  <2> QED BY <2>1, <2>2, RemoveKeeps, RemoveMatches DEF IInv
<1>7. ASSUME NEW k \in Key, NEW i \in Isn, process_host_mig_fin(k, i) PROVE IInv'
  <2> DEFINE c == Search(k)
  <2>1. c \in Used /\ c \in Conn /\ i # NoIsn
        /\ UNCHANGED <<table, free, active, tmajor, metas, open, dead>>
    BY <1>0, <1>7, TableAssumption DEF process_host_mig_fin
  <2>2. conn[c] \in ConnState BY <1>0, <2>1
  <2>3. {conn[c].meta.isn, conn[c].mig, conn[c].ready} \subseteq {NoIsn, conn[c].isn}
        /\ (conn[c].hs \in {"FINISHED", "ACTIVE"} => conn[c].mig # NoIsn)
    BY <1>m, <2>1
  <2>4. CASE Answers(c, i) /\ conn' = [conn EXCEPT ![c].mig = i] /\ out' = NoPkt
    <3> DEFINE r == [conn[c] EXCEPT !.mig = i]
    <3>1. conn[c].meta.isn = i BY <2>4 DEF Answers
    <3>2. i = conn[c].isn BY <3>1, <2>1, <2>3
    <3>3. Fits(c, r) BY <2>1, <2>2, <2>3, <3>2 DEF ConnState, Fits
    <3>4. conn' = [conn EXCEPT ![c] = r] BY <2>4
    <3> HIDE DEF r
    <3> QED BY <1>0, <2>1, <2>4, <3>3, <3>4, NoPktType, UpdateKeeps, Zenon
  <2>5. CASE /\ conn' = [conn EXCEPT ![c].meta = [isn |-> conn[c].isn, kind |-> "rst"]]
             /\ out' = Pkt("RSTMETA", k, 0)
    <3> DEFINE h == [isn |-> conn[c].isn, kind |-> "rst"]
               r == [conn[c] EXCEPT !.meta = h]
    <3>1. conn[c].isn \in Isn BY <2>1, <2>2 DEF IInv, MigrationMatches, ConnState, Used
    <3>2. h \in MetaHdr \cup {NoMeta} /\ h.isn = conn[c].isn BY <3>1 DEF MetaHdr
    <3>3. conn' = [conn EXCEPT ![c] = r] BY <2>5
    <3>4. Fits(c, r)
      <4> HIDE DEF h
      <4> QED BY <2>2, <2>3, <3>2 DEF ConnState, Fits
    <3> HIDE DEF r
    <3> QED BY <1>0, <2>1, <2>5, <3>3, <3>4, PktType, NoPktType, UpdateKeeps, Zenon
  <2> QED BY <1>7, <2>4, <2>5 DEF process_host_mig_fin
<1>8. ASSUME NEW k \in Key, NEW i \in Isn, process_host_close(k, i) PROVE IInv'
  <2> DEFINE c == Search(k)
             r == [conn[c] EXCEPT !.ready = i]
  <2>1. /\ c \in Conn /\ i # NoIsn /\ conn[c].meta.isn = i
        /\ UNCHANGED <<table, free, active, tmajor, metas, open, dead>> /\ out' = NoPkt
    BY <1>0, <1>8, TableAssumption DEF process_host_close, Answers
  <2>2. conn[c] \in ConnState BY <1>0, <2>1
  <2>3. {conn[c].meta.isn, conn[c].mig, conn[c].ready} \subseteq {NoIsn, conn[c].isn}
        /\ (conn[c].hs \in {"FINISHED", "ACTIVE"} => conn[c].mig # NoIsn)
    BY <1>m, <2>1
  <2>4. i = conn[c].isn BY <2>1, <2>3
  <2>5. Fits(c, r) BY <2>2, <2>3, <2>4 DEF ConnState, Fits
  <2>6. conn' = [conn EXCEPT ![c] = r] BY <1>8 DEF process_host_close
  <2> HIDE DEF r
  <2> QED BY <1>0, <2>1, <2>5, <2>6, NoPktType, UpdateKeeps, Zenon
<1>9. ASSUME NEW c \in Conn, LoopVisit(c) PROVE IInv'
  <2>1. c \in Used /\ UNCHANGED <<tmajor, metas, open, dead>> /\ conn[c].key \in Key
    BY <1>0, <1>9 DEF LoopVisit, Used
  <2>2. CASE RemoveSession(c) /\ out' = NoPkt
    <3>1. TypeOK' BY <2>1, <2>2, RemoveKeeps, NoPktType DEF IInv, TypeOK
    <3> QED BY <2>1, <2>2, <3>1, RemoveKeeps, RemoveMatches DEF IInv
  <2>3. CASE ~remove_hws(c)
    <3> DEFINE on == conn[c].applied \/ apply_hws(c)
               h == IF conn[c].hs = "CERTIFICATE_VERIFY" /\ conn[c].mig # NoIsn
                    THEN "FINISHED" ELSE conn[c].hs
               r == [conn[c] EXCEPT !.applied = on, !.pend = @ /\ ~on, !.hs = h]
    <3>1. conn' = [conn EXCEPT ![c] = r] /\ UNCHANGED <<table, free, active>>
      BY <1>9, <2>3, Zenon DEF LoopVisit
    <3>2. out' = Pkt("FWD", conn[c].key, 0) \/ out' = NoPkt
      BY <1>9, <2>3 DEF LoopVisit
    <3>3. conn[c] \in ConnState BY <1>0
    <3>4. on \in BOOLEAN /\ (conn[c].pend /\ ~on) \in BOOLEAN
      BY <3>3 DEF apply_hws, ConnState
    <3>5. /\ h \in {"HANDSHAKE", "CERTIFICATE_VERIFY", "FINISHED", "ACTIVE"}
          /\ h \in {"FINISHED", "ACTIVE"} => conn[c].mig # NoIsn
          /\ {conn[c].meta.isn, conn[c].mig, conn[c].ready} \subseteq {NoIsn, conn[c].isn}
      BY <1>m, <3>3 DEF ConnState
    <3>6. Fits(c, r)
      <4> DEFINE p == conn[c].pend /\ ~on
      <4>1. p \in BOOLEAN BY <3>4
      <4>2. r = [conn[c] EXCEPT !.applied = on, !.pend = p, !.hs = h] OBVIOUS
      <4> HIDE DEF on, h, p, r
      <4> QED BY <3>3, <3>4, <3>5, <4>1, <4>2, ZenonT(40) DEF ConnState, Fits
    <3> HIDE DEF r
    <3>7. out' \in [type : {"none", "SYNACK", "RST", "FWD", "NONE", "META", "RSTMETA"},
                    key : Key \cup {NoKey}, cookie : Era]
      BY <2>1, <3>2, PktType, NoPktType
    <3>8. metas' \in [Key -> SUBSET Isn] BY <1>0, <2>1
    <3> QED BY <2>1, <3>1, <3>6, <3>7, <3>8, UpdateKeeps, Zenon
  <2> QED BY <1>9, <2>2, <2>3 DEF LoopVisit
<1>10. ASSUME update_cookie PROVE IInv'
  <2>1. (tmajor + 1) % Eras \in Era BY TableAssumption DEF IInv, TypeOK, Era
  <2>2. TypeOK' BY <1>10, <2>1, NoPktType DEF update_cookie, IInv, TypeOK
  <2>3. TableSound' BY <1>10, <2>2, FieldsOnly DEF update_cookie
  <2>4. MigrationMatches' BY <1>10 DEF update_cookie, IInv, MigrationMatches
  <2> QED BY <2>2, <2>3, <2>4 DEF IInv
<1>11. ASSUME UNCHANGED vars PROVE IInv'
  <2>1. TypeOK' BY <1>11 DEF vars, IInv, TypeOK
  <2>2. TableSound' BY <1>11, <2>1, FieldsOnly DEF vars
  <2>3. MigrationMatches' BY <1>11 DEF vars, IInv, MigrationMatches
  <2> QED BY <2>1, <2>2, <2>3 DEF IInv
<1> QED
  BY <1>1, <1>2, <1>3, <1>4, <1>5, <1>6, <1>7, <1>8, <1>9, <1>10, <1>11 DEF Next

\* In every reachable state the invariant holds.
THEOREM Invariance == Spec => []IInv
BY InitInvariant, NextInvariant, PTL DEF Spec

\* The state of the session table has its type.
THEOREM TypeCorrect == Spec => []TypeOK
<1>1. IInv => TypeOK BY DEF IInv
<1> QED BY <1>1, Invariance, PTL

\* However SYNs, aborts, closes and reuse follow each other, every connection
\* is in the free queue once or in the bin of its own four-tuple, alone.
THEOREM TableAlwaysSound == Spec => []TableSound
<1>1. IInv => TableSound BY DEF IInv
<1> QED BY <1>1, Invariance, PTL

\* No MIG_FIN or CLOSE for another session is ever taken for this one's.
THEOREM AnswersMatch == Spec => []MigrationMatches
<1>1. IInv => MigrationMatches BY DEF IInv
<1> QED BY <1>1, Invariance, PTL

\* Whatever is late, lost or repeated, the SmartNIC drops a session that the
\* host serves only after the host's close of it or for a SYN of the client.
THEOREM OnloadedSessionsStay == Spec => OnloadedUntilClosed
<1> DEFINE Keeps == \A c \in Conn :
             conn[c].hs = "ACTIVE" /\ conn'[c].hs # "ACTIVE" =>
               \/ conn[c].ready = conn[c].isn
               \/ out'.type = "SYNACK" /\ out'.key = conn[c].key
<1>1. ASSUME IInv, [Next]_vars PROVE [Keeps]_vars
  <2> SUFFICES ASSUME Next, NEW c \in Conn, conn[c].hs = "ACTIVE", conn'[c].hs # "ACTIVE"
               PROVE  \/ conn[c].ready = conn[c].isn
                      \/ out'.type = "SYNACK" /\ out'.key = conn[c].key
    BY <1>1
  <2>0. /\ conn \in [Conn -> ConnState] /\ conn[c] \in ConnState
        /\ \A k \in Key : Found(k) => Search(k) \in Conn /\ conn[Search(k)].key = k
    BY <1>1, SearchFacts DEF IInv, TypeOK, Used
  <2>1. ASSUME NEW k \in Key, NEW i \in Isn, process_syn_packet(k, i)
        PROVE  out'.type = "SYNACK" /\ out'.key = conn[c].key
    <3>1. CASE SynNone(k, i)
      <4>1. CASE free # <<>> /\ InsertConnection(k, i)
        <5>1. Head(free) \in Conn /\ conn[Head(free)] \in ConnState
          BY <1>1, <4>1, PopFacts, TableSoundAlt DEF IInv, TypeOK
        <5>2. conn' = [conn EXCEPT ![Head(free)] = Opened(conn[Head(free)], k, i, tmajor)]
          BY <4>1 DEF InsertConnection
        <5>3. Opened(conn[Head(free)], k, i, tmajor).hs = conn[Head(free)].hs
          BY <5>1 DEF Opened, ConnState
        <5>4. conn'[c].hs = conn[c].hs BY <2>0, <5>1, <5>2, <5>3
        <5> QED BY <5>4
      <4> QED BY <3>1, <4>1 DEF SynNone
    <3>2. CASE SynRetrans(k, i) BY <3>2 DEF SynRetrans
    <3>3. CASE SynNew(k, i)
      <4>1. Search(k) \in Conn /\ conn[Search(k)].key = k BY <2>0, <3>3 DEF SynNew
      <4>2. out' = Pkt("SYNACK", k, conn[Search(k)].cookie) BY <3>3 DEF SynNew
      <4>3. CASE c = Search(k) BY <4>1, <4>2, <4>3 DEF Pkt
      <4>4. CASE c # Search(k)
        <5> DEFINE d == Head(Append(free, Search(k)))
        <5>1. conn' = [[conn EXCEPT ![Search(k)] = Clear(@)]
                          EXCEPT ![d] = Opened(@, k, i, conn[Search(k)].cookie)]
          BY <3>3 DEF SynNew
        <5>2. c = d => conn'[c] = Opened(conn[c], k, i, conn[Search(k)].cookie)
          BY <2>0, <4>4, <5>1
        <5>3. Opened(conn[c], k, i, conn[Search(k)].cookie).hs = conn[c].hs
          BY <2>0 DEF Opened, ConnState
        <5>4. c # d => conn'[c] = conn[c] BY <2>0, <4>4, <5>1
        <5> QED BY <5>2, <5>3, <5>4
      <4> QED BY <4>3, <4>4
    <3> QED BY <2>1, <3>1, <3>2, <3>3 DEF process_syn_packet
  <2>2. ASSUME NEW d \in Conn, LoopVisit(d) PROVE conn[c].ready = conn[c].isn
    <3>1. CASE remove_hws(d) /\ RemoveSession(d)
      <4>1. c = d BY <2>0, <3>1 DEF RemoveSession
      <4>2. conn[c].ready # NoIsn BY <3>1, <4>1 DEF remove_hws
      <4> QED BY <1>1, <4>2 DEF IInv, MigrationMatches
    <3>2. CASE ~remove_hws(d)
      <4>1. conn'[c].hs = conn[c].hs
            \/ conn[c].hs = "CERTIFICATE_VERIFY"
        BY <2>0, <2>2, <3>2 DEF LoopVisit, ConnState
      <4> QED BY <4>1
    <3> QED BY <2>2, <3>1, <3>2 DEF LoopVisit
  <2>3. ASSUME NEW d \in Conn, send_key_meta(d) PROVE FALSE
    BY <2>0, <2>3 DEF send_key_meta, ConnState
  <2>4. ASSUME NEW d \in Conn, handle_application_data(d) PROVE FALSE
    BY <2>0, <2>4 DEF handle_application_data, ConnState
  <2>5. ASSUME NEW d \in Conn, abort_session(d) PROVE FALSE
    BY <2>0, <2>5 DEF abort_session, RemoveSession
  <2>6. ASSUME NEW k \in Key, process_ack_packet(k) PROVE FALSE
    BY <2>0, <2>6 DEF process_ack_packet, ConnState
  <2>7. ASSUME NEW k \in Key, process_fin_packet(k) \/ process_rst_packet(k) PROVE FALSE
    BY <2>7 DEF process_fin_packet, process_rst_packet
  <2>8. ASSUME NEW k \in Key, NEW i \in Isn, process_host_mig_fin(k, i) PROVE FALSE
    BY <2>0, <2>8 DEF process_host_mig_fin, ConnState
  <2>9. ASSUME NEW k \in Key, NEW i \in Isn, process_host_close(k, i) PROVE FALSE
    BY <2>0, <2>9 DEF process_host_close, ConnState
  <2>10. ASSUME update_cookie PROVE FALSE
    BY <2>10 DEF update_cookie
  <2> QED BY <2>1, <2>2, <2>3, <2>4, <2>5, <2>6, <2>7, <2>8, <2>9, <2>10 DEF Next
<1> QED BY <1>1, Invariance, PTL DEF Spec, OnloadedUntilClosed

\* With the free queue empty, every connection holds a four-tuple of its own,
\* and none of them is the one that ht_search does not find.
LEMMA EmptyQueueHoldsAll ==
  ASSUME IInv, IsFiniteSet(Key), free = <<>>, NEW k \in Key, ~Found(k)
  PROVE  Cardinality(Conn) < Cardinality(Key)
<1> DEFINE held == [c \in Conn |-> conn[c].key]
<1>1. \A c \in Conn : c \in Used
  <2>1. \A c \in Conn : ~Contains(free, c) BY EmptySeq DEF Contains
  <2> QED BY <2>1, TableSoundAlt DEF IInv, Used
<1>2. \A c \in Conn : conn[c].key \in Key \ {k}
  BY <1>1, SearchFacts, TableSoundAlt DEF IInv
<1>3. held \in Injection(Conn, Key \ {k})
  <2>1. held \in [Conn -> Key \ {k}] BY <1>2
  <2>2. \A c, d \in Conn : held[c] = held[d] => c = d BY <1>1, TableSoundAlt DEF IInv
  <2> QED BY <2>1, <2>2 DEF Injection, IsInjective
<1> HIDE DEF held
<1>4. /\ IsFiniteSet(Key \ {k}) /\ Cardinality(Key \ {k}) = Cardinality(Key) - 1
      /\ Cardinality(Key) \in Nat /\ Cardinality(Conn) \in Nat
  BY FS_RemoveElement, FS_CardinalityType, TableAssumption
<1>5. Cardinality(Conn) <= Cardinality(Key \ {k}) BY <1>3, <1>4, FS_Injection
<1> QED BY <1>4, <1>5

\* Only a SYN ends the process, and only with the free queue empty.
LEMMA NotExhaustedStep ==
  ASSUME IInv, NotExhausted, [Next]_vars, IsFiniteSet(Key)
  PROVE  NotExhausted'
<1> SUFFICES ASSUME Cardinality(Key) <= Cardinality(Conn), ~dead, dead' # dead PROVE FALSE
  BY DEF NotExhausted, IInv, TypeOK
<1>1. PICK k \in Key, i \in Isn : process_syn_packet(k, i)
  BY Zenon DEF Next, vars, process_ack_packet, process_fin_packet, process_rst_packet, send_key_meta,
         handle_application_data, abort_session, process_host_mig_fin, process_host_close,
         LoopVisit, update_cookie
<1>2. SynNone(k, i) /\ free = <<>>
  BY <1>1 DEF process_syn_packet, SynNone, SynRetrans, SynNew
<1>3. Cardinality(Conn) < Cardinality(Key) BY <1>2, EmptyQueueHoldsAll DEF SynNone
<1>4. Cardinality(Key) \in Nat /\ Cardinality(Conn) \in Nat
  BY FS_CardinalityType, TableAssumption
<1> QED BY <1>3, <1>4

\* pop_free_connection never ends the process while there are no more
\* four-tuples than connections: whatever SYNs, aborts and closes do, no
\* session is lost from the queue and no four-tuple holds two.
THEOREM NeverExhausted == ASSUME IsFiniteSet(Key) PROVE Spec => []NotExhausted
<1>1. Init => NotExhausted BY DEF Init, NotExhausted
<1>2. IInv /\ NotExhausted /\ [Next]_vars => NotExhausted' BY NotExhaustedStep
<1> QED BY <1>1, <1>2, Invariance, PTL DEF Spec

=============================================================================
