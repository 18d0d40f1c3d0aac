------------------------- MODULE RelayMailboxProofs -------------------------
(***************************************************************************)
(* Proofs about RelayMailbox for every set of envelopes, every quota, every *)
(* lease time and every lag.  The inductive invariant IInv joins the four   *)
(* parts that need each other: an acknowledgement deletes only processed    *)
(* rows (AckOnlyProcessed) because a response carries every row under its   *)
(* lease (HandoutsConsistent), and the table forgets exactly what it should *)
(* because ids name rows (RowsDistinct).                                    *)
(***************************************************************************)
EXTENDS RelayMailbox, InductionTheorems, TLAPS

IInv ==
    /\ TypeOK
    /\ PairingNeverLeased
    /\ RowsDistinct
    /\ HandoutsConsistent
    /\ AckOnlyProcessed

-----------------------------------------------------------------------------
(* Facts about the operators.                                               *)

(* Making room for a store only ever removes rows.                          *)
LEMMA MadeSubset ==
    ASSUME NEW R, NEW e, NEW K \in Made(R, e)
    PROVE  K \subseteq R
<1>1. AfterPairing(R, e) \subseteq R
  BY DEF AfterPairing
<1>2. \A Q \in AfterMailboxQuota(AfterPairing(R, e), e) : Q \subseteq R
  BY <1>1 DEF AfterMailboxQuota
<1>3. QED
  BY <1>2 DEF Made

(* Changing the lease of a row, or its age, leaves a row of the same        *)
(* envelope under the same id.                                              *)
LEMMA LeaseChange ==
    ASSUME NEW r \in Row, NEW l \in LeaseIds \cup {NoLease}, NEW t \in Int
    PROVE  /\ WithLease(r, l, t) \in Row
           /\ WithLease(r, l, t).id = r.id
           /\ WithLease(r, l, t).env = r.env
           /\ WithLease(r, l, t).lease = l
<1> DEFINE s == [r EXCEPT !.lease = l]
<1>1. s \in Row
  BY DEF Row
<1>2. [s EXCEPT !.left = t] \in Row
  <2> HIDE DEF s
  <2> QED BY <1>1 DEF Row
<1>3. WithLease(r, l, t) = [s EXCEPT !.left = t]
  BY DEF WithLease, Row
<1>4. /\ WithLease(r, l, t).id = r.id
      /\ WithLease(r, l, t).env = r.env
      /\ WithLease(r, l, t).lease = l
  BY DEF WithLease, Row
<1>5. QED
  BY <1>2, <1>3, <1>4

LEMMA ReleaseRow ==
    ASSUME NEW r \in Row
    PROVE  /\ Release(r) \in Row
           /\ Release(r).id = r.id
           /\ Release(r).env = r.env
           /\ Release(r).lease = NoLease
  BY LeaseChange, 0 \in Int DEF Release

LEMMA OlderRow ==
    ASSUME NEW r \in Row
    PROVE  /\ Older(r) \in Row
           /\ Older(r).id = r.id
           /\ Older(r).env = r.env
           /\ Older(r).lease = r.lease
<1> DEFINE a == IF r.age < MaxAge THEN r.age + 1 ELSE r.age
           t == IF r.lease # NoLease /\ r.left > -MaxLag
                THEN r.left - 1 ELSE r.left
           s == [r EXCEPT !.age = a]
<1>1. a \in 0 .. MaxAge /\ t \in Int
  <2>1. r.age \in 0 .. MaxAge /\ r.left \in Int
    BY DEF Row
  <2>2. MaxAge \in Nat
    BY ConstantsAssumption
  <2>3. QED
    BY <2>1, <2>2
<1>2. s \in Row
  <2> HIDE DEF a
  <2> QED BY <1>1 DEF Row
<1>3. [s EXCEPT !.left = t] \in Row
  <2> HIDE DEF s, t
  <2> QED BY <1>1, <1>2 DEF Row
<1>4. Older(r) = [s EXCEPT !.left = t]
  BY DEF Older, Row
<1>5. /\ Older(r).id = r.id
      /\ Older(r).env = r.env
      /\ Older(r).lease = r.lease
  BY DEF Older, Row
<1>6. QED
  BY <1>3, <1>4, <1>5

(* What a fetch sees: every row of its table is a live row of queue_entries *)
(* with at most its lease released.                                         *)
LEMMA TableRow ==
    ASSUME TypeOK, NEW d \in Lags, NEW q \in Table(d)
    PROVE  /\ q \in Row
           /\ \E r \in rows : /\ q.id = r.id
                              /\ q.env = r.env
                              /\ q.lease = r.lease \/ q.lease = NoLease
                              /\ q = r \/ q = Release(r)
                              /\ r \in Alive(rows, d)
                              /\ q = IF LeaseOver(r, d) THEN Release(r) ELSE r
<1>1. PICK r \in Alive(rows, d) : q = IF LeaseOver(r, d) THEN Release(r) ELSE r
  BY DEF Table, Released
<1>2. r \in rows /\ r \in Row
  BY DEF Alive, TypeOK
<1>3. QED
  BY <1>1, <1>2, ReleaseRow

(* Releasing leases keeps rows apart.                                       *)
LEMMA TableDistinct ==
    ASSUME TypeOK, RowsDistinct, NEW d \in Lags,
           NEW q \in Table(d), NEW s \in Table(d), q # s
    PROVE  /\ q.id # s.id
           /\ \/ Mailbox(q) # Mailbox(s)
              \/ KeyOf[q.env] = NoKey
              \/ KeyOf[q.env] # KeyOf[s.env]
<1>1. PICK r \in rows : /\ q.id = r.id /\ q.env = r.env
                        /\ q = IF LeaseOver(r, d) THEN Release(r) ELSE r
  BY TableRow
<1>2. PICK t \in rows : /\ s.id = t.id /\ s.env = t.env
                        /\ s = IF LeaseOver(t, d) THEN Release(t) ELSE t
  BY TableRow
<1>3. r # t
  BY <1>1, <1>2
<1>4. QED
  BY <1>1, <1>2, <1>3 DEF RowsDistinct, Mailbox

LEMMA IdsBelow ==
    ASSUME TypeOK
    PROVE  Ids(rows) \subseteq 1 .. (nextId - 1)
  BY DEF TypeOK, Ids

LEMMA TableIds ==
    ASSUME TypeOK, NEW d \in Lags
    PROVE  Ids(Table(d)) \subseteq Ids(rows)
  BY TableRow DEF Ids

(* A fetch selects unleased rows of its table, of the mailbox asked for.    *)
LEMMA SelectedRows ==
    ASSUME NEW m, NEW k, NEW d
    PROVE  /\ Selected(m, k, d) \subseteq Table(d)
           /\ \A r \in Selected(m, k, d) : r.lease = NoLease /\ Mailbox(r) = m
  BY DEF Selected, Oldest, Unleased

-----------------------------------------------------------------------------
(* A table that only lost rows or leases: what every operation but a store  *)
(* and a leased fetch makes of queue_entries.                               *)
Comes(q, r) ==
    q.id = r.id /\ q.env = r.env /\ (q.lease = r.lease \/ q.lease = NoLease)

Derived(R) ==
    /\ R \subseteq Row
    /\ \A q \in R : \E r \in rows : Comes(q, r)
    /\ \A q, s \in R : q # s => q.id # s.id

LEMMA SubsetDerived ==
    ASSUME TypeOK, RowsDistinct, NEW R \in SUBSET rows
    PROVE  Derived(R)
  BY DEF Derived, Comes, TypeOK, RowsDistinct

LEMMA TableDerived ==
    ASSUME TypeOK, RowsDistinct, NEW d \in Lags, NEW R \in SUBSET Table(d)
    PROVE  Derived(R)
<1>1. R \subseteq Row /\ \A q \in R : \E r \in rows : Comes(q, r)
  BY TableRow DEF Comes
<1>2. \A q, s \in R : q # s => q.id # s.id
  BY TableDistinct
<1>3. QED
  BY <1>1, <1>2 DEF Derived

LEMMA RestartDerived ==
    ASSUME TypeOK, RowsDistinct
    PROVE  Derived({Release(r) : r \in rows})
<1>1. \A r \in rows : Release(r) \in Row /\ Comes(Release(r), r)
  BY ReleaseRow DEF Comes, TypeOK
<1>2. QED
  BY <1>1 DEF Derived, Comes, RowsDistinct

LEMMA TickDerived ==
    ASSUME TypeOK, RowsDistinct
    PROVE  Derived({Older(r) : r \in rows})
<1>1. \A r \in rows : Older(r) \in Row /\ Comes(Older(r), r)
  BY OlderRow DEF Comes, TypeOK
<1>2. QED
  BY <1>1 DEF Derived, Comes, RowsDistinct

(* Such a table keeps what the invariant says about rows.                   *)
LEMMA DerivedRows ==
    ASSUME TypeOK, PairingNeverLeased, RowsDistinct, NEW R, Derived(R)
    PROVE  /\ R \subseteq Row
           /\ \A r \in R : r.id \in 1 .. (nextId - 1)
           /\ \A r \in R : IsPairing(r) => r.lease = NoLease
           /\ \A q, r \in R :
                 q # r => /\ q.id # r.id
                          /\ \/ Mailbox(q) # Mailbox(r)
                             \/ KeyOf[q.env] = NoKey
                             \/ KeyOf[q.env] # KeyOf[r.env]
<1>1. R \subseteq Row /\ \A r \in R : r.id \in 1 .. (nextId - 1)
  BY DEF Derived, Comes, TypeOK
<1>2. \A r \in R : IsPairing(r) => r.lease = NoLease
  BY DEF Derived, Comes, PairingNeverLeased, IsPairing
<1>3. ASSUME NEW q \in R, NEW r \in R, q # r
      PROVE  /\ q.id # r.id
             /\ \/ Mailbox(q) # Mailbox(r)
                \/ KeyOf[q.env] = NoKey
                \/ KeyOf[q.env] # KeyOf[r.env]
  <2>1. q.id # r.id
    BY <1>3 DEF Derived
  <2>2. PICK x \in rows : Comes(q, x)
    BY DEF Derived
  <2>3. PICK y \in rows : Comes(r, y)
    BY DEF Derived
  <2>4. x # y
    BY <2>1, <2>2, <2>3 DEF Comes
  <2>5. QED
    BY <2>1, <2>2, <2>3, <2>4 DEF Comes, RowsDistinct, Mailbox
<1>4. QED
  BY <1>1, <1>2, <1>3

(* Any step that only removes: rows or leases, answers, acknowledgements.   *)
LEMMA RemovingStep ==
    ASSUME IInv, Derived(rows'), nextId' = nextId,
           wire' \subseteq wire, acks' \subseteq acks,
           delivered' = delivered,
           dropped' \subseteq 1 .. (nextId - 1)
    PROVE  IInv'
<1> USE DEF IInv
<1>1. TypeOK'
  BY DerivedRows DEF TypeOK
<1>2. PairingNeverLeased'
  BY DerivedRows DEF PairingNeverLeased, IsPairing
<1>3. RowsDistinct'
  BY DerivedRows DEF RowsDistinct, Mailbox
<1>4. HandoutsConsistent'
  <2>1. ASSUME NEW w \in wire', NEW q \in rows'
        PROVE  /\ w.lease # NoLease /\ q.lease = w.lease => q.id \in w.ids
               /\ q.id \notin w.taken
    <3>1. PICK r \in rows : Comes(q, r)
      BY DEF Derived
    <3>2. QED
      BY <3>1 DEF Comes, HandoutsConsistent
  <2>2. \A v, w \in wire' : v # w => v.taken \cap w.taken = {}
    BY DEF HandoutsConsistent
  <2>3. QED
    BY <2>1, <2>2 DEF HandoutsConsistent
<1>5. AckOnlyProcessed'
  <2>1. SUFFICES ASSUME NEW a \in acks', NEW q \in rows',
                        Mailbox(q) = a.mailbox, q.lease = a.lease
                 PROVE  q.id \in delivered
    BY DEF AckOnlyProcessed, AckMatches, Ids, Mailbox
  <2>2. PICK r \in rows : Comes(q, r)
    BY DEF Derived
  <2>3. a \in acks /\ a.lease # NoLease
    BY ConstantsAssumption DEF TypeOK, AckRequest
  <2>4. Mailbox(r) = a.mailbox /\ r.lease = a.lease
    BY <2>1, <2>2, <2>3 DEF Comes, Mailbox
  <2>5. QED
    BY <2>2, <2>3, <2>4 DEF Comes, AckOnlyProcessed, AckMatches, Ids
<1>6. QED
  BY <1>1, <1>2, <1>3, <1>4, <1>5

(* A store that inserts: its row is unleased and has an id and a key of its *)
(* own.                                                                     *)
LEMMA InsertStep ==
    ASSUME IInv, NEW e \in Envelopes, NEW d \in Lags, StoreInsert(e, d)
    PROVE  IInv'
<1> USE DEF IInv
<1> DEFINE A == Alive(rows, d)
           n == NewRow(e, d)
<1>1. PICK K \in Made(A, e) :
         /\ rows' = K \cup {n}
         /\ dropped' = dropped \cup (Ids(rows) \ Ids(K))
  BY DEF StoreInsert
<1>2. K \subseteq A /\ A \subseteq rows
  BY MadeSubset DEF Alive
<1>3. /\ ~AlreadyPresent(A, e)
      /\ nextId' = nextId + 1 /\ nextId <= MaxStores
      /\ UNCHANGED <<wire, acks, delivered>>
  BY DEF StoreInsert
<1>4. /\ n \in Row /\ n.id = nextId /\ n.env = e /\ n.lease = NoLease
  BY ConstantsAssumption DEF NewRow, Row, TypeOK, Lags
<1>5. nextId \in Nat /\ MaxStores \in Nat
  BY ConstantsAssumption DEF TypeOK
<1>6. TypeOK'
  <2>1. rows' \subseteq Row /\ \A r \in rows' : r.id \in 1 .. (nextId' - 1)
    BY <1>1, <1>2, <1>3, <1>4, <1>5 DEF TypeOK
  <2>2. \A w \in wire' : w.ids \subseteq 1 .. (nextId' - 1) /\ w.taken \subseteq w.ids
    BY <1>3, <1>5 DEF TypeOK
  <2>3. delivered' \subseteq 1 .. (nextId' - 1) /\ dropped' \subseteq 1 .. (nextId' - 1)
    <3>1. dropped' \subseteq 1 .. (nextId - 1) /\ delivered' \subseteq 1 .. (nextId - 1)
      BY <1>1, <1>3, IdsBelow DEF TypeOK
    <3>2. QED
      BY <3>1, <1>3, <1>5
  <2>4. nextId' \in 1 .. MaxStores + 1
    BY <1>3, <1>5 DEF TypeOK
  <2>5. QED
    BY <2>1, <2>2, <2>3, <2>4, <1>3 DEF TypeOK
<1>7. PairingNeverLeased'
  BY <1>1, <1>2, <1>4 DEF PairingNeverLeased, IsPairing
<1>8. RowsDistinct'
  <2>1. \A r \in K : r.id # nextId
    BY <1>2, <1>5 DEF TypeOK
  <2>2. \A r \in K : \/ Mailbox(r) # Mailbox(n)
                     \/ KeyOf[e] = NoKey
                     \/ KeyOf[r.env] # KeyOf[e]
    BY <1>2, <1>3, <1>4 DEF AlreadyPresent, Mailbox
  <2>3. \A q, r \in rows' : q # r =>
           (q \in rows /\ r \in rows) \/ (q \in K /\ r = n) \/ (q = n /\ r \in K)
    BY <1>1, <1>2
  <2> HIDE DEF n, A
  <2>4. QED
    BY <2>1, <2>2, <2>3, <1>4 DEF RowsDistinct, Mailbox
<1>9. HandoutsConsistent'
  <2>1. \A w \in wire : n.id \notin w.taken
    BY <1>4, <1>5 DEF TypeOK
  <2>2. QED
    BY <1>1, <1>2, <1>3, <1>4, <2>1 DEF HandoutsConsistent
<1>10. AckOnlyProcessed'
  <2>1. \A a \in acks : a.lease # NoLease
    BY ConstantsAssumption DEF TypeOK, AckRequest
  <2>2. QED
    BY <1>1, <1>2, <1>3, <1>4, <2>1 DEF AckOnlyProcessed, AckMatches, Ids, Mailbox
<1>11. QED
  BY <1>6, <1>7, <1>8, <1>9, <1>10

(* A legacy fetch: what it takes leaves the table for the answer.           *)
LEMMA LegacyStep ==
    ASSUME IInv, NEW m \in Mailboxes, NEW k \in Limits, NEW d \in Lags,
           FetchLegacy(m, k, d)
    PROVE  IInv'
<1> USE DEF IInv
<1> DEFINE G == Selected(m, k, d)
           T == Taken(G)
           w0 == [mailbox |-> m, lease |-> NoLease, ids |-> Ids(G), taken |-> Ids(T)]
<1>1. /\ rows' = Table(d) \ T
      /\ dropped' = dropped \cup (Ids(rows) \ Ids(Table(d)))
      /\ UNCHANGED <<nextId, acks, delivered>>
      /\ wire' \subseteq wire \cup {w0}
  BY DEF FetchLegacy, Respond
<1>2. T \subseteq G /\ G \subseteq Table(d)
  BY SelectedRows DEF Taken
<1>3. Derived(rows')
  BY <1>1, TableDerived
<1>4. Ids(T) \subseteq Ids(G) /\ Ids(G) \subseteq Ids(rows)
  <2>1. Ids(G) \subseteq Ids(Table(d)) /\ Ids(T) \subseteq Ids(G)
    BY <1>2 DEF Ids
  <2>2. QED
    BY <2>1, TableIds
<1>5. Ids(G) \subseteq 1 .. (nextId - 1) /\ Ids(G) \subseteq Nat /\ Ids(T) \subseteq Nat
  BY <1>4, IdsBelow DEF TypeOK
<1>6. w0 \in Response
  BY <1>5 DEF Response
<1>7. TypeOK'
  <2>1. dropped' \subseteq 1 .. (nextId - 1)
    BY <1>1, IdsBelow DEF TypeOK
  <2>2. rows' \subseteq Row /\ \A r \in rows' : r.id \in 1 .. (nextId - 1)
    BY <1>3, DerivedRows
  <2>3. wire' \subseteq Response
    BY <1>1, <1>6 DEF TypeOK
  <2>4. \A w \in wire' : w.ids \subseteq 1 .. (nextId - 1) /\ w.taken \subseteq w.ids
    BY <1>1, <1>4, <1>5 DEF TypeOK
  <2>5. QED
    BY <1>1, <2>1, <2>2, <2>3, <2>4 DEF TypeOK
<1>8. PairingNeverLeased'
  BY <1>3, DerivedRows DEF PairingNeverLeased, IsPairing
<1>9. RowsDistinct'
  BY <1>3, DerivedRows DEF RowsDistinct, Mailbox
<1>10. \A r \in rows' : r.id \notin Ids(T)
  <2>1. ASSUME NEW r \in Table(d) \ T, NEW t \in T
        PROVE  r.id # t.id
    BY <1>2, <2>1, TableDistinct
  <2>2. QED
    BY <1>1, <2>1 DEF Ids
<1>11. \A w \in wire : w.taken \cap Ids(T) = {}
  BY <1>4 DEF HandoutsConsistent, Ids
<1>12. HandoutsConsistent'
  <2>1. \A w \in wire, r \in rows' :
           /\ w.lease # NoLease /\ r.lease = w.lease => r.id \in w.ids
           /\ r.id \notin w.taken
    <3>1. \A r \in rows' : \E q \in rows : Comes(r, q)
      BY <1>3 DEF Derived
    <3>2. QED
      BY <3>1 DEF Comes, HandoutsConsistent
  <2>2. w0.lease = NoLease /\ w0.taken = Ids(T)
    OBVIOUS
  <2> HIDE DEF w0, T, G
  <2>3. QED
    BY <1>1, <1>10, <1>11, <2>1, <2>2 DEF HandoutsConsistent
<1>13. AckOnlyProcessed'
  <2>1. \A a \in acks : a.lease # NoLease
    BY ConstantsAssumption DEF TypeOK, AckRequest
  <2>2. \A r \in rows' : \E q \in rows : Comes(r, q)
    BY <1>3 DEF Derived
  <2>3. QED
    BY <1>1, <2>1, <2>2 DEF AckOnlyProcessed, AckMatches, Ids, Mailbox, Comes
<1>14. QED
  BY <1>7, <1>8, <1>9, <1>12, <1>13

(* A leased fetch: exactly the rows it takes come under the new lease, and  *)
(* all of them are in its answer.                                           *)
LEMMA LeasedStep ==
    ASSUME IInv, NEW m \in Mailboxes, NEW k \in Limits, NEW t \in LeaseTimes,
           NEW d \in Lags, NEW l \in LeaseIds, FetchLeased(m, k, t, d, l)
    PROVE  IInv'
<1> USE DEF IInv
<1> DEFINE G == Selected(m, k, d)
           T == Taken(G)
           lease == IF T = {} THEN NoLease ELSE l
           w0 == [mailbox |-> m, lease |-> lease, ids |-> Ids(G), taken |-> Ids({})]
           L(r) == WithLease(r, l, t - d)
<1>1. /\ rows' = (Table(d) \ T) \cup {L(r) : r \in T}
      /\ dropped' = dropped \cup (Ids(rows) \ Ids(Table(d)))
      /\ UNCHANGED <<nextId, acks, delivered>>
      /\ wire' \subseteq wire \cup {w0}
      /\ l \notin LeasesInUse(Table(d))
  BY DEF FetchLeased, Respond
<1>2. T \subseteq G /\ G \subseteq Table(d) /\ \A r \in T : ~IsPairing(r)
  BY SelectedRows DEF Taken
<1>3. t - d \in Int /\ l # NoLease
  BY ConstantsAssumption DEF Lags
<1>4. \A r \in T : /\ L(r) \in Row /\ L(r).id = r.id
                    /\ L(r).env = r.env /\ L(r).lease = l
  BY <1>2, <1>3, TableRow, LeaseChange
<1> HIDE DEF L
\* Every new row stands for a row of the fetch's table.
<1>5. \A r \in rows' : \E q \in Table(d) :
         /\ r \in Row /\ r.id = q.id /\ r.env = q.env
         /\ \/ r = q /\ q \notin T
            \/ r = L(q) /\ q \in T /\ r.lease = l
  <2>1. \A q \in Table(d) : q \in Row
    BY TableRow
  <2>2. QED
    BY <1>1, <1>2, <1>4, <2>1
<1>6. Ids(G) \subseteq Ids(rows) /\ Ids(G) \subseteq 1 .. (nextId - 1)
  <2>1. Ids(G) \subseteq Ids(Table(d))
    BY <1>2 DEF Ids
  <2>2. QED
    BY <2>1, TableIds, IdsBelow
<1>7. w0 \in Response /\ w0.taken = {} /\ w0.ids = Ids(G) /\ w0.lease = lease
  <2>1. Ids(G) \subseteq Nat
    BY <1>6 DEF TypeOK
  <2>2. Ids({}) = {}
    BY DEF Ids
  <2>3. lease \in LeaseIds \cup {NoLease}
    OBVIOUS
  <2> HIDE DEF lease, G, T
  <2>4. QED
    BY <2>1, <2>2, <2>3 DEF Response
<1>8. TypeOK'
  <2>1. dropped' \subseteq 1 .. (nextId - 1)
    BY <1>1, IdsBelow DEF TypeOK
  <2>2. \A q \in Table(d) : q.id \in 1 .. (nextId - 1)
    BY TableRow DEF TypeOK
  <2>3. rows' \subseteq Row /\ \A r \in rows' : r.id \in 1 .. (nextId - 1)
    BY <1>5, <2>2
  <2> HIDE DEF w0
  <2>4. wire' \subseteq Response
    BY <1>1, <1>7 DEF TypeOK
  <2>5. \A w \in wire' : w.ids \subseteq 1 .. (nextId - 1) /\ w.taken \subseteq w.ids
    BY <1>1, <1>6, <1>7 DEF TypeOK
  <2>6. QED
    BY <1>1, <2>1, <2>3, <2>4, <2>5 DEF TypeOK
<1>9. PairingNeverLeased'
  <2>1. \A q \in Table(d) : IsPairing(q) => q.lease = NoLease
    BY TableRow DEF PairingNeverLeased, IsPairing
  <2>2. QED
    BY <1>2, <1>5, <2>1 DEF PairingNeverLeased, IsPairing
<1>10. RowsDistinct'
  <2>1. ASSUME NEW q \in rows', NEW r \in rows', q # r
        PROVE  /\ q.id # r.id
               /\ \/ Mailbox(q) # Mailbox(r)
                  \/ KeyOf[q.env] = NoKey
                  \/ KeyOf[q.env] # KeyOf[r.env]
    <3>1. PICK x \in Table(d) : /\ q.id = x.id /\ q.env = x.env
                                /\ (q = x /\ x \notin T) \/ (q = L(x) /\ x \in T)
      BY <1>5
    <3>2. PICK y \in Table(d) : /\ r.id = y.id /\ r.env = y.env
                                /\ (r = y /\ y \notin T) \/ (r = L(y) /\ y \in T)
      BY <1>5
    <3>3. x # y
      BY <2>1, <3>1, <3>2
    <3>4. QED
      BY <3>1, <3>2, <3>3, TableDistinct DEF Mailbox
  <2>2. QED
    BY <2>1 DEF RowsDistinct, Mailbox
<1>11. HandoutsConsistent'
  <2>1. \A w \in wire, q \in Table(d) :
           /\ w.lease # NoLease /\ q.lease = w.lease => q.id \in w.ids
           /\ q.id \notin w.taken
    BY TableRow DEF HandoutsConsistent
  <2>2. \A w \in wire : w.lease # l
    BY <1>1 DEF LeasesInUse
  <2>3. \A q \in Table(d) : q.lease # l
    BY <1>1 DEF LeasesInUse
  <2>4. \A w \in wire, r \in rows' :
           /\ w.lease # NoLease /\ r.lease = w.lease => r.id \in w.ids
           /\ r.id \notin w.taken
    BY <1>5, <2>1, <2>2
  <2>5. \A r \in rows' : w0.lease # NoLease /\ r.lease = w0.lease => r.id \in w0.ids
    BY <1>2, <1>5, <1>7, <2>3 DEF Ids
  <2> HIDE DEF w0
  <2>6. QED
    BY <1>1, <1>7, <2>4, <2>5 DEF HandoutsConsistent
<1>12. AckOnlyProcessed'
  <2>1. \A a \in acks : a.lease # NoLease
    BY ConstantsAssumption DEF TypeOK, AckRequest
  <2>2. \A a \in acks : a.lease # l
    BY <1>1 DEF LeasesInUse
  <2>3. \A a \in acks, q \in Table(d) :
           Mailbox(q) = a.mailbox /\ q.lease = a.lease => q.id \in delivered
    BY <2>1, TableRow DEF AckOnlyProcessed, AckMatches, Ids, Mailbox
  <2>4. QED
    BY <1>1, <1>5, <2>2, <2>3 DEF AckOnlyProcessed, AckMatches, Ids, Mailbox
<1>13. QED
  BY <1>8, <1>9, <1>10, <1>11, <1>12

(* The recipient processes an answer: the rows still under its lease, all   *)
(* in it, are now processed, and may be acknowledged.                       *)
LEMMA ProcessStep ==
    ASSUME IInv, NEW w \in wire, Process(w)
    PROVE  IInv'
<1> USE DEF IInv
<1>1. /\ wire' = wire \ {w}
      /\ delivered' = delivered \cup w.ids
      /\ UNCHANGED <<rows, nextId, dropped>>
      /\ acks' \subseteq acks \cup {[mailbox |-> w.mailbox, lease |-> w.lease]}
      /\ w.lease = NoLease => acks' = acks
  BY DEF Process
<1>2. TypeOK'
  <2>1. w \in Response
    BY DEF TypeOK
  <2>2. acks' \subseteq AckRequest
    BY <1>1, <2>1 DEF TypeOK, AckRequest, Response
  <2>3. QED
    BY <1>1, <2>2 DEF TypeOK
<1>3. PairingNeverLeased' /\ RowsDistinct'
  BY <1>1 DEF PairingNeverLeased, RowsDistinct, IsPairing, Mailbox
<1>4. HandoutsConsistent'
  BY <1>1 DEF HandoutsConsistent
<1>5. AckOnlyProcessed'
  <2>1. ASSUME NEW a \in acks', NEW r \in rows, r.lease = a.lease,
               Mailbox(r) = a.mailbox
        PROVE  r.id \in delivered'
    <3>1. CASE a \in acks
      BY <3>1, <2>1, <1>1 DEF AckOnlyProcessed, AckMatches, Ids
    <3>2. CASE a \notin acks
      <4>1. w.lease # NoLease /\ a.lease = w.lease
        BY <3>2, <1>1
      <4>2. QED
        BY <4>1, <2>1, <1>1 DEF HandoutsConsistent
    <3>3. QED
      BY <3>1, <3>2
  <2>2. QED
    BY <2>1, <1>1 DEF AckOnlyProcessed, AckMatches, Ids, Mailbox
<1>6. QED
  BY <1>2, <1>3, <1>4, <1>5

-----------------------------------------------------------------------------
LEMMA InitIInv == Init => IInv
<1> SUFFICES ASSUME Init PROVE IInv
  OBVIOUS
<1>1. MaxStores \in Nat
  BY ConstantsAssumption
<1>2. TypeOK
  BY <1>1 DEF Init, TypeOK
<1>3. QED
  BY <1>2 DEF Init, IInv, PairingNeverLeased, RowsDistinct,
              HandoutsConsistent, AckOnlyProcessed

LEMMA NextIInv == IInv /\ [Next]_vars => IInv'
<1> SUFFICES ASSUME IInv, [Next]_vars PROVE IInv'
  OBVIOUS
<1>0. TypeOK /\ RowsDistinct
  BY DEF IInv
<1>1. ASSUME NEW e \in Envelopes, NEW d \in Lags, StoreDuplicate(e, d)
      PROVE  IInv'
  <2>1. rows' = Alive(rows, d) /\ Derived(rows')
    BY <1>0, <1>1, SubsetDerived DEF StoreDuplicate, Alive
  <2>2. dropped' \subseteq 1 .. (nextId - 1)
    BY <1>0, <1>1, IdsBelow DEF StoreDuplicate, TypeOK
  <2>3. QED
    BY <1>1, <2>1, <2>2, RemovingStep DEF StoreDuplicate
<1>2. ASSUME NEW e \in Envelopes, NEW d \in Lags, StoreInsert(e, d)
      PROVE  IInv'
  BY <1>2, InsertStep
<1>3. ASSUME NEW d \in Lags, Stats(d)
      PROVE  IInv'
  <2>1. Derived(rows')
    BY <1>0, <1>3, SubsetDerived DEF Stats, Alive
  <2>2. dropped' \subseteq 1 .. (nextId - 1)
    BY <1>0, <1>3, IdsBelow DEF Stats, TypeOK
  <2>3. QED
    BY <1>3, <2>1, <2>2, RemovingStep DEF Stats
<1>4. ASSUME NEW w \in wire, LoseResponse(w)
      PROVE  IInv'
  <2>1. Derived(rows')
    BY <1>0, <1>4, SubsetDerived DEF LoseResponse
  <2>2. dropped' \subseteq 1 .. (nextId - 1)
    BY <1>0, <1>4 DEF LoseResponse, TypeOK
  <2>3. QED
    BY <1>4, <2>1, <2>2, RemovingStep DEF LoseResponse
<1>5. ASSUME NEW a \in acks, AcknowledgeLease(a) \/ LoseAck(a)
      PROVE  IInv'
  <2>1. rows' \subseteq rows
    BY <1>5 DEF AcknowledgeLease, LoseAck
  <2>2. Derived(rows')
    BY <1>0, <2>1, SubsetDerived
  <2>3. /\ acks' \subseteq acks
        /\ UNCHANGED <<nextId, wire, delivered, dropped>>
    BY <1>5 DEF AcknowledgeLease, LoseAck
  <2>4. QED
    BY <1>0, <2>2, <2>3, RemovingStep DEF TypeOK
<1>6. CASE Restart
  BY <1>0, <1>6, RestartDerived, RemovingStep DEF Restart, TypeOK
<1>7. CASE Tick
  BY <1>0, <1>7, TickDerived, RemovingStep DEF Tick, TypeOK
<1>8. CASE UNCHANGED vars
  BY <1>0, <1>8, SubsetDerived, RemovingStep DEF vars, TypeOK
<1>9. ASSUME NEW e \in Envelopes, NEW d \in Lags, StoreRefused(e, d)
      PROVE  IInv'
  BY <1>8, <1>9 DEF StoreRefused
<1>10. QED
  BY <1>1, <1>2, <1>3, <1>4, <1>5, <1>6, <1>7, <1>8, <1>9,
     LeasedStep, LegacyStep, ProcessStep
     DEF Next, Store

(* The mailbox store keeps the inductive invariant: overlapping fetches,    *)
(* late acknowledgements, restarts and stale clock values included.         *)
THEOREM Invariance == Spec => []IInv
  BY InitIInv, NextIInv, PTL DEF Spec

(* Type correctness of the table, the answers and the acknowledgements.     *)
THEOREM TypeCorrect == Spec => []TypeOK
<1>1. IInv => TypeOK
  BY DEF IInv
<1>2. QED
  BY <1>1, Invariance, PTL

(* No announcement is ever leased, so the pairing loop of store_from ends.  *)
THEOREM PairingsStayUnleased == Spec => []PairingNeverLeased
<1>1. IInv => PairingNeverLeased
  BY DEF IInv
<1>2. QED
  BY <1>1, Invariance, PTL

(* Row ids and, within a mailbox, message ids are unique: the INSERT of     *)
(* store_from never meets the unique index.                                 *)
THEOREM RowsStayDistinct == Spec => []RowsDistinct
<1>1. IInv => RowsDistinct
  BY DEF IInv
<1>2. QED
  BY <1>1, Invariance, PTL

(* Overlapping fetches never consume or cover the same row.                 *)
THEOREM HandoutsStayConsistent == Spec => []HandoutsConsistent
<1>1. IInv => HandoutsConsistent
  BY DEF IInv
<1>2. QED
  BY <1>1, Invariance, PTL

(* acknowledge_lease deletes only rows the recipient has processed.         *)
THEOREM AcksDeleteOnlyProcessed == Spec => []AckOnlyProcessed
<1>1. IInv => AckOnlyProcessed
  BY DEF IInv
<1>2. QED
  BY <1>1, Invariance, PTL

-----------------------------------------------------------------------------
(* Refinement: what the relay answers for is what is in the table or in an  *)
(* answer that took it out of the table.                                    *)

(* Giving up rows of the table does not touch what is in answers.           *)
LEMMA PendingAfterLoss ==
    ASSUME HandoutsConsistent, NEW D \in SUBSET Ids(rows)
    PROVE  (Ids(rows) \ D) \cup InAnswers = Pending \ D
<1>1. \A i \in D : \A w \in wire : i \notin w.taken
  BY DEF HandoutsConsistent, Ids
<1>2. QED
  BY <1>1 DEF Pending, InAnswers

(* Rows have their own ids: removing rows removes their ids.                *)
LEMMA IdsRemoved ==
    ASSUME RowsDistinct, NEW M \in SUBSET rows
    PROVE  Ids(rows \ M) = Ids(rows) \ Ids(M)
  BY DEF RowsDistinct, Ids

LEMMA TableIdsRemoved ==
    ASSUME TypeOK, RowsDistinct, NEW d \in Lags, NEW T \in SUBSET Table(d)
    PROVE  Ids(Table(d) \ T) = Ids(Table(d)) \ Ids(T)
<1>1. \A q, s \in Table(d) : q # s => q.id # s.id
  BY TableDistinct
<1>2. QED
  BY <1>1 DEF Ids

(* Without the table shrinking in another way, a loss is an abstract Drop.  *)
LEMMA DropRefines ==
    ASSUME NEW D \in SUBSET Pending, Pending' = Pending \ D,
           dropped' = dropped \cup D, UNCHANGED <<nextId, delivered>>
    PROVE  ALO!Next
<1>1. ALO!Drop(D)
  BY DEF ALO!Drop
<1>2. QED
  BY <1>1 DEF ALO!Next

LEMMA StoreDuplicateRefines ==
    ASSUME IInv, NEW e \in Envelopes, NEW d \in Lags, StoreDuplicate(e, d)
    PROVE  ALO!Next
<1> DEFINE D == Ids(rows) \ Ids(Alive(rows, d))
<1>1. /\ rows' = Alive(rows, d) /\ dropped' = dropped \cup D
      /\ UNCHANGED <<nextId, wire, delivered>>
  BY DEF StoreDuplicate
<1>2. Ids(rows') = Ids(rows) \ D
  BY <1>1 DEF Ids, Alive
<1>3. Pending' = Pending \ D /\ D \subseteq Pending
  BY <1>1, <1>2, PendingAfterLoss DEF IInv, Pending, InAnswers
<1>4. QED
  BY <1>1, <1>3, DropRefines

LEMMA StatsRefines ==
    ASSUME IInv, NEW d \in Lags, Stats(d)
    PROVE  ALO!Next
<1> DEFINE D == Ids(rows) \ Ids(Alive(rows, d))
<1>1. /\ rows' = Alive(rows, d) /\ dropped' = dropped \cup D
      /\ UNCHANGED <<nextId, wire, delivered>>
  BY DEF Stats
<1>2. Ids(rows') = Ids(rows) \ D
  BY <1>1 DEF Ids, Alive
<1>3. Pending' = Pending \ D /\ D \subseteq Pending
  BY <1>1, <1>2, PendingAfterLoss DEF IInv, Pending, InAnswers
<1>4. QED
  BY <1>1, <1>3, DropRefines

LEMMA StoreInsertRefines ==
    ASSUME IInv, NEW e \in Envelopes, NEW d \in Lags, StoreInsert(e, d)
    PROVE  ALO!Next
<1>1. PICK K \in Made(Alive(rows, d), e) :
         /\ rows' = K \cup {NewRow(e, d)}
         /\ dropped' = dropped \cup (Ids(rows) \ Ids(K))
  BY DEF StoreInsert
<1>2. nextId' = nextId + 1 /\ UNCHANGED <<wire, delivered>>
  BY DEF StoreInsert
<1> DEFINE D == Ids(rows) \ Ids(K)
<1>3. K \subseteq rows
  BY MadeSubset DEF Alive
<1>4. Ids(rows') = (Ids(rows) \ D) \cup {nextId}
  <2>1. NewRow(e, d).id = nextId
    BY DEF NewRow
  <2>2. QED
    BY <1>1, <1>3, <2>1 DEF Ids
<1>5. Pending' = (Pending \ D) \cup {nextId} /\ D \subseteq Pending
  BY <1>2, <1>4, PendingAfterLoss DEF IInv, Pending, InAnswers
<1>6. ALO!Accept(D)
  BY <1>1, <1>2, <1>5 DEF ALO!Accept
<1>7. QED
  BY <1>5, <1>6 DEF ALO!Next

LEMMA LeasedRefines ==
    ASSUME IInv, NEW m \in Mailboxes, NEW k \in Limits, NEW t \in LeaseTimes,
           NEW d \in Lags, NEW l \in LeaseIds, FetchLeased(m, k, t, d, l)
    PROVE  ALO!Next
<1> USE DEF IInv
<1> DEFINE T == Taken(Selected(m, k, d))
           L(r) == WithLease(r, l, t - d)
           D == Ids(rows) \ Ids(Table(d))
<1>1. /\ rows' = (Table(d) \ T) \cup {L(r) : r \in T}
      /\ dropped' = dropped \cup D
      /\ UNCHANGED <<nextId, delivered>>
  BY DEF FetchLeased
<1>2. T \subseteq Table(d)
  BY SelectedRows DEF Taken
<1>3. \A r \in T : L(r).id = r.id
  <2>1. t - d \in Int
    BY ConstantsAssumption DEF Lags
  <2>2. QED
    BY <1>2, <2>1, TableRow, LeaseChange
<1>4. Ids(rows') = Ids(Table(d))
  <2> HIDE DEF L, T
  <2>1. QED
    BY <1>1, <1>2, <1>3 DEF Ids
<1>5. Ids(rows') = Ids(rows) \ D
  BY <1>4, TableIds
<1>6. InAnswers' = InAnswers
  <2>1. \A w \in wire' : w \in wire \/ w.taken = {}
    BY DEF FetchLeased, Respond, Ids
  <2>2. wire \subseteq wire'
    BY DEF FetchLeased, Respond
  <2>3. QED
    BY <2>1, <2>2 DEF InAnswers
<1>7. Pending' = Pending \ D /\ D \subseteq Pending
  BY <1>5, <1>6, PendingAfterLoss DEF Pending
<1>8. QED
  BY <1>1, <1>7, DropRefines

LEMMA LegacyRefines ==
    ASSUME IInv, NEW m \in Mailboxes, NEW k \in Limits, NEW d \in Lags,
           FetchLegacy(m, k, d)
    PROVE  ALO!Next
<1> USE DEF IInv
<1> DEFINE G == Selected(m, k, d)
           T == Taken(G)
           D == Ids(rows) \ Ids(Table(d))
           w0 == [mailbox |-> m, lease |-> NoLease, ids |-> Ids(G), taken |-> Ids(T)]
<1>1. /\ rows' = Table(d) \ T
      /\ dropped' = dropped \cup D
      /\ UNCHANGED <<nextId, delivered>>
      /\ wire' = IF G = {} THEN wire ELSE wire \cup {w0}
  BY DEF FetchLegacy, Respond
<1>2. T \subseteq G /\ G \subseteq Table(d)
  BY SelectedRows DEF Taken
<1>3. Ids(rows') = Ids(Table(d)) \ Ids(T) /\ Ids(T) \subseteq Ids(Table(d))
  <2>1. Ids(T) \subseteq Ids(Table(d))
    BY <1>2 DEF Ids
  <2>2. QED
    BY <1>1, <1>2, <2>1, TableIdsRemoved
<1>4. InAnswers' = InAnswers \cup Ids(T)
  <2>1. CASE G = {}
    <3>1. Ids(T) = {}
      BY <1>2, <2>1 DEF Ids
    <3>2. QED
      BY <1>1, <2>1, <3>1 DEF InAnswers
  <2>2. CASE G # {}
    <3>1. wire' = wire \cup {w0}
      BY <1>1, <2>2
    <3>2. w0.taken = Ids(T)
      OBVIOUS
    <3> HIDE DEF w0, T, G
    <3>3. \A x : (\E w \in wire' : x \in w.taken)
                  <=> (\E w \in wire : x \in w.taken) \/ x \in Ids(T)
      BY <3>1, <3>2
    <3>4. QED
      BY <3>3 DEF InAnswers
  <2>3. QED
    BY <2>1, <2>2
<1>5. Ids(Table(d)) = Ids(rows) \ D
  BY TableIds
<1>6. Pending' = Pending \ D /\ D \subseteq Pending
  <2>1. (Ids(rows) \ D) \cup InAnswers = Pending \ D
    BY PendingAfterLoss
  <2> HIDE DEF D, T, G
  <2>2. Pending' = Ids(Table(d)) \cup InAnswers
    BY <1>3, <1>4 DEF Pending
  <2>3. QED
    BY <1>5, <2>1, <2>2 DEF Pending, D
<1>7. QED
  BY <1>1, <1>6, DropRefines

LEMMA ProcessRefines ==
    ASSUME IInv, NEW w \in wire, Process(w)
    PROVE  ALO!Next
<1>1. /\ wire' = wire \ {w} /\ delivered' = delivered \cup w.ids
      /\ UNCHANGED <<rows, nextId, dropped>>
  BY DEF Process
<1>2. w.ids \subseteq ALO!Accepted /\ w.taken \subseteq w.ids
  BY DEF IInv, TypeOK, ALO!Accepted
<1>3. Pending' = Pending \ w.taken
  BY <1>1 DEF IInv, HandoutsConsistent, Pending, InAnswers, Ids
<1>4. ALO!Deliver(w.ids, w.taken)
  BY <1>1, <1>2, <1>3 DEF ALO!Deliver
<1>5. QED
  BY <1>2, <1>4 DEF ALO!Next

LEMMA LoseResponseRefines ==
    ASSUME IInv, NEW w \in wire, LoseResponse(w)
    PROVE  ALO!Next
<1>1. /\ wire' = wire \ {w} /\ dropped' = dropped \cup w.taken
      /\ UNCHANGED <<rows, nextId, delivered>>
  BY DEF LoseResponse
<1>2. Pending' = Pending \ w.taken /\ w.taken \subseteq Pending
  BY <1>1 DEF IInv, HandoutsConsistent, Pending, InAnswers, Ids
<1>3. QED
  BY <1>1, <1>2, DropRefines

LEMMA AcknowledgeRefines ==
    ASSUME IInv, NEW a \in acks, AcknowledgeLease(a)
    PROVE  ALO!Next
<1> DEFINE R == Ids(AckMatches(a))
<1>1. rows' = rows \ AckMatches(a) /\ UNCHANGED <<nextId, wire, delivered, dropped>>
  BY DEF AcknowledgeLease
<1>2. AckMatches(a) \subseteq rows /\ R \subseteq Ids(rows)
  BY DEF AckMatches, Ids
<1>3. Pending' = Pending \ R /\ R \subseteq Pending
  <2>1. Ids(rows') = Ids(rows) \ R
    BY <1>1, <1>2, IdsRemoved DEF IInv
  <2>2. QED
    BY <1>1, <1>2, <2>1, PendingAfterLoss DEF IInv, Pending, InAnswers
<1>4. R \subseteq delivered
  BY DEF IInv, AckOnlyProcessed
<1>5. ALO!Retire(R)
  BY <1>1, <1>3, <1>4 DEF ALO!Retire
<1>6. QED
  BY <1>3, <1>4, <1>5 DEF ALO!Next

LEMMA TimeRefines ==
    ASSUME IInv, Restart \/ Tick
    PROVE  UNCHANGED ALO!vars
<1>1. UNCHANGED <<nextId, wire, delivered, dropped>>
  BY DEF Restart, Tick
<1>2. Ids(rows') = Ids(rows)
  <2>1. \A r \in rows : Release(r).id = r.id /\ Older(r).id = r.id
    BY ReleaseRow, OlderRow DEF IInv, TypeOK
  <2>2. QED
    BY <2>1 DEF Restart, Tick, Ids
<1>3. QED
  BY <1>1, <1>2 DEF ALO!vars, Pending, InAnswers

LEMMA StepRefines == IInv /\ [Next]_vars => [ALO!Next]_(ALO!vars)
<1> SUFFICES ASSUME IInv, [Next]_vars PROVE [ALO!Next]_(ALO!vars)
  OBVIOUS
<1>1. CASE UNCHANGED vars
  BY <1>1 DEF vars, ALO!vars, Pending, InAnswers, Ids
<1>2. ASSUME NEW e \in Envelopes, NEW d \in Lags, Store(e, d)
      PROVE  [ALO!Next]_(ALO!vars)
  BY <1>1, <1>2, StoreDuplicateRefines, StoreInsertRefines DEF Store, StoreRefused
<1>3. ASSUME NEW a \in acks, LoseAck(a)
      PROVE  [ALO!Next]_(ALO!vars)
  BY <1>3 DEF LoseAck, ALO!vars, Pending, InAnswers, Ids
<1>4. QED
  BY <1>1, <1>2, <1>3, StatsRefines, LeasedRefines, LegacyRefines,
     ProcessRefines, LoseResponseRefines, AcknowledgeRefines, TimeRefines
     DEF Next

(* The relay's mailbox store implements the at-least-once mailbox, for all  *)
(* quotas, lease times, envelopes, lags and losses.                         *)
THEOREM Refinement == Spec => ImplementsAtLeastOnce
<1>1. Init => ALO!Init
  BY DEF Init, ALO!Init, Pending, InAnswers, Ids
<1>2. QED
  BY <1>1, StepRefines, Invariance, PTL DEF Spec, ALO!Spec, ImplementsAtLeastOnce

-----------------------------------------------------------------------------
(* Leases are safe until their deadline.                                    *)

(* Making room never takes a leased row (announcements are never leased).   *)
LEMMA MadeKeepsLeased ==
    ASSUME NEW R, NEW e, NEW K \in Made(R, e),
           NEW r \in R, r.lease # NoLease, ~IsPairing(r)
    PROVE  r \in K
<1>1. r \in AfterPairing(R, e)
  BY DEF AfterPairing, Superseded, Pairings, PairingOverflow, Oldest, Unleased
<1>2. \A Q \in AfterMailboxQuota(AfterPairing(R, e), e) : r \in Q
  BY <1>1 DEF AfterMailboxQuota, MailboxVictims, Unleased
<1>3. \A Q : \A V \in RoomMakers(Q, e) : r \notin V
  BY DEF RoomMakers, Unleased
<1>4. QED
  BY <1>2, <1>3 DEF Made

(* A lease that has not reached its deadline is not released, and its rows  *)
(* are not selected, however late the fetch.                                *)
LEMMA LeasedRowStays ==
    ASSUME TypeOK, NEW d \in Lags, NEW r \in rows,
           r.lease # NoLease, r.left > 0, ~Expired(r, 0)
    PROVE  /\ r \in Alive(rows, d)
           /\ r \in Table(d)
           /\ \A m, k : r \notin Selected(m, k, d)
<1>1. r.left \in Int /\ r.age \in Int /\ TTL \in Nat /\ d \in Nat
  BY ConstantsAssumption DEF TypeOK, Row, Lags
<1>2. ~Expired(r, d) /\ ~LeaseOver(r, d)
  BY <1>1 DEF Expired, LeaseOver
<1>3. r \in Alive(rows, d)
  BY <1>2 DEF Alive
<1>4. r \in Table(d)
  BY <1>2, <1>3 DEF Table, Released
<1>5. QED
  BY <1>3, <1>4, SelectedRows

Kept(r) ==
    \/ [mailbox |-> Mailbox(r), lease |-> r.lease] \in acks
    \/ Expired(r, 0)
    \/ \E q \in rows' :
          /\ q.id = r.id
          /\ q.lease = r.lease \/ Unleased(rows') = rows'

LEMMA StepKeepsLeases ==
    ASSUME IInv, [Next]_vars, NEW r \in rows, r.lease # NoLease, r.left > 0
    PROVE  Kept(r)
<1> USE DEF IInv
<1>1. CASE r \in rows'
  BY <1>1 DEF Kept
<1>2. CASE Expired(r, 0)
  BY <1>2 DEF Kept
<1>3. SUFFICES ASSUME ~Expired(r, 0), r \notin rows'
               PROVE  Kept(r)
  BY <1>1, <1>2
<1>4. ~IsPairing(r) /\ r \in Row
  BY DEF PairingNeverLeased, TypeOK
<1>5. ASSUME NEW e \in Envelopes, NEW d \in Lags, Store(e, d)
      PROVE  FALSE
  <2>1. r \in Alive(rows, d)
    BY <1>3, LeasedRowStays
  <2>2. CASE StoreInsert(e, d)
    BY <1>3, <1>4, <2>1, <2>2, MadeKeepsLeased DEF StoreInsert
  <2>3. QED
    BY <1>3, <1>5, <2>1, <2>2 DEF Store, StoreDuplicate, StoreRefused, vars
<1>6. ASSUME NEW d \in Lags, Stats(d)
      PROVE  FALSE
  BY <1>3, <1>6, LeasedRowStays DEF Stats
<1>7. ASSUME NEW m \in Mailboxes, NEW k \in Limits, NEW t \in LeaseTimes,
             NEW d \in Lags, NEW l \in LeaseIds, FetchLeased(m, k, t, d, l)
      PROVE  FALSE
  BY <1>3, <1>7, LeasedRowStays DEF FetchLeased, Taken
<1>8. ASSUME NEW m \in Mailboxes, NEW k \in Limits, NEW d \in Lags,
             FetchLegacy(m, k, d)
      PROVE  FALSE
  BY <1>3, <1>8, LeasedRowStays DEF FetchLegacy, Taken
<1>9. ASSUME NEW a \in acks, AcknowledgeLease(a)
      PROVE  Kept(r)
  <2>1. r \in AckMatches(a)
    BY <1>3, <1>9 DEF AcknowledgeLease
  <2>2. a = [mailbox |-> Mailbox(r), lease |-> r.lease]
    BY <2>1 DEF AckMatches, TypeOK, AckRequest
  <2>3. QED
    BY <2>2 DEF Kept
<1>10. CASE Restart
  <2>1. Release(r) \in rows' /\ Release(r).id = r.id
    BY <1>4, <1>10, ReleaseRow DEF Restart
  <2>2. \A q \in rows' : q.lease = NoLease
    BY <1>10, ReleaseRow DEF Restart, TypeOK
  <2>3. QED
    BY <2>1, <2>2 DEF Kept, Unleased
<1>11. CASE Tick
  BY <1>4, <1>11, OlderRow DEF Tick, Kept
<1>12. ASSUME NEW w \in wire, Process(w) \/ LoseResponse(w)
       PROVE  FALSE
  BY <1>3, <1>12 DEF Process, LoseResponse
<1>13. ASSUME NEW a \in acks, LoseAck(a)
       PROVE  FALSE
  BY <1>3, <1>13 DEF LoseAck
<1>14. CASE UNCHANGED vars
  BY <1>3, <1>14 DEF vars
<1>15. QED
  BY <1>5, <1>6, <1>7, <1>8, <1>9, <1>10, <1>11, <1>12, <1>13, <1>14 DEF Next

(* No step of the relay breaks a lease before its deadline: quota eviction, *)
(* other fetches and stale clock values included.                           *)
THEOREM LeasesAreSafe == Spec => LeaseSafe
<1>1. IInv /\ [Next]_vars =>
         [\A r \in rows : r.lease # NoLease /\ r.left > 0 => Kept(r)]_vars
  BY StepKeepsLeases
<1>2. QED
  BY <1>1, Invariance, PTL DEF Spec, LeaseSafe, Kept

-----------------------------------------------------------------------------
(* Quotas.  Bytes is a fold over a set of rows: a total of the weights of   *)
(* its rows.                                                                *)

Weight == [r \in Row |-> BytesOf[r.env]]

LEMMA WeightType == \A r \in Row : Weight[r] \in Nat /\ Weight[r] = BytesOf[r.env]
  BY ConstantsAssumption DEF Weight, Row

LEMMA BytesTotal ==
    ASSUME NEW R \in SUBSET Row, IsFiniteSet(R)
    PROVE  Bytes(R) = Total(Weight, R)
<1> DEFINE B == CHOOSE iter : iter = [s \in SUBSET R |->
                    IF s = {} THEN 0
                    ELSE BytesOf[(CHOOSE x \in s : TRUE).env]
                            + iter[s \ {CHOOSE x \in s : TRUE}]]
<1>1. Bytes(R) = B[R]
  BY DEF Bytes, MapThenSumSet, MapThenFoldSet
<1>2. \A r \in R : Weight[r] \in Nat /\ Weight[r] = BytesOf[r.env]
  BY WeightType
<1>3. \A s \in SUBSET R : s # {} =>
         Weight[CHOOSE x \in s : TRUE] = BytesOf[(CHOOSE x \in s : TRUE).env]
  BY <1>2
<1>4. \A f : IsSum(f, Weight, R) <=>
             f = [s \in SUBSET R |->
                    IF s = {} THEN 0
                    ELSE BytesOf[(CHOOSE x \in s : TRUE).env]
                            + f[s \ {CHOOSE x \in s : TRUE}]]
  BY <1>3 DEF IsSum
<1>5. \E f : IsSum(f, Weight, R)
  BY <1>2, SumExists
<1>6. IsSum(B, Weight, R)
  BY <1>4, <1>5, ZenonT(40)
<1> HIDE DEF B
<1>7. QED
  BY <1>1, <1>2, <1>6, TotalUnique

LEMMA BytesType ==
    ASSUME NEW R \in SUBSET Row, IsFiniteSet(R)
    PROVE  Bytes(R) \in Nat
<1>1. \A r \in R : Weight[r] \in Nat
  BY WeightType
<1>2. QED
  BY <1>1, BytesTotal, TotalType

LEMMA BytesInsert ==
    ASSUME NEW R \in SUBSET Row, IsFiniteSet(R), NEW n \in Row, n \notin R
    PROVE  Bytes(R \cup {n}) = Bytes(R) + BytesOf[n.env]
<1>1. \A r \in R \cup {n} : Weight[r] \in Nat
  BY WeightType
<1>2. IsFiniteSet(R \cup {n}) /\ R \cup {n} \in SUBSET Row
  BY FS_AddElement
<1>3. Total(Weight, R \cup {n}) = Total(Weight, R) + Weight[n]
  BY <1>1, TotalAdd
<1>4. Weight[n] = BytesOf[n.env]
  BY WeightType
<1>5. Bytes(R \cup {n}) = Total(Weight, R \cup {n}) /\ Bytes(R) = Total(Weight, R)
  BY <1>2, BytesTotal
<1>6. QED
  BY <1>3, <1>4, <1>5

(* Q has only rows that R has, with perhaps another age or lease.           *)
Lessens(Q, R) ==
    /\ \A q \in Q : \E r \in R : q.id = r.id /\ q.env = r.env
    /\ \A p, q \in Q : p # q => p.id # q.id

(* Such a table is no longer and no larger.                                 *)
LEMMA LessensBytes ==
    ASSUME NEW R \in SUBSET Row, IsFiniteSet(R), NEW Q \in SUBSET Row, Lessens(Q, R)
    PROVE  /\ IsFiniteSet(Q)
           /\ Cardinality(Q) <= Cardinality(R)
           /\ Bytes(Q) <= Bytes(R)
<1> DEFINE h == [q \in Q |-> CHOOSE r \in R : q.id = r.id /\ q.env = r.env]
<1>1. \A q \in Q : h[q] \in R /\ h[q].id = q.id /\ h[q].env = q.env
  BY DEF Lessens
<1>2. h \in [Q -> R]
  BY <1>1
<1> HIDE DEF h
<1>3. \A p, q \in Q : h[p] = h[q] => p = q
  BY <1>1 DEF Lessens
<1>4. h \in Injection(Q, R)
  BY <1>2, <1>3 DEF Injection, IsInjective
<1>5. IsFiniteSet(Q) /\ Cardinality(Q) <= Cardinality(R)
  BY <1>4, FS_Injection
<1>6. (\A q \in Q : Weight[q] \in Nat) /\ (\A r \in R : Weight[r] \in Nat)
  BY WeightType
<1>7. \A q \in Q : Weight[q] <= Weight[h[q]]
  <2>1. ASSUME NEW q \in Q
        PROVE  Weight[q] = Weight[h[q]] /\ Weight[q] \in Nat
    BY <1>1, WeightType
  <2>2. QED
    BY <2>1
<1>8. Total(Weight, Q) <= Total(Weight, R)
  BY <1>2, <1>3, <1>5, <1>6, <1>7, TotalMap
<1>9. QED
  BY <1>5, <1>8, BytesTotal

(* The quotas of a table R.                                                 *)
InMailbox(R, m) == {r \in R : Mailbox(r) = m}
FromSource(R, e) == {r \in R : SourceOf[r.env] = SourceOf[e]}

Quotas(R) ==
    /\ Bytes(R) <= MaxTotalBytes
    /\ \A m \in Mailboxes :
          /\ Cardinality(InMailbox(R, m)) <= MaxQueuePerMailbox
          /\ Bytes(InMailbox(R, m)) <= MaxMailboxBytes
          /\ Cardinality(Pairings(R, m)) <= MaxPairingPerMailbox
    /\ \A e \in Envelopes :
          SourceOf[e] # NoSource => Bytes(FromSource(R, e)) <= MaxStoredBytesPerPeer

LEMMA QuotasOfRows == QuotasHold <=> Quotas(rows)
  BY DEF QuotasHold, Quotas, InMailbox, FromSource

LEMMA LimitsType ==
    /\ MaxQueuePerMailbox \in Nat /\ MaxMailboxBytes \in Nat
    /\ MaxPairingPerMailbox \in Nat /\ MaxPairingPerMailbox > 0
    /\ MaxStoredBytesPerPeer \in Nat /\ MaxTotalBytes \in Nat
  BY ConstantsAssumption

LEMMA PartTypes ==
    ASSUME NEW R \in SUBSET Row, IsFiniteSet(R), NEW S \in SUBSET R
    PROVE  /\ S \in SUBSET Row /\ IsFiniteSet(S)
           /\ Cardinality(S) \in Nat /\ Bytes(S) \in Nat
<1>1. S \in SUBSET Row /\ IsFiniteSet(S)
  BY FS_Subset
<1>2. QED
  BY <1>1, FS_CardinalityType, BytesType

(* The quotas of a table hold of a lesser one.                              *)
LEMMA QuotasLessen ==
    ASSUME NEW R \in SUBSET Row, IsFiniteSet(R), NEW Q \in SUBSET Row,
           Lessens(Q, R), Quotas(R)
    PROVE  Quotas(Q)
<1>0. IsFiniteSet(Q)
  BY LessensBytes
<1>1. ASSUME NEW S \in SUBSET R, NEW T \in SUBSET Q, Lessens(T, S)
      PROVE  /\ Cardinality(T) \in Nat /\ Cardinality(S) \in Nat
             /\ Bytes(T) \in Nat /\ Bytes(S) \in Nat
             /\ Cardinality(T) <= Cardinality(S) /\ Bytes(T) <= Bytes(S)
  <2>1. S \in SUBSET Row /\ IsFiniteSet(S) /\ T \in SUBSET Row
    BY PartTypes
  <2>2. QED
    BY <1>0, <1>1, <2>1, PartTypes, LessensBytes
<1>2. Bytes(Q) <= MaxTotalBytes
  BY <1>1, LimitsType DEF Quotas
<1>3. ASSUME NEW m \in Mailboxes
      PROVE  /\ Cardinality(InMailbox(Q, m)) <= MaxQueuePerMailbox
             /\ Bytes(InMailbox(Q, m)) <= MaxMailboxBytes
             /\ Cardinality(Pairings(Q, m)) <= MaxPairingPerMailbox
  <2>1. /\ InMailbox(Q, m) \in SUBSET Q /\ InMailbox(R, m) \in SUBSET R
        /\ Lessens(InMailbox(Q, m), InMailbox(R, m))
    BY DEF Lessens, InMailbox, Mailbox
  <2>2. /\ Pairings(Q, m) \in SUBSET Q /\ Pairings(R, m) \in SUBSET R
        /\ Lessens(Pairings(Q, m), Pairings(R, m))
    BY DEF Lessens, Pairings, Mailbox, IsPairing
  <2>3. QED
    BY <1>1, <2>1, <2>2, LimitsType DEF Quotas
<1>4. ASSUME NEW e \in Envelopes, SourceOf[e] # NoSource
      PROVE  Bytes(FromSource(Q, e)) <= MaxStoredBytesPerPeer
  <2>1. /\ FromSource(Q, e) \in SUBSET Q /\ FromSource(R, e) \in SUBSET R
        /\ Lessens(FromSource(Q, e), FromSource(R, e))
    BY DEF Lessens, FromSource
  <2>2. QED
    BY <1>1, <1>4, <2>1, LimitsType DEF Quotas
<1>5. QED
  BY <1>2, <1>3, <1>4 DEF Quotas

(* ORDER BY id LIMIT k finds k rows if there are so many: those before the  *)
(* first one it leaves are all among them.                                  *)
LEMMA OldestLeaves ==
    ASSUME NEW R \in SUBSET Row, IsFiniteSet(R), NEW c \in Nat,
           \A p, q \in R : p # q => p.id # q.id
    PROVE  Cardinality(R \ Oldest(Cardinality(R) - c, R)) <= c
<1> DEFINE k == Cardinality(R) - c
           O == Oldest(k, R)
           L == R \ O
           Before(r) == {q \in R : q.id < r.id}
<1>1. /\ O \in SUBSET R /\ L \in SUBSET R
      /\ IsFiniteSet(O) /\ IsFiniteSet(L)
      /\ Cardinality(L) \in Nat /\ Cardinality(O) \in Nat /\ Cardinality(R) \in Nat
  <2>1. O \in SUBSET R /\ L \in SUBSET R
    BY DEF Oldest
  <2> HIDE DEF O, L, k
  <2>2. QED
    BY <2>1, PartTypes
<1>2. Cardinality(L) = Cardinality(R) - Cardinality(O)
  <2>1. R \cap O = O
    BY <1>1
  <2> HIDE DEF O, k
  <2>2. QED
    BY <2>1, FS_Difference
<1>3. CASE L = {}
  <2>1. Cardinality(L) = 0
    BY <1>3, FS_EmptySet
  <2>2. QED
    BY <2>1
<1>4. CASE L # {}
  <2> DEFINE I == {r.id : r \in L}
  <2>1. I \in SUBSET Nat /\ I # {}
    BY <1>1, <1>4 DEF Row
  <2>2. PICK i \in I : \A j \in I : i <= j
    <3> HIDE DEF I
    <3>1. QED
      BY <2>1, LeastNatural
  <2>3. PICK r \in L : \A q \in L : r.id <= q.id
    BY <2>2
  <2>4. Before(r) \in SUBSET R /\ Cardinality(Before(r)) \in Nat
    <3>1. Before(r) \in SUBSET R
      OBVIOUS
    <3> HIDE DEF Before
    <3>2. QED
      BY <3>1, PartTypes
  <2>5. ~(Cardinality(Before(r)) < k)
    BY <2>3 DEF Oldest
  <2>6. Before(r) \in SUBSET O
    <3>1. SUFFICES ASSUME NEW q \in Before(r), q \in L PROVE FALSE
      OBVIOUS
    <3>2. r.id <= q.id /\ q.id < r.id /\ q.id \in Nat /\ r.id \in Nat
      BY <2>3, <3>1, <1>1 DEF Row
    <3>3. QED
      BY <3>2
  <2>7. Cardinality(Before(r)) <= Cardinality(O)
    <3> HIDE DEF Before, O
    <3>1. QED
      BY <1>1, <2>6, FS_Subset
  <2> HIDE DEF Before, O, L
  <2>8. Cardinality(L) <= c
    BY <1>1, <1>2, <2>4, <2>5, <2>7
  <2>9. QED
    BY <2>8 DEF L, O
<1>5. QED
  BY <1>3, <1>4

(* After the announcement loop there is room for one more.                  *)
LEMMA PairingRoom ==
    ASSUME NEW R \in SUBSET Row, IsFiniteSet(R),
           \A p, q \in R : p # q => p.id # q.id,
           \A r \in R : IsPairing(r) => r.lease = NoLease,
           NEW e \in Envelopes, KindOf[e] = "pairing"
    PROVE  Cardinality(Pairings(AfterPairing(R, e), MailboxOf[e]))
              <= MaxPairingPerMailbox - 1
<1> DEFINE S == R \ Superseded(R, e)
           P == Pairings(S, MailboxOf[e])
           c == MaxPairingPerMailbox - 1
           O == Oldest(Cardinality(P) - c, P)
<1>1. S \in SUBSET R /\ P \in SUBSET R
  BY DEF Pairings
<1>2. Unleased(P) = P
  BY DEF Pairings, Unleased
<1>3. PairingOverflow(S, e) = O
  BY <1>2 DEF PairingOverflow
<1>4. AfterPairing(R, e) = S \ O
  BY <1>3 DEF AfterPairing
<1>5. O \subseteq P
  BY DEF Oldest
<1>6. Pairings(S \ O, MailboxOf[e]) = P \ O
  <2> HIDE DEF S, O
  <2>1. QED
    BY DEF Pairings
<1>7. c \in Nat
  BY LimitsType
<1>8. P \in SUBSET Row /\ IsFiniteSet(P) /\ \A p, q \in P : p # q => p.id # q.id
  <2> HIDE DEF P
  <2>1. QED
    BY <1>1, PartTypes
<1>9. Cardinality(P \ O) <= c
  <2> HIDE DEF P, c
  <2>1. QED
    BY <1>7, <1>8, OldestLeaves
<1>10. QED
  BY <1>4, <1>6, <1>9

(* What store_from leaves before its INSERT has room for the new row in     *)
(* every quota the row counts against.                                      *)
LEMMA MadeRoom ==
    ASSUME NEW R \in SUBSET Row, IsFiniteSet(R), NEW e \in Envelopes,
           NEW K \in Made(R, e)
    PROVE  \E Q \in SUBSET Row :
              /\ Q \subseteq AfterPairing(R, e) /\ K \subseteq Q /\ Q \subseteq R
              /\ FitsMailbox(Q, e) /\ WithinPeerShare(Q, e) /\ FitsTotal(K, e)
<1>1. PICK Q \in AfterMailboxQuota(AfterPairing(R, e), e) :
         /\ WithinPeerShare(Q, e)
         /\ \E V \in RoomMakers(Q, e) : K = Q \ V
  BY DEF Made
<1>2. Q \subseteq AfterPairing(R, e) /\ AfterPairing(R, e) \subseteq R
  BY DEF AfterMailboxQuota, AfterPairing
<1>3. FitsMailbox(Q, e)
  <2> DEFINE A == AfterPairing(R, e)
             left(k) == A \ MailboxVictims(A, MailboxOf[e], k)
             enough == {k \in 0 .. Cardinality(A) : FitsMailbox(left(k), e)}
  <2>1. enough # {} /\ Q = left(Min(enough))
    BY DEF AfterMailboxQuota
  <2>2. IsFiniteSet(A) /\ enough \in SUBSET Nat
    BY <1>2, FS_Subset
  <2> HIDE DEF left, A
  <2>3. PICK k \in enough : \A j \in enough : k <= j
    <3> HIDE DEF enough
    <3>1. QED
      BY <2>1, <2>2, LeastNatural
  <2>4. Min(enough) \in enough
    <3> HIDE DEF enough
    <3>1. QED
      BY <2>3 DEF Min
  <2>5. QED
    BY <2>1, <2>4
<1>4. FitsTotal(K, e) /\ K \subseteq Q
  BY <1>1 DEF RoomMakers
<1>5. QED
  BY <1>1, <1>2, <1>3, <1>4

LEMMA FiniteRows ==
    ASSUME TypeOK, RowsDistinct
    PROVE  IsFiniteSet(rows) /\ rows \in SUBSET Row
<1> DEFINE I == 1 .. (nextId - 1)
           f == [r \in rows |-> r.id]
<1>1. f \in Injection(rows, I)
  BY DEF TypeOK, RowsDistinct, Injection, IsInjective
<1>2. IsFiniteSet(I)
  <2>1. nextId - 1 \in Int
    BY DEF TypeOK
  <2>2. QED
    BY <2>1, FS_Interval
<1> HIDE DEF I, f
<1>3. QED
  BY <1>1, <1>2, FS_Injection DEF TypeOK

(* A store inserts its row into a table that has room for it.               *)
LEMMA InsertQuotas ==
    ASSUME NEW R \in SUBSET Row, IsFiniteSet(R), Quotas(R),
           \A p, q \in R : p # q => p.id # q.id,
           \A r \in R : IsPairing(r) => r.lease = NoLease,
           NEW e \in Envelopes, NEW K \in Made(R, e),
           NEW n \in Row, n.env = e, n \notin R
    PROVE  Quotas(K \cup {n})
<1>1. PICK Q \in SUBSET Row :
         /\ Q \subseteq AfterPairing(R, e) /\ K \subseteq Q /\ Q \subseteq R
         /\ FitsMailbox(Q, e) /\ WithinPeerShare(Q, e) /\ FitsTotal(K, e)
  BY MadeRoom
<1>2. IsFiniteSet(Q) /\ IsFiniteSet(K) /\ K \in SUBSET Row /\ K \in SUBSET R
  BY <1>1, PartTypes
<1>3. Quotas(K)
  <2>1. Lessens(K, R)
    BY <1>2 DEF Lessens
  <2>2. QED
    BY <1>2, <2>1, QuotasLessen
<1>4. ASSUME NEW S \in SUBSET Q, NEW T \in SUBSET S
      PROVE  /\ Cardinality(T) \in Nat /\ Cardinality(S) \in Nat
             /\ Bytes(T) \in Nat /\ Bytes(S) \in Nat
             /\ Cardinality(T) <= Cardinality(S) /\ Bytes(T) <= Bytes(S)
             /\ Bytes(T \cup {n}) = Bytes(T) + BytesOf[e]
             /\ Cardinality(T \cup {n}) = Cardinality(T) + 1
  <2>1. /\ S \in SUBSET Row /\ IsFiniteSet(S) /\ Cardinality(S) \in Nat /\ Bytes(S) \in Nat
        /\ T \in SUBSET Row /\ IsFiniteSet(T) /\ Cardinality(T) \in Nat /\ Bytes(T) \in Nat
    BY <1>1, <1>2, PartTypes
  <2>2. Lessens(T, S)
    BY <1>1 DEF Lessens
  <2>3. n \notin T
    BY <1>1
  <2>4. Cardinality(T) <= Cardinality(S) /\ Bytes(T) <= Bytes(S)
    BY <2>1, <2>2, LessensBytes
  <2>5. Bytes(T \cup {n}) = Bytes(T) + BytesOf[e]
    BY <2>1, <2>3, BytesInsert
  <2>6. Cardinality(T \cup {n}) = Cardinality(T) + 1
    BY <2>1, <2>3, FS_AddElement
  <2>7. QED
    BY <2>1, <2>4, <2>5, <2>6
<1>5. BytesOf[e] \in Nat
  BY ConstantsAssumption
<1>6. Bytes(K \cup {n}) <= MaxTotalBytes
  BY <1>1, <1>4 DEF FitsTotal
<1>7. ASSUME NEW m \in Mailboxes
      PROVE  /\ Cardinality(InMailbox(K \cup {n}, m)) <= MaxQueuePerMailbox
             /\ Bytes(InMailbox(K \cup {n}, m)) <= MaxMailboxBytes
  <2>1. CASE m # MailboxOf[e]
    <3>1. InMailbox(K \cup {n}, m) = InMailbox(K, m)
      BY <2>1 DEF InMailbox, Mailbox
    <3>2. QED
      BY <1>3, <3>1 DEF Quotas
  <2>2. CASE m = MailboxOf[e]
    <3>1. InMailbox(K \cup {n}, m) = InMailbox(K, m) \cup {n}
      BY <2>2 DEF InMailbox, Mailbox
    <3>2. InMailbox(K, m) \in SUBSET InMailbox(Q, m) /\ InMailbox(Q, m) \in SUBSET Q
      BY <1>1 DEF InMailbox
    <3>3. /\ Cardinality(InMailbox(Q, m)) < MaxQueuePerMailbox
          /\ Bytes(InMailbox(Q, m)) + BytesOf[e] <= MaxMailboxBytes
      BY <1>1, <2>2 DEF FitsMailbox, InMailbox
    <3> DEFINE S == InMailbox(Q, m)
               T == InMailbox(K, m)
    <3>4. /\ Cardinality(T) \in Nat /\ Cardinality(S) \in Nat
          /\ Bytes(T) \in Nat /\ Bytes(S) \in Nat
          /\ Cardinality(T) <= Cardinality(S) /\ Bytes(T) <= Bytes(S)
          /\ Bytes(T \cup {n}) = Bytes(T) + BytesOf[e]
          /\ Cardinality(T \cup {n}) = Cardinality(T) + 1
      BY <1>4, <3>2
    <3>5. /\ Cardinality(T \cup {n}) <= MaxQueuePerMailbox
          /\ Bytes(T \cup {n}) <= MaxMailboxBytes
      <4> HIDE DEF S, T
      <4>1. /\ Cardinality(S) < MaxQueuePerMailbox
            /\ Bytes(S) + BytesOf[e] <= MaxMailboxBytes
        BY <3>3 DEF S
      <4>2. QED
        BY <1>5, <3>4, <4>1, LimitsType
    <3>6. QED
      BY <3>1, <3>5
  <2>3. QED
    BY <2>1, <2>2
<1>8. ASSUME NEW m \in Mailboxes
      PROVE  Cardinality(Pairings(K \cup {n}, m)) <= MaxPairingPerMailbox
  <2>1. CASE m # MailboxOf[e] \/ KindOf[e] # "pairing"
    <3>1. Pairings(K \cup {n}, m) = Pairings(K, m)
      BY <2>1 DEF Pairings, IsPairing, Mailbox
    <3>2. QED
      BY <1>3, <3>1 DEF Quotas
  <2>2. CASE m = MailboxOf[e] /\ KindOf[e] = "pairing"
    <3>1. Pairings(K \cup {n}, m) = Pairings(K, m) \cup {n}
      BY <2>2 DEF Pairings, IsPairing, Mailbox
    <3>2. Pairings(K, m) \in SUBSET Pairings(AfterPairing(R, e), m)
      BY <1>1 DEF Pairings
    <3>3. Cardinality(Pairings(AfterPairing(R, e), m)) <= MaxPairingPerMailbox - 1
      BY <2>2, PairingRoom
    <3>4. /\ IsFiniteSet(Pairings(AfterPairing(R, e), m))
          /\ Cardinality(Pairings(AfterPairing(R, e), m)) \in Nat
      <4>1. Pairings(AfterPairing(R, e), m) \in SUBSET R
        BY DEF Pairings, AfterPairing
      <4>2. QED
        BY <4>1, PartTypes
    <3>5. Cardinality(Pairings(K, m)) <= Cardinality(Pairings(AfterPairing(R, e), m))
      BY <3>2, <3>4, FS_Subset
    <3>6. Pairings(K, m) \in SUBSET Q
      BY <1>1 DEF Pairings
    <3>7. /\ Cardinality(Pairings(K, m)) \in Nat
          /\ Cardinality(Pairings(K, m) \cup {n}) = Cardinality(Pairings(K, m)) + 1
      BY <1>4, <3>6
    <3> DEFINE a == Cardinality(Pairings(K, m))
               b == Cardinality(Pairings(AfterPairing(R, e), m))
    <3>8. a + 1 <= MaxPairingPerMailbox
      <4> HIDE DEF a, b
      <4>1. a \in Nat /\ b \in Nat /\ a <= b /\ b <= MaxPairingPerMailbox - 1
        BY <3>3, <3>4, <3>5, <3>7 DEF a, b
      <4>2. QED
        BY <4>1, LimitsType
    <3>9. QED
      BY <3>1, <3>7, <3>8
  <2>3. QED
    BY <2>1, <2>2
<1>9. ASSUME NEW x \in Envelopes, SourceOf[x] # NoSource
      PROVE  Bytes(FromSource(K \cup {n}, x)) <= MaxStoredBytesPerPeer
  <2>1. CASE SourceOf[x] # SourceOf[e]
    <3>1. FromSource(K \cup {n}, x) = FromSource(K, x)
      BY <2>1 DEF FromSource
    <3>2. QED
      BY <1>3, <1>9, <3>1 DEF Quotas
  <2>2. CASE SourceOf[x] = SourceOf[e]
    <3>1. FromSource(K \cup {n}, x) = FromSource(K, x) \cup {n}
      BY <2>2 DEF FromSource
    <3>2. FromSource(K, x) \in SUBSET FromSource(Q, x) /\ FromSource(Q, x) \in SUBSET Q
      BY <1>1 DEF FromSource
    <3>3. Bytes(FromSource(Q, x)) + BytesOf[e] <= MaxStoredBytesPerPeer
      BY <1>1, <1>9, <2>2 DEF WithinPeerShare, FromSource
    <3>4. /\ Bytes(FromSource(K, x)) \in Nat /\ Bytes(FromSource(Q, x)) \in Nat
          /\ Bytes(FromSource(K, x)) <= Bytes(FromSource(Q, x))
          /\ Bytes(FromSource(K, x) \cup {n}) = Bytes(FromSource(K, x)) + BytesOf[e]
      BY <1>4, <3>2
    <3> DEFINE a == Bytes(FromSource(K, x))
               b == Bytes(FromSource(Q, x))
    <3>5. a + BytesOf[e] <= MaxStoredBytesPerPeer
      <4> HIDE DEF a, b
      <4>1. a \in Nat /\ b \in Nat /\ a <= b /\ b + BytesOf[e] <= MaxStoredBytesPerPeer
        BY <3>3, <3>4 DEF a, b
      <4>2. QED
        BY <1>5, <4>1, LimitsType
    <3>6. QED
      BY <3>1, <3>4, <3>5
  <2>3. QED
    BY <2>1, <2>2
<1>10. QED
  BY <1>6, <1>7, <1>8, <1>9 DEF Quotas

(* Every other operation leaves, of each row, a row of the same envelope.   *)
LEMMA QuietQuotas ==
    ASSUME IInv, IInv', [Next]_vars, QuotasHold,
           ~ \E e \in Envelopes, d \in Lags : StoreInsert(e, d)
    PROVE  Lessens(rows', rows)
<1> USE DEF IInv
<1>1. \A p, q \in rows' : p # q => p.id # q.id
  BY DEF RowsDistinct
<1>2. SUFFICES \A q \in rows' : \E r \in rows : q.id = r.id /\ q.env = r.env
  BY <1>1 DEF Lessens
<1>3. CASE rows' \subseteq rows
  BY <1>3
<1>4. ASSUME NEW e \in Envelopes, NEW d \in Lags, Store(e, d)
      PROVE  rows' \subseteq rows
  BY <1>4 DEF Store, StoreDuplicate, StoreRefused, Alive, vars
<1>5. ASSUME NEW m \in Mailboxes, NEW k \in Limits, NEW t \in LeaseTimes,
             NEW d \in Lags, NEW l \in LeaseIds, FetchLeased(m, k, t, d, l)
      PROVE  \A q \in rows' : \E r \in rows : q.id = r.id /\ q.env = r.env
  <2> DEFINE T == Taken(Selected(m, k, d))
  <2>1. rows' = (Table(d) \ T) \cup {WithLease(r, l, t - d) : r \in T} /\ T \subseteq Table(d)
    BY <1>5, SelectedRows DEF FetchLeased, Taken
  <2>2. t - d \in Int
    BY ConstantsAssumption DEF Lags
  <2>3. \A q \in Table(d) : q \in Row /\ \E r \in rows : q.id = r.id /\ q.env = r.env
    BY TableRow
  <2>4. \A q \in Table(d) : WithLease(q, l, t - d).id = q.id /\ WithLease(q, l, t - d).env = q.env
    BY <2>2, <2>3, LeaseChange
  <2> HIDE DEF T
  <2>5. QED
    BY <2>1, <2>3, <2>4
<1>6. ASSUME NEW m \in Mailboxes, NEW k \in Limits, NEW d \in Lags, FetchLegacy(m, k, d)
      PROVE  \A q \in rows' : \E r \in rows : q.id = r.id /\ q.env = r.env
  BY <1>6, TableRow DEF FetchLegacy
<1>7. CASE Restart \/ Tick
  <2>1. \A r \in rows : /\ Release(r).id = r.id /\ Release(r).env = r.env
                        /\ Older(r).id = r.id /\ Older(r).env = r.env
    BY ReleaseRow, OlderRow DEF TypeOK
  <2>2. QED
    BY <1>7, <2>1 DEF Restart, Tick
<1>8. ASSUME NEW w \in wire, Process(w) \/ LoseResponse(w)
      PROVE  rows' \subseteq rows
  BY <1>8 DEF Process, LoseResponse
<1>9. ASSUME NEW a \in acks, AcknowledgeLease(a) \/ LoseAck(a)
      PROVE  rows' \subseteq rows
  BY <1>9 DEF AcknowledgeLease, LoseAck
<1>10. ASSUME NEW d \in Lags, Stats(d)
       PROVE  rows' \subseteq rows
  BY <1>10 DEF Stats, Alive
<1>11. CASE UNCHANGED vars
  BY <1>3, <1>11 DEF vars
<1>12. QED
  BY <1>3, <1>4, <1>5, <1>6, <1>7, <1>8, <1>9, <1>10, <1>11 DEF Next

LEMMA StepQuotas ==
    ASSUME IInv, IInv', [Next]_vars, QuotasHold
    PROVE  QuotasHold'
<1> USE DEF IInv
<1>1. IsFiniteSet(rows) /\ rows \in SUBSET Row
  BY FiniteRows
<1>2. rows' \in SUBSET Row
  BY DEF TypeOK
<1>3. Quotas(rows)
  BY QuotasOfRows
<1>4. Quotas(rows') => QuotasHold'
  BY DEF QuotasHold, Quotas, InMailbox, FromSource, Pairings, Mailbox, IsPairing
<1>5. ASSUME NEW e \in Envelopes, NEW d \in Lags, StoreInsert(e, d)
      PROVE  Quotas(rows')
  <2> DEFINE A == Alive(rows, d)
             n == NewRow(e, d)
  <2>1. PICK K \in Made(A, e) : rows' = K \cup {n}
    BY <1>5 DEF StoreInsert
  <2>2. A \in SUBSET rows
    BY DEF Alive
  <2>3. n \in Row /\ n.env = e /\ n.id = nextId
    BY ConstantsAssumption DEF NewRow, Row, TypeOK, Lags
  <2>4. n \notin A
    BY <2>2, <2>3 DEF TypeOK
  <2>5. A \in SUBSET Row /\ IsFiniteSet(A)
    BY <1>1, <2>2, PartTypes
  <2>6. Quotas(A)
    <3>1. Lessens(A, rows)
      BY <2>2 DEF Lessens, RowsDistinct
    <3> HIDE DEF A
    <3>2. \A R, Q \in SUBSET Row : IsFiniteSet(R) /\ Lessens(Q, R) /\ Quotas(R) => Quotas(Q)
      BY QuotasLessen
    <3>3. QED
      BY <1>1, <1>3, <2>5, <3>1, <3>2
  <2>7. /\ \A p, q \in A : p # q => p.id # q.id
        /\ \A r \in A : IsPairing(r) => r.lease = NoLease
    BY <2>2 DEF RowsDistinct, PairingNeverLeased
  <2> HIDE DEF A, n
  <2>8. Quotas(K \cup {n})
    <3>1. \A R \in SUBSET Row, x \in Row :
             /\ IsFiniteSet(R) /\ Quotas(R)
             /\ \A p, q \in R : p # q => p.id # q.id
             /\ \A r \in R : IsPairing(r) => r.lease = NoLease
             /\ x.env = e /\ x \notin R
             => \A Z \in Made(R, e) : Quotas(Z \cup {x})
      BY InsertQuotas
    <3>2. QED
      BY <2>3, <2>4, <2>5, <2>6, <2>7, <3>1
  <2>9. QED
    BY <2>1, <2>8
<1>6. CASE ~ \E e \in Envelopes, d \in Lags : StoreInsert(e, d)
  <2>1. Lessens(rows', rows)
    BY <1>6, QuietQuotas
  <2>2. \A R, Q \in SUBSET Row : IsFiniteSet(R) /\ Lessens(Q, R) /\ Quotas(R) => Quotas(Q)
    BY QuotasLessen
  <2>3. Quotas(rows')
    BY <1>1, <1>2, <1>3, <2>1, <2>2
  <2>4. QED
    BY <1>4, <2>3
<1>7. QED
  BY <1>4, <1>5, <1>6

(* store_from's promises about space hold at all times, for any quotas,     *)
(* envelopes and addresses: its three eviction loops together leave room in *)
(* every quota the new row counts against, whatever is leased meanwhile,    *)
(* and no other operation makes a table larger.                             *)
THEOREM QuotasAlwaysHold == Spec => []QuotasHold
<1>1. Init => QuotasHold
  <2>1. Init => rows = {}
    BY DEF Init
  <2>2. Bytes({}) = 0
    <3>1. {} \in SUBSET Row /\ IsFiniteSet({}) /\ \A x \in {} : Weight[x] \in Nat
      BY FS_EmptySet
    <3>2. QED
      BY <3>1, BytesTotal, TotalType
  <2>3. Cardinality({}) = 0
    BY FS_EmptySet
  <2>4. \A m, e : InMailbox({}, m) = {} /\ Pairings({}, m) = {} /\ FromSource({}, e) = {}
    BY DEF InMailbox, Pairings, FromSource
  <2>5. Quotas({})
    BY <2>2, <2>3, <2>4, LimitsType DEF Quotas
  <2>6. QED
    BY <2>1, <2>5, QuotasOfRows
<1>2. IInv /\ IInv' /\ [Next]_vars /\ QuotasHold => QuotasHold'
  BY StepQuotas
<1>3. QED
  BY <1>1, <1>2, Invariance, PTL DEF Spec

=============================================================================
