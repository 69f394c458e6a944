------------------------ MODULE OsvAcquisition_proof ------------------------
(***************************************************************************)
(* Proofs about OsvAcquisition, for every number of catalog generations,   *)
(* items, bodies, listings, invocations and activation requests and every  *)
(* bound on starts and faults.                                             *)
(*                                                                         *)
(* The inductive invariant says what the tables hold for an invocation at  *)
(* each of its steps (AtItem), what the levels it counts stand for         *)
(* (LevelsOK), that the items awaiting a review are ahead of it or known   *)
(* to be quarantined (Reviewed), and how old its copy of the generation    *)
(* may be (Begun).  Because the tables only grow (Grows), what one         *)
(* invocation relies on survives the steps of the others.                  *)
(***************************************************************************)
EXTENDS OsvAcquisition, FiniteSetTheorems, FunctionTheorems, SequenceTheorems, TLAPS

\* The steps at which the row of the item names the body in memory.
BodyPcs == {"recover", "probe", "probeTemp", "put", "copy", "finalize", "adopt", "delete",
            "read", "inspect", "parse", "document", "record", "revise", "member"}
\* Of these, the ones after the attachment.
AttachedPcs == {"delete", "read", "inspect", "parse", "document", "record", "revise", "member"}
\* The steps that work on the first item of the plan.
ItemPcs == BodyPcs \cup {"retrieve", "retrieved", "quarantine"}

\* The number of an attempt: no success is recorded before it.
Numbered(n, s) == n \in 1 .. Len(s) + 1 /\ \A k \in 1 .. (n - 1) : s[k] # "succeeded"
Succeeded(s) == \E k \in DOMAIN s : s[k] = "succeeded"

\* What the tables hold for an invocation at work on item i.
AtItem(m, i) ==
    /\ m.pc # "quarantine" => i \in Eligible
    /\ m.pc = "retrieved" => m.body \in Bodies
    /\ m.pc \in BodyPcs => row[i].state # "absent" /\ row[i].body = m.body
    /\ m.pc \in {"finalize", "adopt"} => m.body \in final
    /\ m.pc \in AttachedPcs => row[i].state = "attached"
    /\ m.pc \in {"record", "revise"} => document
    /\ m.pc \in {"parse", "document", "record"} /\ ~m.resumed =>
         Numbered(m.n, attempts[<<m.cat, i>>])
    /\ m.pc = "revise" \/ (m.pc \in {"parse", "document"} /\ m.resumed) =>
         Succeeded(attempts[<<m.cat, i>>])
    /\ m.pc = "member" => <<m.cat, i>> \in revision

\* The generation of an invocation exists; its copy of it is an older one or
\* the present one.
Begun(m) ==
    /\ m.cat \in Catalogs /\ m.listing \in Listings /\ gen[m.cat].state # "absent"
    /\ m.pc # "begun" => /\ m.copy.version <= gen[m.cat].version
                         /\ m.copy.version = gen[m.cat].version => m.copy = gen[m.cat]

\* The levels count eligible items; the last one stands for rows in the database.
LevelsOK(m) ==
    \A i \in Items : /\ m.level[i] >= Attached => i \in Eligible
                     /\ m.level[i] = Member => <<m.cat, i>> \in member \cap revision

\* Unless the plan was cancelled, an item to review is still ahead or quarantined.
Reviewed(m) ==
    ~m.cancelled => \A i \in Range(m.listing) \cap Review : i \in Range(m.list) \cup m.bad

MemoryOK(m) ==
    m.pc # "off" =>
      /\ Begun(m)
      /\ m.resumed => m.pc \in {"parse", "document", "revise", "member", "quarantine"}
      /\ m.pc \in ItemPcs => m.list # <<>> /\ AtItem(m, Head(m.list))
      /\ m.pc = "reconcile" => m.list = <<>>
      /\ LevelsOK(m)
      /\ Reviewed(m)

RowsOK == \A i \in Items : row[i].state # "absent" =>
                              row[i].owner \in Catalogs /\ row[i].body \in Bodies

\* Attempts are recorded for the snapshot of the generation that wrote the row.
AttemptsOwned == \A p \in Pairs : attempts[p] # <<>> =>
                    row[p[2]].owner = p[1] /\ row[p[2]].state # "absent"

\* The types of the tables: TypeOK without the memories.
Tables ==
    /\ gen \in [Catalogs -> [state : Lifecycle, version : Nat]]
    /\ \A c \in Catalogs : (gen[c].state = "absent") <=> (gen[c].version = 0)
    /\ row \in [Items -> [owner : Catalogs \cup {None}, body : Bodies \cup {None},
                          state : {"absent", "staged", "attached", "rejected"}]]
    /\ temp \subseteq Pairs /\ final \subseteq Bodies /\ document \in BOOLEAN
    /\ attempts \in [Pairs -> Seq(Results)]
    /\ revision \subseteq Pairs /\ member \subseteq Pairs
    /\ listed \subseteq Pairs /\ quarantine \subseteq Pairs
    /\ recon \in [Catalogs -> SUBSET Items]
    /\ pointer \in [cat : Catalogs \cup {None}, version : Nat]
    /\ asked \in [Requests -> [cat : Catalogs \cup {None}, version : Nat]]
    /\ history \subseteq Requests
    /\ starts \in 0 .. MaxStarts /\ faults \in 0 .. MaxFaults

\* What the tables hold whatever the invocations do.
StoreOK ==
    /\ RowsOK
    /\ AttemptsOwned
    /\ AttachedIsStored
    /\ SuccessIsLast
    /\ RevisionIsBacked
    /\ ReadyIsWhole

\* The inductive invariant.
AcquisitionInv == TypeOK /\ StoreOK /\ \A v \in Invocations : MemoryOK(inv[v])

\* The published generation was frozen: another conjunct of the invariant, which
\* only activation needs.
PublishedIsFrozen == pointer.cat \in Catalogs => gen[pointer.cat].state \in Frozen

-----------------------------------------------------------------------------
(* Sequences, and the records an invocation starts from.                   *)

LEMMA SeqFacts ==
    ASSUME NEW S, NEW s \in Seq(S)
    PROVE  /\ Len(s) \in Nat /\ DOMAIN s = 1 .. Len(s) /\ Range(s) \subseteq S
           /\ \A k \in 1 .. Len(s) : s[k] \in S
           /\ s # <<>> => /\ Head(s) \in S /\ Tail(s) \in Seq(S) /\ Head(s) = s[1]
                          /\ Range(s) \subseteq {Head(s)} \cup Range(Tail(s))
<1>1. Len(s) \in Nat /\ DOMAIN s = 1 .. Len(s) /\ \A k \in 1 .. Len(s) : s[k] \in S
      OBVIOUS
<1>2. Range(s) \subseteq S
      BY <1>1 DEF Range
<1>3. ASSUME s # <<>>
      PROVE  /\ Head(s) \in S /\ Tail(s) \in Seq(S) /\ Head(s) = s[1]
             /\ Range(s) \subseteq {Head(s)} \cup Range(Tail(s))
  <2>1. /\ Head(s) \in S /\ Tail(s) \in Seq(S) /\ Head(s) = s[1] /\ Len(s) > 0
        /\ DOMAIN Tail(s) = 1 .. (Len(s) - 1)
        /\ \A k \in 1 .. (Len(s) - 1) : Tail(s)[k] = s[k + 1]
        BY <1>1, <1>3
  <2>2. ASSUME NEW k \in 1 .. Len(s) PROVE s[k] \in {Head(s)} \cup Range(Tail(s))
    <3>1. CASE k = 1
          BY <2>1, <3>1
    <3>2. CASE k # 1
      <4>1. (k - 1) \in 1 .. (Len(s) - 1) /\ k = (k - 1) + 1
            BY <1>1, <3>2
      <4>2. s[k] = Tail(s)[k - 1] /\ (k - 1) \in DOMAIN Tail(s)
            BY <2>1, <4>1
      <4> QED BY <4>2 DEF Range
    <3> QED BY <3>1, <3>2
  <2> QED BY <1>1, <2>1, <2>2 DEF Range
<1> QED BY <1>1, <1>2, <1>3

LEMMA EmptyRange == Range(<<>>) = {}
BY DEF Range

\* What an attempt appended to the sequence leaves true.
LEMMA Appended ==
    ASSUME NEW s \in Seq(Results), NEW r \in Results, NEW t, t = Append(s, r)
    PROVE  /\ t \in Seq(Results) /\ Len(t) = Len(s) + 1 /\ DOMAIN t = 1 .. Len(s) + 1
           /\ \A k \in 1 .. Len(s) : t[k] = s[k]
           /\ t[Len(s) + 1] = r
           /\ Succeeded(s) => Succeeded(t)
           /\ \A n \in Nat : Numbered(n, s) => Numbered(n, t)
<1>1. /\ t \in Seq(Results) /\ Len(t) = Len(s) + 1 /\ DOMAIN t = 1 .. Len(s) + 1
      /\ \A k \in 1 .. Len(s) : t[k] = s[k]
      /\ t[Len(s) + 1] = r /\ Len(s) \in Nat /\ DOMAIN s = 1 .. Len(s)
      OBVIOUS
<1>2. Succeeded(s) => Succeeded(t)
      BY <1>1 DEF Succeeded
<1>3. \A n \in Nat : Numbered(n, s) => Numbered(n, t)
      BY <1>1 DEF Numbered
<1> QED BY <1>1, <1>2, <1>3

Generations == [state : Lifecycle, version : Nat]
Rows == [owner : Catalogs \cup {None}, body : Bodies \cup {None},
         state : {"absent", "staged", "attached", "rejected"}]

LEMMA ModelValues ==
    /\ AbsentGeneration \in Generations
    /\ AbsentGeneration.state = "absent" /\ AbsentGeneration.version = 0
    /\ AbsentRow \in Rows /\ AbsentRow.state = "absent"
    /\ Idle \in Memory /\ Idle.pc = "off"
    /\ Attached = 1 /\ Member = 4 /\ Parsed = 2 /\ Revised = 3
<1>1. AbsentGeneration \in Generations /\ AbsentRow \in Rows
      BY DEF AbsentGeneration, AbsentRow, Generations, Rows, Lifecycle
<1>2. <<>> \in Seq(Items) /\ [i \in Items |-> 0] \in [Items -> 0 .. Member]
      BY DEF Member
<1>3. Idle \in Memory
      BY <1>1, <1>2 DEF Idle, Memory, Generations, Rows
<1> QED BY <1>1, <1>3 DEF AbsentGeneration, AbsentRow, Idle, Attached, Member, Parsed, Revised

-----------------------------------------------------------------------------
(* The tables only grow.                                                   *)

RowsGrow ==
    \A i \in Items : /\ row[i].state # "absent" => /\ row'[i].state # "absent"
                                                   /\ row'[i].owner = row[i].owner
                                                   /\ row'[i].body = row[i].body
                     /\ row[i].state = "attached" => row'[i].state = "attached"

AttemptsGrow ==
    \A p \in Pairs : \/ attempts'[p] = attempts[p]
                     \/ \E r \in Results : attempts'[p] = Append(attempts[p], r)

GenerationsMove ==
    \A c \in Catalogs : /\ gen[c].version <= gen'[c].version
                        /\ gen[c].version = gen'[c].version => gen'[c] = gen[c]

Grows == /\ RowsGrow /\ AttemptsGrow /\ GenerationsMove
         /\ final \subseteq final' /\ (document => document')
         /\ revision \subseteq revision' /\ member \subseteq member'

LEMMA UnchangedGrows ==
    ASSUME TypeOK
    PROVE  /\ row' = row => RowsGrow
           /\ attempts' = attempts => AttemptsGrow
           /\ gen' = gen => GenerationsMove
BY DEF TypeOK, RowsGrow, AttemptsGrow, GenerationsMove

LEMMA BegunKept ==
    ASSUME Tables, Tables', Grows, NEW m \in Memory, Begun(m)
    PROVE  Begun(m)'
<1>1. m.cat \in Catalogs
      BY DEF Begun
<1>2. PICK g \in Generations : g = gen[m.cat]
      BY <1>1 DEF Tables, Generations
<1>3. PICK h \in Generations : h = gen'[m.cat]
      BY <1>1 DEF Tables, Generations
<1>4. /\ g.version <= h.version /\ (g.version = h.version => h = g)
      /\ g.state = "absent" <=> g.version = 0 
      /\ h.state = "absent" <=> h.version = 0
      BY <1>1, <1>2, <1>3 DEF Grows, GenerationsMove, Tables
<1>5. m.copy.version \in Nat /\ g.version \in Nat /\ h.version \in Nat
      BY DEF Memory, Generations
<1>6. g.state # "absent"
      BY <1>2 DEF Begun
<1>7. m.pc # "begun" => m.copy.version <= g.version /\ (m.copy.version = g.version => m.copy = g)
      BY <1>2 DEF Begun
<1>8. h.state # "absent"
      BY <1>4, <1>5, <1>6
<1>9. m.pc # "begun" => m.copy.version <= h.version /\ (m.copy.version = h.version => m.copy = h)
      BY <1>4, <1>5, <1>7
<1>10. m.listing \in Listings
       BY DEF Begun
<1> QED BY <1>1, <1>3, <1>8, <1>9, <1>10 DEF Begun

LEMMA AtItemKept ==
    ASSUME Tables, Tables', Grows, NEW m \in Memory, NEW i \in Items, m.cat \in Catalogs,
           AtItem(m, i)
    PROVE  AtItem(m, i)'
<1>1. PICK p \in Pairs : p = <<m.cat, i>>
      BY DEF Pairs
<1>2. PICK s \in Seq(Results) : s = attempts[p]
      BY <1>1 DEF Tables
<1>3. PICK t \in Seq(Results) : t = attempts'[p]
      BY <1>1 DEF Tables
<1>4. /\ Succeeded(s) => Succeeded(t)
      /\ \A n \in Nat : Numbered(n, s) => Numbered(n, t)
  <2>1. CASE t = s
        BY <2>1
  <2>2. CASE t # s
    <3>1. PICK r \in Results : t = Append(s, r)
          BY <1>1, <1>2, <1>3, <2>2 DEF Grows, AttemptsGrow
    <3> QED BY <3>1, Appended
  <2> QED BY <2>1, <2>2
<1>5. m.n \in Nat
      BY DEF Memory
<1>6. /\ m.pc \in {"parse", "document", "record"} /\ ~m.resumed => Numbered(m.n, t)
      /\ m.pc = "revise" \/ (m.pc \in {"parse", "document"} /\ m.resumed) => Succeeded(t)
      BY <1>1, <1>2, <1>4, <1>5 DEF AtItem
<1>7. /\ m.pc \in BodyPcs => row'[i].state # "absent" /\ row'[i].body = m.body
      /\ m.pc \in AttachedPcs => row'[i].state = "attached"
      BY DEF AtItem, Grows, RowsGrow
<1>8. /\ m.pc # "quarantine" => i \in Eligible
      /\ m.pc = "retrieved" => m.body \in Bodies
      /\ m.pc \in {"finalize", "adopt"} => m.body \in final'
      /\ m.pc \in {"record", "revise"} => document'
      /\ m.pc = "member" => <<m.cat, i>> \in revision'
      BY DEF AtItem, Grows
<1> QED BY <1>1, <1>3, <1>6, <1>7, <1>8 DEF AtItem

LEMMA MemoryKept ==
    ASSUME Tables, Tables', Grows, NEW m \in Memory, MemoryOK(m)
    PROVE  MemoryOK(m)'
<1> SUFFICES ASSUME m.pc # "off" PROVE MemoryOK(m)'
    BY DEF MemoryOK
<1>1. Begun(m)' /\ m.cat \in Catalogs
      BY BegunKept DEF MemoryOK, Begun
<1>2. m.pc \in ItemPcs => m.list # <<>> /\ AtItem(m, Head(m.list))'
  <2> SUFFICES ASSUME m.pc \in ItemPcs PROVE m.list # <<>> /\ AtItem(m, Head(m.list))'
      OBVIOUS
  <2>1. m.list # <<>> /\ m.list \in Seq(Items) /\ AtItem(m, Head(m.list))
        BY DEF MemoryOK, Memory
  <2>2. PICK i \in Items : i = Head(m.list)
        BY <2>1, SeqFacts
  <2> QED BY <1>1, <2>1, <2>2, AtItemKept
<1>3. m.pc = "reconcile" => m.list = <<>>
      BY DEF MemoryOK
<1>4. LevelsOK(m)'
      BY DEF MemoryOK, LevelsOK, Grows
<1>5. Reviewed(m)'
      BY DEF MemoryOK, Reviewed
<1> QED BY <1>1, <1>2, <1>3, <1>4, <1>5 DEF MemoryOK

-----------------------------------------------------------------------------
(* Steps of one invocation.                                                *)

LEMMA TypesOfTables ==
    /\ TypeOK <=> Tables /\ inv \in [Invocations -> Memory]
    /\ TypeOK' <=> Tables' /\ inv' \in [Invocations -> Memory]
BY DEF TypeOK, Tables

\* An invocation comes to where it may be: before the step, or after it.
MovesWell(v) == \E d \in Memory : inv' = [inv EXCEPT ![v] = d] /\ MemoryOK(d)
LandsWell(v) == \E d \in Memory : inv' = [inv EXCEPT ![v] = d] /\ MemoryOK(d)'

LEMMA InvocationLands ==
    ASSUME AcquisitionInv, NEW v \in Invocations, LandsWell(v), Tables', Grows, StoreOK'
    PROVE  AcquisitionInv'
<1>1. PICK d \in Memory : inv' = [inv EXCEPT ![v] = d] /\ MemoryOK(d)'
      BY DEF LandsWell
<1>2. Tables /\ inv \in [Invocations -> Memory]
      BY TypesOfTables DEF AcquisitionInv
<1>3. ASSUME NEW w \in Invocations PROVE MemoryOK(inv[w])'
  <2>1. CASE w = v
    <3>1. inv'[w] = d
          BY <1>1, <1>2, <2>1
    <3> QED BY <1>1, <3>1
  <2>2. CASE w # v
    <3>1. PICK m \in Memory : m = inv[w] /\ inv'[w] = m
          BY <1>1, <1>2, <2>2
    <3>2. MemoryOK(m)
          BY <3>1 DEF AcquisitionInv
    <3>3. MemoryOK(m)'
          BY <1>2, <3>2, MemoryKept
    <3> QED BY <3>1, <3>3
  <2> QED BY <2>1, <2>2
<1>4. inv' \in [Invocations -> Memory]
      BY <1>1, <1>2
<1> QED BY <1>3, <1>4, TypesOfTables DEF AcquisitionInv

LEMMA WellLands ==
    ASSUME AcquisitionInv, NEW v \in Invocations, MovesWell(v), Tables', Grows
    PROVE  LandsWell(v)
<1>1. PICK d \in Memory : inv' = [inv EXCEPT ![v] = d] /\ MemoryOK(d)
      BY DEF MovesWell
<1>2. MemoryOK(d)'
      BY <1>1, MemoryKept, TypesOfTables DEF AcquisitionInv
<1> QED BY <1>1, <1>2 DEF LandsWell

\* A step that writes neither rows, attempts, revisions nor reconciliations
\* and freezes no generation.
LEMMA StoreKept ==
    ASSUME Tables, StoreOK, Tables', Grows, UNCHANGED <<row, attempts, revision, recon>>,
           \A c \in Catalogs : gen'[c].state \in Frozen => gen[c].state \in Frozen
    PROVE  StoreOK'
<1>1. RowsOK' /\ AttemptsOwned' /\ AttachedIsStored' /\ SuccessIsLast'
      BY DEF StoreOK, RowsOK, AttemptsOwned, AttachedIsStored, SuccessIsLast, Grows
<1>2. RevisionIsBacked'
      BY DEF StoreOK, RevisionIsBacked, Grows
<1>3. ReadyIsWhole'
      BY DEF StoreOK, ReadyIsWhole, Grows
<1> QED BY <1>1, <1>2, <1>3 DEF StoreOK

\* A step that writes to object storage, the memberships, the inventory or the
\* quarantine, if anywhere.
LEMMA PlainGrows ==
    ASSUME AcquisitionInv,
           UNCHANGED <<gen, row, attempts, revision, recon, pointer, asked, history>>,
           temp' \subseteq Pairs, final \subseteq final', final' \subseteq Bodies,
           document' \in BOOLEAN, document => document',
           member \subseteq member', member' \subseteq Pairs,
           listed' \subseteq Pairs, quarantine' \subseteq Pairs,
           starts' \in 0 .. MaxStarts, faults' \in 0 .. MaxFaults
    PROVE  Tables' /\ Grows /\ StoreOK'
<1>1. Tables'
      BY TypesOfTables DEF AcquisitionInv, Tables
<1>2. Grows
      BY UnchangedGrows DEF AcquisitionInv, Grows
<1>3. StoreOK'
  <2>1. Tables /\ StoreOK /\ UNCHANGED <<row, attempts, revision, recon, gen>>
        BY TypesOfTables DEF AcquisitionInv
  <2> QED BY <1>1, <1>2, <2>1, StoreKept
<1> QED BY <1>1, <1>2, <1>3

tables == <<gen, row, storage, parsed, records, activation>>

LEMMA TablesKept ==
    ASSUME AcquisitionInv, UNCHANGED tables, starts' \in 0 .. MaxStarts,
           faults' \in 0 .. MaxFaults
    PROVE  Tables' /\ Grows /\ StoreOK'
<1>1. /\ UNCHANGED <<gen, row, attempts, revision, recon, pointer, asked, history>>
      /\ UNCHANGED <<temp, final, document, member, listed, quarantine>>
      BY DEF tables, storage, parsed, records, activation
<1>2. /\ temp' \subseteq Pairs /\ final' \subseteq Bodies /\ document' \in BOOLEAN
      /\ member' \subseteq Pairs /\ listed' \subseteq Pairs /\ quarantine' \subseteq Pairs
      BY <1>1 DEF AcquisitionInv, TypeOK
<1> QED BY <1>1, <1>2, PlainGrows

\* A step of an invocation that writes to its memory only.
LEMMA MemoryMoves ==
    ASSUME AcquisitionInv, NEW v \in Invocations, MovesWell(v), UNCHANGED tables,
           starts' \in 0 .. MaxStarts, faults' \in 0 .. MaxFaults
    PROVE  AcquisitionInv'
<1>1. Tables' /\ Grows /\ StoreOK'
      BY TablesKept
<1>2. LandsWell(v)
      BY <1>1, WellLands
<1> QED BY <1>1, <1>2, InvocationLands

\* What the invariant says of an invocation that was started.
LEMMA AtWork ==
    ASSUME AcquisitionInv, NEW v \in Invocations, inv[v].pc # "off"
    PROVE  /\ inv[v] \in Memory /\ MemoryOK(inv[v]) /\ Begun(inv[v]) /\ Cat(v) \in Catalogs
           /\ Cat(v) = inv[v].cat /\ inv[v].list \in Seq(Items)
           /\ inv[v].list # <<>> => /\ Item(v) \in Items /\ Item(v) = Head(inv[v].list)
                                    /\ Own(v) \in Pairs /\ Own(v) = <<inv[v].cat, Item(v)>>
                                    /\ row[Item(v)] \in Rows
<1>1. inv[v] \in Memory /\ MemoryOK(inv[v])
      BY DEF AcquisitionInv, TypeOK
<1>2. Begun(inv[v]) /\ Cat(v) \in Catalogs /\ Cat(v) = inv[v].cat /\ inv[v].list \in Seq(Items)
      BY <1>1 DEF MemoryOK, Begun, Cat, Memory
<1>3. ASSUME inv[v].list # <<>>
      PROVE  /\ Item(v) \in Items /\ Item(v) = Head(inv[v].list)
             /\ Own(v) \in Pairs /\ Own(v) = <<inv[v].cat, Item(v)>> /\ row[Item(v)] \in Rows
  <2>1. Item(v) \in Items /\ Item(v) = Head(inv[v].list)
        BY <1>2, <1>3, SeqFacts DEF Item
  <2> QED BY <1>2, <2>1 DEF Own, Pairs, AcquisitionInv, TypeOK, Rows
<1> QED BY <1>1, <1>2, <1>3

LEMMA AtItemWork ==
    ASSUME AcquisitionInv, NEW v \in Invocations, inv[v].pc \in ItemPcs
    PROVE  /\ inv[v].pc # "off" /\ inv[v].list # <<>> /\ AtItem(inv[v], Item(v))
           /\ inv[v].pc # "quarantine" => Item(v) \in Eligible
<1>1. inv[v].pc # "off"
      BY DEF ItemPcs, BodyPcs
<1>2. inv[v].list # <<>> /\ AtItem(inv[v], Item(v))
      BY <1>1, AtWork DEF MemoryOK
<1> QED BY <1>1, <1>2 DEF AtItem

-----------------------------------------------------------------------------
(* What the helpers make of the memory of an invocation.                   *)

ResumedPcs == {"parse", "document", "revise", "member", "quarantine"}

\* Two memories of the same plan, at the same item.
SamePlan(d, m) ==
    /\ d.cat = m.cat /\ d.listing = m.listing /\ d.list = m.list /\ d.copy = m.copy
    /\ d.level = m.level /\ d.bad = m.bad /\ d.cancelled = m.cancelled

LEMMA SamePlanOK ==
    ASSUME NEW m \in Memory, MemoryOK(m), m.pc \notin {"off", "begun"},
           NEW d \in Memory, SamePlan(d, m), d.pc \in ItemPcs, d.list # <<>>,
           d.resumed => d.pc \in ResumedPcs, AtItem(d, Head(d.list))
    PROVE  MemoryOK(d)
<1>1. Begun(d) /\ LevelsOK(d) /\ Reviewed(d)
      BY DEF SamePlan, MemoryOK, Begun, LevelsOK, Reviewed
<1>2. d.pc # "reconcile"
      BY DEF ItemPcs, BodyPcs
<1> QED BY <1>1, <1>2 DEF MemoryOK, ResumedPcs

LEMMA SamePlanNext ==
    ASSUME NEW m \in Memory, MemoryOK(m)', m.pc \notin {"off", "begun"},
           NEW d \in Memory, SamePlan(d, m), d.pc \in ItemPcs, d.list # <<>>,
           d.resumed => d.pc \in ResumedPcs, AtItem(d, Head(d.list))'
    PROVE  MemoryOK(d)'
<1>1. Begun(d)' /\ LevelsOK(d)' /\ Reviewed(d)'
      BY DEF SamePlan, MemoryOK, Begun, LevelsOK, Reviewed
<1>2. d.pc # "reconcile"
      BY DEF ItemPcs, BodyPcs
<1> QED BY <1>1, <1>2 DEF MemoryOK, ResumedPcs

\* Goto moves the program counter.
LEMMA GotoFields ==
    ASSUME NEW m \in Memory, NEW p \in ItemPcs \cup {"item", "reconcile"},
           NEW d, d = [m EXCEPT !.pc = p]
    PROVE  /\ d \in Memory /\ d.pc = p /\ SamePlan(d, m)
           /\ d.body = m.body /\ d.n = m.n /\ d.resumed = m.resumed /\ d.via = m.via
           /\ d.seen = m.seen /\ d.aborted = m.aborted
BY ZenonT(60) DEF Memory, ItemPcs, BodyPcs, SamePlan

LEMMA GotoIs ==
    ASSUME AcquisitionInv, NEW v \in Invocations, NEW p, Goto(v, p)
    PROVE  inv' = [inv EXCEPT ![v] = [inv[v] EXCEPT !.pc = p]]
BY DEF Goto, AcquisitionInv, TypeOK

\* A move from a step of an item to another one that the tables permit.
LEMMA GotoWell ==
    ASSUME AcquisitionInv, NEW v \in Invocations, inv[v].pc \in ItemPcs \cup {"item"},
           inv[v].list # <<>>, NEW p \in ItemPcs, Goto(v, p),
           inv[v].resumed => p \in ResumedPcs,
           \A d \in Memory : /\ d.pc = p /\ d.cat = Cat(v) /\ d.body = inv[v].body
                             /\ d.n = inv[v].n /\ d.resumed = inv[v].resumed
                             => AtItem(d, Item(v))
    PROVE  MovesWell(v)
<1>1. inv[v].pc \notin {"off", "begun"}
      BY DEF ItemPcs, BodyPcs
<1>2. PICK m \in Memory : m = inv[v] /\ MemoryOK(m)
      BY <1>1, AtWork
<1>3. PICK d : d = [m EXCEPT !.pc = p]
      OBVIOUS
<1>4. /\ d \in Memory /\ d.pc = p /\ SamePlan(d, m)
      /\ d.body = m.body /\ d.n = m.n /\ d.resumed = m.resumed
      BY <1>3, GotoFields
<1>5. d.cat = Cat(v) /\ d.list = inv[v].list /\ Item(v) = Head(d.list)
      BY <1>1, <1>2, <1>4, AtWork DEF SamePlan
<1>6. AtItem(d, Head(d.list))
      BY <1>2, <1>4, <1>5
<1>7. MemoryOK(d)
      BY <1>1, <1>2, <1>4, <1>5, <1>6, SamePlanOK
<1>8. inv' = [inv EXCEPT ![v] = d]
      BY <1>2, <1>3, GotoIs
<1> QED BY <1>4, <1>7, <1>8 DEF MovesWell

\* EndedIn goes on with the next item.
EndedMemory(m, k, quarantined) ==
    [m EXCEPT !.pc = "item", !.list = Tail(m.list), !.level[Head(m.list)] = k,
              !.bad = m.bad \cup quarantined, !.n = 0, !.resumed = FALSE, !.body = None,
              !.seen = AbsentRow, !.via = "attach"]

LEMMA EndedFields ==
    ASSUME NEW m \in Memory, m.list # <<>>, NEW k \in 0 .. Member, NEW q \in SUBSET Items,
           NEW d, d = EndedMemory(m, k, q)
    PROVE  /\ d \in Memory /\ d.pc = "item" /\ d.list = Tail(m.list)
           /\ d.level = [m.level EXCEPT ![Head(m.list)] = k] /\ d.bad = m.bad \cup q
           /\ d.cat = m.cat /\ d.listing = m.listing /\ d.copy = m.copy
           /\ d.cancelled = m.cancelled /\ ~d.resumed
<1>1. m.list \in Seq(Items) /\ m.level \in [Items -> 0 .. Member] /\ m.bad \subseteq Items
      BY DEF Memory
<1>2. Tail(m.list) \in Seq(Items)
      BY <1>1, SeqFacts
<1>3. /\ [m.level EXCEPT ![Head(m.list)] = k] \in [Items -> 0 .. Member]
      /\ m.bad \cup q \in SUBSET Items
      BY <1>1
<1>4. AbsentRow \in Rows
      BY ModelValues
<1>5. d = [m EXCEPT !.pc = "item", !.list = Tail(m.list),
                    !.level = [m.level EXCEPT ![Head(m.list)] = k],
                    !.bad = m.bad \cup q, !.n = 0, !.resumed = FALSE, !.body = None,
                    !.seen = AbsentRow, !.via = "attach"]
      BY DEF EndedMemory, Memory
<1>6. PICK l \in Seq(Items) : l = Tail(m.list)
      BY <1>2
<1>7. PICK f \in [Items -> 0 .. Member] : f = [m.level EXCEPT ![Head(m.list)] = k]
      BY <1>3
<1>8. PICK b \in SUBSET Items : b = m.bad \cup q
      BY <1>3
<1>9. d = [m EXCEPT !.pc = "item", !.list = l, !.level = f, !.bad = b, !.n = 0,
                    !.resumed = FALSE, !.body = None, !.seen = AbsentRow, !.via = "attach"]
      BY <1>5, <1>6, <1>7, <1>8
<1>10. d \in Memory
  <2>1. PICK r \in [owner : Catalogs \cup {None}, body : Bodies \cup {None},
                    state : {"absent", "staged", "attached", "rejected"}] : r = AbsentRow
        BY <1>4 DEF Rows
  <2>2. PICK e : e = [m EXCEPT !.pc = "item", !.list = l, !.level = f, !.bad = b]
        OBVIOUS
  <2>3. e \in Memory
        BY <2>2 DEF Memory
  <2>4. d = [e EXCEPT !.n = 0, !.resumed = FALSE, !.body = None, !.seen = r, !.via = "attach"]
        BY <1>9, <2>1, <2>2 DEF Memory
  <2>5. [e EXCEPT !.n = 0, !.resumed = FALSE, !.via = "attach"] \in Memory
        BY <2>3, ZenonT(60) DEF Memory
  <2>6. PICK g \in Memory : g = [e EXCEPT !.n = 0, !.resumed = FALSE, !.via = "attach"]
        BY <2>5
  <2>7. d = [g EXCEPT !.body = None, !.seen = r]
        BY <2>3, <2>4, <2>6 DEF Memory
  <2> QED BY <2>7, ZenonT(60) DEF Memory
<1>11. /\ d.pc = "item" /\ d.list = l /\ d.level = f /\ d.bad = b /\ d.cat = m.cat
       /\ d.listing = m.listing /\ d.copy = m.copy /\ d.cancelled = m.cancelled /\ ~d.resumed
       BY <1>9 DEF Memory
<1> QED BY <1>6, <1>7, <1>8, <1>10, <1>11

\* Where an item ended, with a level its rows account for.
LEMMA EndedOK ==
    ASSUME NEW m \in Memory, MemoryOK(m), m.pc \notin {"off", "begun"}, m.list # <<>>,
           NEW k \in 0 .. Revised, NEW q \in SUBSET Items,
           Head(m.list) \in Eligible \/ k = 0, Head(m.list) \in Review => Head(m.list) \in q,
           NEW d, d = EndedMemory(m, k, q)
    PROVE  d \in Memory /\ MemoryOK(d)
<1>1. k \in 0 .. Member /\ k # Member
      BY ModelValues
<1>2. /\ d \in Memory /\ d.pc = "item" /\ d.list = Tail(m.list)
      /\ d.level = [m.level EXCEPT ![Head(m.list)] = k] /\ d.bad = m.bad \cup q
      /\ d.cat = m.cat /\ d.listing = m.listing /\ d.copy = m.copy
      /\ d.cancelled = m.cancelled /\ ~d.resumed
      BY <1>1, EndedFields
<1>3. Begun(m) /\ LevelsOK(m) /\ Reviewed(m)
      BY DEF MemoryOK
<1>4. Begun(d)
      BY <1>2, <1>3 DEF Begun
<1>5. LevelsOK(d)
  <2>1. m.level \in [Items -> 0 .. Member]
        BY DEF Memory
  <2> QED BY <1>1, <1>2, <1>3, <2>1, ModelValues DEF LevelsOK
<1>6. Reviewed(d)
  <2>1. Range(m.list) \subseteq {Head(m.list)} \cup Range(d.list)
        BY <1>2, SeqFacts DEF Memory
  <2> QED BY <1>2, <1>3, <2>1 DEF Reviewed
<1> QED BY <1>2, <1>4, <1>5, <1>6 DEF MemoryOK, ItemPcs, BodyPcs

LEMMA EndedWell ==
    ASSUME AcquisitionInv, NEW v \in Invocations, inv[v].pc \notin {"off", "begun"},
           inv[v].list # <<>>, NEW k \in 0 .. Revised, NEW q \in SUBSET Items,
           Item(v) \in Eligible \/ k = 0, Item(v) \in Review => Item(v) \in q,
           EndedIn(v, k, q)
    PROVE  MovesWell(v)
<1>1. PICK m \in Memory : m = inv[v] /\ MemoryOK(m)
      BY AtWork
<1>2. Item(v) = Head(m.list)
      BY <1>1 DEF Item
<1>3. PICK d : d = EndedMemory(m, k, q)
      OBVIOUS
<1>4. d \in Memory /\ MemoryOK(d)
      BY <1>1, <1>2, <1>3, EndedOK
<1>5. inv' = [inv EXCEPT ![v] = d]
  <2>1. inv \in [Invocations -> Memory] /\ inv[v] = m
        BY <1>1 DEF AcquisitionInv, TypeOK
  <2> QED BY <1>2, <1>3, <2>1 DEF EndedIn, EndedMemory
<1> QED BY <1>4, <1>5 DEF MovesWell

\* An eligible item ends anywhere below membership.
LEMMA EndsWell ==
    ASSUME AcquisitionInv, NEW v \in Invocations, inv[v].pc \in ItemPcs \ {"quarantine"},
           NEW k \in 0 .. Revised, Ended(v, k)
    PROVE  MovesWell(v)
<1>1. /\ inv[v].pc \notin {"off", "begun"} /\ inv[v].list # <<>> /\ Item(v) \in Eligible
      /\ inv[v].pc # "quarantine"
      BY AtItemWork DEF ItemPcs, BodyPcs
<1>2. Item(v) \notin Review /\ {} \in SUBSET Items
      BY <1>1, SetsAssumption
<1>3. EndedIn(v, k, {})
      BY DEF Ended
<1> QED BY <1>1, <1>2, <1>3, EndedWell

\* A cancelled plan.
LEMMA CancelsWell ==
    ASSUME AcquisitionInv, NEW v \in Invocations, inv[v].pc \notin {"off", "begun"},
           ~inv[v].resumed, Cancelled(v)
    PROVE  MovesWell(v)
<1>1. PICK m \in Memory : m = inv[v] /\ MemoryOK(m)
      BY AtWork
<1>2. PICK d : d = [m EXCEPT !.pc = "item", !.list = <<>>, !.cancelled = TRUE]
      OBVIOUS
<1>0. <<>> \in Seq(Items)
      OBVIOUS
<1>3. PICK e \in Seq(Items) : e = <<>>
      BY <1>0
<1>4. /\ d \in Memory /\ d.pc = "item" /\ d.cancelled /\ d.level = m.level /\ ~d.resumed
      /\ d.cat = m.cat /\ d.listing = m.listing /\ d.copy = m.copy
  <2>1. d \in Memory
        BY <1>2, <1>3 DEF Memory
  <2> QED BY <1>1, <1>2, <2>1 DEF Memory
<1>5. Begun(d) /\ LevelsOK(d) /\ Reviewed(d)
      BY <1>1, <1>4 DEF MemoryOK, Begun, LevelsOK, Reviewed
<1>6. MemoryOK(d)
      BY <1>4, <1>5 DEF MemoryOK, ItemPcs, BodyPcs
<1>7. inv' = [inv EXCEPT ![v] = d]
  <2>1. inv \in [Invocations -> Memory] /\ inv[v] = m
        BY <1>1 DEF AcquisitionInv, TypeOK
  <2> QED BY <1>2, <2>1 DEF Cancelled, Memory
<1> QED BY <1>4, <1>6, <1>7 DEF MovesWell

LEMMA IdleWell ==
    ASSUME NEW v \in Invocations, inv' = [inv EXCEPT ![v] = Idle]
    PROVE  MovesWell(v)
BY ModelValues DEF MovesWell, MemoryOK

LEMMA BoundsKept ==
    ASSUME AcquisitionInv, UNCHANGED bounds \/ Fault
    PROVE  starts' \in 0 .. MaxStarts /\ faults' \in 0 .. MaxFaults
BY BoundsAssumption DEF AcquisitionInv, TypeOK, bounds, Fault

\* The same for a step whose own writes the new place rests on.
LEMMA GotoLands ==
    ASSUME AcquisitionInv, Tables', Grows, NEW v \in Invocations,
           inv[v].pc \in ItemPcs \cup {"item"}, inv[v].list # <<>>,
           NEW p \in ItemPcs, Goto(v, p), inv[v].resumed => p \in ResumedPcs,
           NEW i \in Items, i = Item(v), NEW c \in Catalogs, c = Cat(v),
           NEW b, b = inv[v].body, NEW n, n = inv[v].n, NEW re, re = inv[v].resumed,
           \A d \in Memory : d.pc = p /\ d.cat = c /\ d.body = b /\ d.n = n /\ d.resumed = re
                             => AtItem(d, i)'
    PROVE  LandsWell(v)
<1>1. inv[v].pc \notin {"off", "begun"}
      BY DEF ItemPcs, BodyPcs
<1>2. PICK m \in Memory : m = inv[v] /\ MemoryOK(m)
      BY <1>1, AtWork
<1>3. PICK d : d = [m EXCEPT !.pc = p]
      OBVIOUS
<1>4. /\ d \in Memory /\ d.pc = p /\ SamePlan(d, m)
      /\ d.body = m.body /\ d.n = m.n /\ d.resumed = m.resumed
      BY <1>3, GotoFields
<1>5. d.cat = c /\ d.list = m.list /\ i = Head(d.list) /\ d.list # <<>>
      BY <1>1, <1>2, <1>4, AtWork DEF SamePlan
<1>6. d.body = b /\ d.n = n /\ d.resumed = re
      BY <1>2, <1>4
<1>7. AtItem(d, i)'
      BY <1>4, <1>5, <1>6
<1>8. AtItem(d, Head(d.list))'
      BY <1>5, <1>7
<1>9. MemoryOK(m)'
      BY <1>2, MemoryKept, TypesOfTables DEF AcquisitionInv
<1>10. m.pc \notin {"off", "begun"} /\ (d.resumed => d.pc \in ResumedPcs)
       BY <1>1, <1>2, <1>4
<1>11. MemoryOK(d)'
       BY <1>4, <1>5, <1>8, <1>9, <1>10, SamePlanNext
<1>12. inv' = [inv EXCEPT ![v] = d]
       BY <1>2, <1>3, GotoIs
<1> QED BY <1>4, <1>11, <1>12 DEF LandsWell

\* The steps at which nothing rests on the tables yet, but the item is eligible.
LEMMA RetrieveWell ==
    ASSUME AcquisitionInv, NEW v \in Invocations, inv[v].pc \in ItemPcs \ {"quarantine"},
           ~inv[v].resumed, NEW b \in Bodies \cup {None},
           NEW p \in {"retrieve", "retrieved"}, p = "retrieved" => b \in Bodies,
           inv' = [inv EXCEPT ![v] = [inv[v] EXCEPT !.pc = p, !.via = "attach", !.body = b]]
    PROVE  MovesWell(v)
<1>1. /\ inv[v].pc \notin {"off", "begun"} /\ inv[v].list # <<>> /\ Item(v) \in Eligible
      /\ Item(v) = Head(inv[v].list)
      BY AtItemWork DEF ItemPcs, BodyPcs, Item
<1>2. PICK m \in Memory : m = inv[v] /\ MemoryOK(m)
      BY <1>1, AtWork
<1>3. PICK d : d = [m EXCEPT !.pc = p, !.via = "attach", !.body = b]
      OBVIOUS
<1>4. d \in Memory
      BY <1>3 DEF Memory
<1>5. d.pc = p /\ SamePlan(d, m) /\ ~d.resumed /\ d.body = b
      BY <1>2, <1>3 DEF Memory, SamePlan
<1>6. AtItem(d, Head(d.list)) /\ d.list # <<>> /\ d.pc \in ItemPcs
  <2>1. d.list = m.list
        BY <1>5 DEF SamePlan
  <2>2. Head(d.list) \in Eligible /\ d.list # <<>>
        BY <1>1, <1>2, <2>1
  <2> QED BY <1>5, <2>2 DEF AtItem, ItemPcs, BodyPcs, AttachedPcs
<1>7. MemoryOK(d)
  <2>1. m.pc \notin {"off", "begun"} /\ (d.resumed => d.pc \in ResumedPcs)
        BY <1>1, <1>2, <1>5
  <2> QED BY <1>2, <1>4, <1>5, <1>6, <2>1, SamePlanOK
<1> QED BY <1>2, <1>3, <1>4, <1>7 DEF MovesWell

LEMMA QuarantineWell ==
    ASSUME AcquisitionInv, NEW v \in Invocations, inv[v].pc \in ItemPcs \cup {"item"},
           inv[v].list # <<>>, Goto(v, "quarantine")
    PROVE  MovesWell(v)
<1>1. "quarantine" \in ItemPcs /\ "quarantine" \in ResumedPcs
      BY DEF ItemPcs, ResumedPcs
<1>2. ASSUME NEW d \in Memory, d.pc = "quarantine" PROVE AtItem(d, Item(v))
      BY <1>2 DEF AtItem, BodyPcs, AttachedPcs
<1> QED BY <1>1, <1>2, GotoWell

AttachPcs == {"recover", "probe", "probeTemp", "put", "copy", "finalize", "adopt"}

LEMMA NotAttachedWell ==
    ASSUME AcquisitionInv, NEW v \in Invocations, inv[v].pc \in AttachPcs, NotAttached(v)
    PROVE  MovesWell(v)
<1>1. inv[v].pc \in ItemPcs \ {"quarantine"} /\ inv[v].pc \notin ResumedPcs /\ inv[v].pc # "off"
      BY DEF AttachPcs, ItemPcs, BodyPcs, ResumedPcs
<1>2. inv[v] \in Memory /\ ~inv[v].resumed
      BY <1>1, AtWork DEF MemoryOK, ResumedPcs
<1>3. CASE inv[v].via = "attach"
  <2>1. Ended(v, 0) /\ 0 \in 0 .. Revised
        BY <1>3, ModelValues DEF NotAttached
  <2> QED BY <1>1, <2>1, EndsWell
<1>4. CASE inv[v].via # "attach"
  <2>1. inv' = [inv EXCEPT ![v] = [inv[v] EXCEPT !.pc = "retrieve", !.via = "attach",
                                                 !.body = inv[v].body]]
    <3>1. inv' = [inv EXCEPT ![v].pc = "retrieve", ![v].via = "attach"]
          BY <1>4 DEF NotAttached
    <3>2. inv \in [Invocations -> Memory]
          BY DEF AcquisitionInv, TypeOK
    <3> QED BY <1>2, <3>1, <3>2 DEF Memory
  <2>2. inv[v].body \in Bodies \cup {None}
        BY <1>2 DEF Memory
  <2> QED BY <1>1, <1>2, <2>1, <2>2, RetrieveWell
<1> QED BY <1>3, <1>4

\* The body is attached: it is read again, inspected, or the plan is cancelled.
LEMMA HasBodyLands ==
    ASSUME AcquisitionInv, Tables', Grows, NEW v \in Invocations,
           inv[v].pc \in {"delete", "adopt"}, row'[Item(v)].state = "attached", HasBody(v)
    PROVE  LandsWell(v)
<1>1. /\ inv[v].pc \in ItemPcs /\ inv[v].pc \notin ResumedPcs /\ inv[v].pc \in BodyPcs
      /\ inv[v].pc \notin {"off", "begun"}
      BY DEF ItemPcs, BodyPcs, ResumedPcs
<1>2. ~inv[v].resumed
      BY <1>1, AtWork DEF MemoryOK, ResumedPcs
<1>3. inv[v].list # <<>> /\ AtItem(inv[v], Item(v)) /\ Item(v) \in Items /\ Cat(v) \in Catalogs
      BY <1>1, AtItemWork, AtWork
<1>4. ASSUME NEW p \in {"read", "inspect"}, Goto(v, p) PROVE LandsWell(v)
  <2>1. p \in ItemPcs
        BY DEF ItemPcs, BodyPcs
  <2>2. PICK i \in Items : i = Item(v)
        BY <1>3
  <2>3. PICK c \in Catalogs : c = Cat(v)
        BY <1>3
  <2>4. PICK b : b = inv[v].body
        OBVIOUS
  <2>5. PICK n : n = inv[v].n
        OBVIOUS
  <2>6. PICK re : re = inv[v].resumed
        OBVIOUS
  <2>7. /\ i \in Eligible /\ row'[i].state = "attached" /\ row'[i].body = b
        BY <1>1, <1>3, <2>2, <2>4 DEF AtItem, Grows, RowsGrow
  <2>8. ASSUME NEW d \in Memory, d.pc = p, d.body = b PROVE AtItem(d, i)'
        BY <2>7, <2>8 DEF AtItem, BodyPcs, AttachedPcs
  <2>9. \A d \in Memory : d.pc = p /\ d.cat = c /\ d.body = b /\ d.n = n /\ d.resumed = re
                          => AtItem(d, i)'
        BY <2>8
  <2> QED BY <1>1, <1>2, <1>3, <1>4, <2>1, <2>2, <2>3, <2>4, <2>5, <2>6, <2>9, GotoLands
<1>5. CASE inv[v].via = "recover"
      BY <1>4, <1>5 DEF HasBody
<1>6. CASE inv[v].via # "recover" /\ inv[v].aborted
  <2>1. Cancelled(v)
        BY <1>6 DEF HasBody
  <2> QED BY <1>1, <1>2, <2>1, CancelsWell, WellLands
<1>7. CASE inv[v].via # "recover" /\ ~inv[v].aborted
      BY <1>4, <1>7 DEF HasBody
<1> QED BY <1>5, <1>6, <1>7

-----------------------------------------------------------------------------
(* processItem: classification and the body.                               *)

\* The frame of the steps that write to the memory of an invocation only.
LEMMA OnlyMemory ==
    ASSUME UNCHANGED <<gen, row, storage, parsed, records, activation>>
    PROVE  UNCHANGED tables
BY DEF tables

LEMMA SkipSteps ==
    ASSUME AcquisitionInv, NEW v \in Invocations, StopItems(v) \/ SkipItem(v) \/ CancelItem(v)
    PROVE  AcquisitionInv'
<1>1. UNCHANGED tables /\ UNCHANGED bounds
      BY OnlyMemory DEF StopItems, SkipItem, CancelItem
<1>2. inv[v].pc \in {"item", "retrieve", "retrieved"} /\ inv[v].pc \notin {"off", "begun"}
      BY DEF StopItems, SkipItem, CancelItem, Working, At
<1>3. ~inv[v].resumed
      BY <1>2, AtWork DEF MemoryOK
<1>4. CASE Cancelled(v)
      BY <1>1, <1>2, <1>3, <1>4, CancelsWell, BoundsKept, MemoryMoves
<1>5. CASE SkipItem(v)
  <2>1. inv[v].pc = "item" /\ inv[v].list # <<>>
        BY <1>5 DEF SkipItem, Working, At
  <2>2. CASE Item(v) \in Review /\ Goto(v, "quarantine")
        BY <1>1, <2>1, <2>2, QuarantineWell, BoundsKept, MemoryMoves
  <2>3. CASE Item(v) \notin Eligible \cup Review /\ Ended(v, 0)
    <3>1. EndedIn(v, 0, {}) /\ {} \in SUBSET Items /\ 0 \in 0 .. Revised /\ Item(v) \notin Review
          BY <2>3, ModelValues DEF Ended
    <3>2. MovesWell(v)
          BY <1>2, <2>1, <3>1, EndedWell
    <3> QED BY <1>1, <3>2, BoundsKept, MemoryMoves
  <2> QED BY <1>5, <2>2, <2>3 DEF SkipItem
<1> QED BY <1>4, <1>5 DEF StopItems, CancelItem

LEMMA LoadStep ==
    ASSUME AcquisitionInv, NEW v \in Invocations, loadByGeneration(v)
    PROVE  AcquisitionInv'
<1>1. /\ UNCHANGED tables /\ UNCHANGED bounds /\ inv[v].pc = "item" /\ inv[v].list # <<>>
      /\ Item(v) \in Eligible
      BY OnlyMemory DEF loadByGeneration, Working, At
<1>2. PICK m \in Memory : m = inv[v] /\ MemoryOK(m)
      BY <1>1, AtWork
<1>3. PICK i \in Items : i = Item(v) /\ i = Head(m.list)
      BY <1>1, <1>2, AtWork
<1>4. PICK r \in Rows : r = row[i]
      BY <1>1, <1>3, AtWork
<1>5. PICK p \in {"read", "recover", "retrieve"} :
         p = CASE r.state = "attached" -> "read" [] r.state = "staged" -> "recover"
               [] OTHER -> "retrieve"
      OBVIOUS
<1>6. PICK d : d = [m EXCEPT !.seen = r, !.body = r.body, !.pc = p]
      OBVIOUS
<1>7. d \in Memory
  <2>1. r.body \in Bodies \cup {None}
        BY DEF Rows
  <2> QED BY <1>6, <2>1, ZenonT(60) DEF Memory, Rows
<1>8. d.pc = p /\ d.body = r.body /\ SamePlan(d, m) /\ d.resumed = m.resumed
      BY <1>6 DEF Memory, SamePlan
<1>9. ~m.resumed
      BY <1>1, <1>2 DEF MemoryOK
<1>10. AtItem(d, i)
       BY <1>1, <1>3, <1>4, <1>5, <1>8 DEF AtItem, BodyPcs, AttachedPcs
<1>11. MemoryOK(d)
  <2>1. d.list = m.list /\ m.pc \notin {"off", "begun"} /\ d.list # <<>> /\ i = Head(d.list)
        BY <1>1, <1>2, <1>3, <1>8 DEF SamePlan
  <2>2. d.pc \in ItemPcs
        BY <1>8 DEF ItemPcs, BodyPcs
  <2> QED BY <1>2, <1>7, <1>8, <1>9, <1>10, <2>1, <2>2, SamePlanOK
<1>12. inv' = [inv EXCEPT ![v] = d]
  <2>1. inv \in [Invocations -> Memory]
        BY DEF AcquisitionInv, TypeOK
  <2>2. inv' = [inv EXCEPT ![v].seen = r, ![v].body = r.body, ![v].pc = p]
        BY <1>3, <1>4, <1>5 DEF loadByGeneration
  <2> QED BY <1>2, <1>6, <2>1, <2>2 DEF Memory
<1>13. MovesWell(v)
       BY <1>7, <1>11, <1>12 DEF MovesWell
<1> QED BY <1>1, <1>13, BoundsKept, MemoryMoves

LEMMA RecoverStep ==
    ASSUME AcquisitionInv, NEW v \in Invocations, recoverProviderBody(v)
    PROVE  AcquisitionInv'
<1>1. UNCHANGED tables /\ UNCHANGED bounds /\ inv[v].pc = "recover"
      BY OnlyMemory DEF recoverProviderBody, At
<1>2. /\ inv[v].list # <<>> /\ inv[v].pc # "off" /\ Item(v) \in Eligible
      /\ AtItem(inv[v], Item(v))
      BY <1>1, AtItemWork DEF ItemPcs, BodyPcs
<1>3. PICK m \in Memory : m = inv[v] /\ MemoryOK(m)
      BY <1>2, AtWork
<1>4. PICK i \in Items : i = Item(v) /\ i = Head(m.list)
      BY <1>2, <1>3, AtWork
<1>5. PICK p \in {"read", "probe", "retrieve"} :
         p = CASE row[i].state = "attached" -> "read" [] row[i].state = "staged" -> "probe"
               [] OTHER -> "retrieve"
      OBVIOUS
<1>6. PICK a \in {"attach", "recover"} : a = IF row[i].state = "staged" THEN "recover" ELSE "attach"
      OBVIOUS
<1>7. PICK d : d = [m EXCEPT !.via = a, !.pc = p]
      OBVIOUS
<1>8. d \in Memory
      BY <1>7 DEF Memory
<1>9. d.pc = p /\ d.body = m.body /\ SamePlan(d, m) /\ d.resumed = m.resumed
      BY <1>7 DEF Memory, SamePlan
<1>10. ~m.resumed
       BY <1>1, <1>3 DEF MemoryOK
<1>11. AtItem(d, i)
  <2>1. row[i].body = m.body /\ row[i].state # "absent" /\ i \in Eligible
        BY <1>1, <1>2, <1>3, <1>4 DEF AtItem, BodyPcs
  <2> QED BY <1>5, <1>9, <2>1 DEF AtItem, BodyPcs, AttachedPcs
<1>12. MemoryOK(d)
  <2>1. d.list = m.list /\ m.pc \notin {"off", "begun"} /\ d.list # <<>> /\ i = Head(d.list)
        BY <1>1, <1>2, <1>3, <1>4, <1>9 DEF SamePlan
  <2>2. d.pc \in ItemPcs
        BY <1>9 DEF ItemPcs, BodyPcs
  <2> QED BY <1>3, <1>8, <1>9, <1>10, <1>11, <2>1, <2>2, SamePlanOK
<1>13. inv' = [inv EXCEPT ![v] = d]
  <2>1. inv \in [Invocations -> Memory]
        BY DEF AcquisitionInv, TypeOK
  <2>2. inv' = [inv EXCEPT ![v].via = a, ![v].pc = p]
        BY <1>4, <1>5, <1>6 DEF recoverProviderBody
  <2> QED BY <1>3, <1>7, <2>1, <2>2 DEF Memory
<1>14. MovesWell(v)
       BY <1>8, <1>12, <1>13 DEF MovesWell
<1> QED BY <1>1, <1>14, BoundsKept, MemoryMoves

LEMMA RetrieveSteps ==
    ASSUME AcquisitionInv, NEW v \in Invocations,
           retrieveGenerationBoundObject(v) \/ RetrievalFails(v)
    PROVE  AcquisitionInv'
<1>1. UNCHANGED tables /\ inv[v].pc = "retrieve"
      BY OnlyMemory DEF retrieveGenerationBoundObject, RetrievalFails, At
<1>2. /\ inv[v].list # <<>> /\ inv[v].pc # "off" /\ inv[v].pc \in ItemPcs \ {"quarantine"}
      BY <1>1, AtItemWork DEF ItemPcs, BodyPcs
<1>3. inv[v] \in Memory /\ ~inv[v].resumed
      BY <1>1, <1>2, AtWork DEF MemoryOK
<1>4. CASE retrieveGenerationBoundObject(v)
  <2>1. PICK b \in Bodies :
          /\ IF b = BodyOf[Item(v)] THEN UNCHANGED bounds ELSE Fault
          /\ inv' = [inv EXCEPT ![v].body = b, ![v].pc = "retrieved", ![v].via = "attach"]
        BY <1>4 DEF retrieveGenerationBoundObject
  <2>2. inv' = [inv EXCEPT ![v] = [inv[v] EXCEPT !.pc = "retrieved", !.via = "attach", !.body = b]]
    <3>1. inv \in [Invocations -> Memory]
          BY DEF AcquisitionInv, TypeOK
    <3> QED BY <1>3, <2>1, <3>1 DEF Memory
  <2>3. MovesWell(v)
        BY <1>2, <1>3, <2>2, RetrieveWell
  <2>4. UNCHANGED bounds \/ Fault
        BY <2>1
  <2> QED BY <1>1, <2>3, <2>4, BoundsKept, MemoryMoves
<1>5. CASE RetrievalFails(v)
  <2>1. Fault
        BY <1>5 DEF RetrievalFails
  <2>2. CASE Ended(v, 0)
    <3>1. 0 \in 0 .. Revised
          BY ModelValues
    <3> QED BY <1>1, <1>2, <2>1, <2>2, <3>1, EndsWell, BoundsKept, MemoryMoves
  <2>3. CASE Goto(v, "quarantine")
        BY <1>1, <1>2, <2>1, <2>3, QuarantineWell, BoundsKept, MemoryMoves
  <2> QED BY <1>5, <2>2, <2>3 DEF RetrievalFails
<1> QED BY <1>4, <1>5

-----------------------------------------------------------------------------
(* attachProviderBody and recoverProviderBody.                             *)

LEMMA ProbeSteps ==
    ASSUME AcquisitionInv, NEW v \in Invocations, probeFinal(v) \/ probeTemporary(v)
    PROVE  AcquisitionInv'
<1>1. /\ UNCHANGED tables /\ UNCHANGED bounds
      /\ inv[v].pc \in {"probe", "probeTemp"}
      BY OnlyMemory DEF probeFinal, probeTemporary, At
<1>2. /\ inv[v].pc \in ItemPcs /\ inv[v].pc \in AttachPcs /\ inv[v].pc # "off"
      /\ inv[v].pc \in BodyPcs /\ inv[v].pc \notin ResumedPcs
      BY <1>1 DEF ItemPcs, BodyPcs, AttachPcs, ResumedPcs
<1>3. inv[v].list # <<>> /\ AtItem(inv[v], Item(v)) /\ ~inv[v].resumed
      BY <1>2, AtItemWork, AtWork DEF MemoryOK, ResumedPcs
<1>4. /\ row[Item(v)].state # "absent" /\ row[Item(v)].body = inv[v].body /\ Item(v) \in Eligible
      BY <1>1, <1>2, <1>3 DEF AtItem
<1>5. ASSUME NEW p \in {"adopt", "put", "probeTemp", "copy"}, p = "adopt" => Found(v), Goto(v, p)
      PROVE  AcquisitionInv'
  <2>1. p \in ItemPcs
        BY DEF ItemPcs, BodyPcs
  <2>2. ASSUME NEW d \in Memory, d.pc = p, d.body = inv[v].body PROVE AtItem(d, Item(v))
        BY <1>4, <1>5, <2>2 DEF AtItem, BodyPcs, AttachedPcs, Found
  <2>3. MovesWell(v)
        BY <1>2, <1>3, <1>5, <2>1, <2>2, GotoWell
  <2> QED BY <1>1, <2>3, BoundsKept, MemoryMoves
<1>6. CASE probeFinal(v)
  <2>1. CASE Found(v)
        BY <1>5, <1>6, <2>1 DEF probeFinal
  <2>2. CASE ~Found(v) /\ inv[v].via = "attach"
        BY <1>5, <1>6, <2>2 DEF probeFinal
  <2>3. CASE ~Found(v) /\ inv[v].via # "attach"
        BY <1>5, <1>6, <2>3 DEF probeFinal
  <2> QED BY <2>1, <2>2, <2>3
<1>7. CASE probeTemporary(v)
  <2>1. CASE Slot(v) \in temp
        BY <1>5, <1>7, <2>1 DEF probeTemporary
  <2>2. CASE Slot(v) \notin temp
    <3>1. NotAttached(v)
          BY <1>7, <2>2 DEF probeTemporary
    <3> QED BY <1>1, <1>2, <3>1, NotAttachedWell, BoundsKept, MemoryMoves
  <2> QED BY <2>1, <2>2
<1> QED BY <1>6, <1>7

LEMMA PutStep ==
    ASSUME AcquisitionInv, NEW v \in Invocations, writeOnceAndVerify(v)
    PROVE  AcquisitionInv'
<1>1. /\ inv[v].pc = "put" /\ Goto(v, "copy") /\ temp' = temp \cup {Own(v)} /\ UNCHANGED bounds
      /\ UNCHANGED <<gen, row, attempts, revision, recon, pointer, asked, history>>
      /\ UNCHANGED <<final, document, member, listed, quarantine>>
      BY DEF writeOnceAndVerify, At, parsed, records, activation
<1>2. inv[v].pc \in ItemPcs /\ inv[v].pc # "off" /\ "copy" \in ItemPcs
      BY <1>1 DEF ItemPcs, BodyPcs
<1>3. inv[v].list # <<>> /\ AtItem(inv[v], Item(v)) /\ ~inv[v].resumed /\ Own(v) \in Pairs
      BY <1>1, <1>2, AtItemWork, AtWork DEF MemoryOK
<1>4. ASSUME NEW d \in Memory, d.pc = "copy", d.body = inv[v].body PROVE AtItem(d, Item(v))
      BY <1>1, <1>3, <1>4 DEF AtItem, BodyPcs, AttachedPcs
<1>5. MovesWell(v)
      BY <1>1, <1>2, <1>3, <1>4, GotoWell
<1>6. /\ temp' \subseteq Pairs /\ final' \subseteq Bodies /\ document' \in BOOLEAN
      /\ member' \subseteq Pairs /\ listed' \subseteq Pairs /\ quarantine' \subseteq Pairs
      BY <1>1, <1>3 DEF AcquisitionInv, TypeOK
<1>7. Tables' /\ Grows /\ StoreOK'
      BY <1>1, <1>6, BoundsKept, PlainGrows
<1> QED BY <1>5, <1>7, WellLands, InvocationLands

LEMMA CopyStep ==
    ASSUME AcquisitionInv, NEW v \in Invocations, promoteAndVerify(v)
    PROVE  AcquisitionInv'
<1>1. /\ inv[v].pc = "copy" /\ UNCHANGED bounds
      /\ UNCHANGED <<gen, row, attempts, revision, recon, pointer, asked, history>>
      /\ UNCHANGED <<temp, document, member, listed, quarantine>>
      BY DEF promoteAndVerify, At, parsed, records, activation
<1>2. inv[v].pc \in ItemPcs /\ inv[v].pc # "off" /\ "finalize" \in ItemPcs /\ inv[v].pc \in AttachPcs
      BY <1>1 DEF ItemPcs, BodyPcs, AttachPcs
<1>3. /\ inv[v].list # <<>> /\ AtItem(inv[v], Item(v)) /\ ~inv[v].resumed
      /\ Item(v) \in Items /\ Cat(v) \in Catalogs
      BY <1>1, <1>2, AtItemWork, AtWork DEF MemoryOK
<1>4. /\ row[Item(v)].state # "absent" /\ row[Item(v)].body = inv[v].body /\ Item(v) \in Eligible
      BY <1>1, <1>3 DEF AtItem, BodyPcs
<1>5. inv[v].body \in Bodies
      BY <1>3, <1>4 DEF AcquisitionInv, StoreOK, RowsOK
<1>6. CASE final' = final \cup {inv[v].body} /\ Goto(v, "finalize")
  <2>1. /\ temp' \subseteq Pairs /\ final' \subseteq Bodies /\ document' \in BOOLEAN
        /\ member' \subseteq Pairs /\ listed' \subseteq Pairs /\ quarantine' \subseteq Pairs
        BY <1>1, <1>5, <1>6 DEF AcquisitionInv, TypeOK
  <2>2. Tables' /\ Grows /\ StoreOK'
        BY <1>1, <1>6, <2>1, BoundsKept, PlainGrows
  <2>3. PICK i \in Items : i = Item(v)
        BY <1>3
  <2>4. PICK c \in Catalogs : c = Cat(v)
        BY <1>3
  <2>5. PICK b : b = inv[v].body
        OBVIOUS
  <2>6. PICK n : n = inv[v].n
        OBVIOUS
  <2>7. PICK re : re = inv[v].resumed
        OBVIOUS
  <2>8. i \in Eligible /\ row'[i].state # "absent" /\ row'[i].body = b /\ b \in final'
        BY <1>1, <1>4, <1>6, <2>3, <2>5
  <2>9. ASSUME NEW d \in Memory, d.pc = "finalize", d.body = b PROVE AtItem(d, i)'
        BY <2>8, <2>9 DEF AtItem, BodyPcs, AttachedPcs
  <2>10. \A d \in Memory : /\ d.pc = "finalize" /\ d.cat = c /\ d.body = b /\ d.n = n
                           /\ d.resumed = re
                           => AtItem(d, i)'
         BY <2>9
  <2>11. LandsWell(v)
         BY <1>2, <1>3, <1>6, <2>2, <2>3, <2>4, <2>5, <2>6, <2>7, <2>10, GotoLands
  <2> QED BY <2>2, <2>11, InvocationLands
<1>7. CASE NotAttached(v) /\ UNCHANGED final
  <2>1. UNCHANGED tables
        BY <1>1, <1>7 DEF tables, storage, parsed, records, activation
  <2> QED BY <1>1, <1>2, <1>7, <2>1, NotAttachedWell, BoundsKept, MemoryMoves
<1> QED BY <1>6, <1>7 DEF promoteAndVerify

LEMMA DeleteStep ==
    ASSUME AcquisitionInv, NEW v \in Invocations, deleteTemporary(v)
    PROVE  AcquisitionInv'
<1>1. /\ inv[v].pc = "delete" /\ HasBody(v) /\ temp' \subseteq temp /\ UNCHANGED bounds
      /\ UNCHANGED <<gen, row, attempts, revision, recon, pointer, asked, history>>
      /\ UNCHANGED <<final, document, member, listed, quarantine>>
      BY DEF deleteTemporary, At, parsed, records, activation
<1>2. row[Item(v)].state = "attached"
      BY <1>1, AtItemWork DEF AtItem, ItemPcs, BodyPcs, AttachedPcs
<1>3. /\ temp' \subseteq Pairs /\ final' \subseteq Bodies /\ document' \in BOOLEAN
      /\ member' \subseteq Pairs /\ listed' \subseteq Pairs /\ quarantine' \subseteq Pairs
      BY <1>1 DEF AcquisitionInv, TypeOK
<1>4. Tables' /\ Grows /\ StoreOK'
      BY <1>1, <1>3, BoundsKept, PlainGrows
<1>5. row'[Item(v)].state = "attached"
      BY <1>1, <1>2
<1>6. LandsWell(v)
      BY <1>1, <1>4, <1>5, HasBodyLands
<1> QED BY <1>4, <1>6, InvocationLands

LEMMA MismatchStep ==
    ASSUME AcquisitionInv, NEW v \in Invocations, ByteCountMismatch(v)
    PROVE  AcquisitionInv'
<1>1. UNCHANGED tables /\ Fault /\ inv[v].pc = "read" /\ Goto(v, "quarantine")
      BY OnlyMemory DEF ByteCountMismatch, At
<1>2. inv[v].pc \in ItemPcs
      BY <1>1 DEF ItemPcs, BodyPcs
<1>3. MovesWell(v)
      BY <1>1, <1>2, AtItemWork, QuarantineWell
<1> QED BY <1>1, <1>3, BoundsKept, MemoryMoves

LEMMA ReadStep ==
    ASSUME AcquisitionInv, NEW v \in Invocations, readAttachedAdvisoryBody(v)
    PROVE  AcquisitionInv'
<1>1. UNCHANGED tables /\ UNCHANGED bounds /\ inv[v].pc = "read"
      BY OnlyMemory DEF readAttachedAdvisoryBody, At
<1>2. inv[v].pc \in ItemPcs \ {"quarantine"} /\ inv[v].pc # "off" /\ "inspect" \in ItemPcs
      BY <1>1 DEF ItemPcs, BodyPcs
<1>3. inv[v].list # <<>> /\ AtItem(inv[v], Item(v)) /\ ~inv[v].resumed
      BY <1>1, <1>2, AtItemWork, AtWork DEF MemoryOK
<1>4. CASE Goto(v, "inspect")
  <2>1. ASSUME NEW d \in Memory, d.pc = "inspect", d.body = inv[v].body PROVE AtItem(d, Item(v))
        BY <1>1, <1>3, <2>1 DEF AtItem, BodyPcs, AttachedPcs
  <2>2. MovesWell(v)
        BY <1>2, <1>3, <1>4, <2>1, GotoWell
  <2> QED BY <1>1, <2>2, BoundsKept, MemoryMoves
<1>5. CASE Ended(v, Attached)
  <2>1. Attached \in 0 .. Revised
        BY ModelValues
  <2> QED BY <1>1, <1>2, <1>5, <2>1, EndsWell, BoundsKept, MemoryMoves
<1> QED BY <1>4, <1>5 DEF readAttachedAdvisoryBody

\* A step that writes one row: a row that is there keeps its owner and its body,
\* an attached one stays attached.
LEMMA RowGrows ==
    ASSUME AcquisitionInv, NEW i \in Items, NEW r \in Rows, row' = [row EXCEPT ![i] = r],
           r.state # "absent", r.owner \in Catalogs, r.body \in Bodies,
           row[i].state # "absent" => r.owner = row[i].owner /\ r.body = row[i].body,
           row[i].state = "attached" => r.state = "attached",
           r.state = "attached" => r.body \in final,
           UNCHANGED <<gen, storage, parsed, records, activation>>,
           starts' \in 0 .. MaxStarts, faults' \in 0 .. MaxFaults
    PROVE  Tables' /\ Grows /\ StoreOK'
<1>1. /\ UNCHANGED <<gen, attempts, revision, recon, pointer, asked, history>>
      /\ UNCHANGED <<temp, final, document, member, listed, quarantine>>
      BY DEF storage, parsed, records, activation
<1>2. TypeOK /\ StoreOK /\ row \in [Items -> Rows]
      BY DEF AcquisitionInv, TypeOK, Rows
<1>3. row' \in [Items -> Rows] /\ \A j \in Items : row'[j] = IF j = i THEN r ELSE row[j]
      BY <1>2
<1>4. Tables'
  <2>1. Tables
        BY <1>2, TypesOfTables
  <2> QED BY <1>1, <1>3, <2>1 DEF Tables, Rows
<1>5. RowsGrow
      BY <1>3 DEF RowsGrow
<1>6. Grows
      BY <1>1, <1>2, <1>5, UnchangedGrows DEF Grows
<1>7. RowsOK' /\ AttachedIsStored' /\ SuccessIsLast'
      BY <1>1, <1>2, <1>3 DEF StoreOK, RowsOK, AttachedIsStored, SuccessIsLast
<1>8. AttemptsOwned'
  <2> SUFFICES ASSUME NEW p \in Pairs, attempts[p] # <<>>
               PROVE  row'[p[2]].owner = p[1] /\ row'[p[2]].state # "absent"
      BY <1>1 DEF AttemptsOwned
  <2>1. row[p[2]].owner = p[1] /\ row[p[2]].state # "absent" /\ p[2] \in Items
        BY <1>2 DEF StoreOK, AttemptsOwned, Pairs
  <2> QED BY <2>1, <1>5 DEF RowsGrow
<1>9. RevisionIsBacked'
  <2> SUFFICES ASSUME NEW p \in revision
               PROVE  /\ row'[p[2]].owner = p[1] /\ row'[p[2]].state = "attached"
                      /\ document' /\ \E k \in DOMAIN attempts'[p] : attempts'[p][k] = "succeeded"
      BY <1>1 DEF RevisionIsBacked
  <2>1. /\ row[p[2]].owner = p[1] /\ row[p[2]].state = "attached" /\ p[2] \in Items
        /\ document /\ \E k \in DOMAIN attempts[p] : attempts[p][k] = "succeeded"
        BY <1>2 DEF StoreOK, RevisionIsBacked, TypeOK, Pairs
  <2> QED BY <1>1, <2>1, <1>5 DEF RowsGrow
<1>10. ReadyIsWhole'
  <2> SUFFICES ASSUME NEW c \in Catalogs, gen[c].state \in Frozen
               PROVE  /\ recon'[c] \cap Review = {}
                      /\ \A j \in recon'[c] \cap Eligible :
                           /\ row'[j].state = "attached" /\ row'[j].body \in final'
                           /\ <<c, j>> \in revision' \cap member'
      BY <1>1 DEF ReadyIsWhole
  <2>1. /\ recon[c] \cap Review = {}
        /\ \A j \in recon[c] \cap Eligible :
             /\ row[j].state = "attached" /\ row[j].body \in final
             /\ <<c, j>> \in revision \cap member
        BY <1>2 DEF StoreOK, ReadyIsWhole
  <2>2. recon[c] \cap Eligible \subseteq Items
        BY SetsAssumption
  <2> QED BY <1>1, <2>1, <2>2, <1>5 DEF RowsGrow
<1> QED BY <1>4, <1>6, <1>7, <1>8, <1>9, <1>10 DEF StoreOK

LEMMA StageStep ==
    ASSUME AcquisitionInv, NEW v \in Invocations, stageSnapshot(v)
    PROVE  AcquisitionInv'
<1>1. /\ inv[v].pc = "retrieved" /\ UNCHANGED bounds
      /\ UNCHANGED <<gen, storage, parsed, records, activation>>
      BY DEF stageSnapshot, At
<1>2. inv[v].pc \in ItemPcs \ {"quarantine"} /\ inv[v].pc # "off"
      /\ "put" \in ItemPcs /\ "probe" \in ItemPcs
      BY <1>1 DEF ItemPcs, BodyPcs
<1>3. /\ inv[v].list # <<>> /\ AtItem(inv[v], Item(v)) /\ ~inv[v].resumed
      /\ Item(v) \in Items /\ Cat(v) \in Catalogs /\ row[Item(v)] \in Rows
      BY <1>1, <1>2, AtItemWork, AtWork DEF MemoryOK
<1>4. inv[v].body \in Bodies /\ Item(v) \in Eligible
      BY <1>1, <1>3 DEF AtItem
<1>5. CASE /\ row[Item(v)].state = "absent"
           /\ row' = [row EXCEPT ![Item(v)] = [owner |-> Cat(v), state |-> "staged",
                                               body |-> inv[v].body]]
           /\ Goto(v, "put")
  <2>1. PICK i \in Items : i = Item(v)
        BY <1>3
  <2>2. PICK c \in Catalogs : c = Cat(v)
        BY <1>3
  <2>3. PICK b \in Bodies : b = inv[v].body
        BY <1>4
  <2>4. PICK n : n = inv[v].n
        OBVIOUS
  <2>5. PICK re : re = inv[v].resumed
        OBVIOUS
  <2>6. PICK r \in Rows : r = [owner |-> c, state |-> "staged", body |-> b]
        BY DEF Rows
  <2>7. row' = [row EXCEPT ![i] = r] /\ r.state = "staged" /\ r.owner = c /\ r.body = b
        BY <1>5, <2>1, <2>2, <2>3, <2>6
  <2>8. row[i].state = "absent"
        BY <1>5, <2>1
  <2>9. Tables' /\ Grows /\ StoreOK'
        BY <1>1, <2>7, <2>8, BoundsKept, RowGrows
  <2>10. row'[i].state = "staged" /\ row'[i].body = b /\ i \in Eligible
         BY <1>4, <2>1, <2>7 DEF AcquisitionInv, TypeOK
  <2>11. ASSUME NEW d \in Memory, d.pc = "put", d.body = b PROVE AtItem(d, i)'
         BY <2>10, <2>11 DEF AtItem, BodyPcs, AttachedPcs
  <2>12. \A d \in Memory : d.pc = "put" /\ d.cat = c /\ d.body = b /\ d.n = n /\ d.resumed = re
                           => AtItem(d, i)'
         BY <2>11
  <2>13. Goto(v, "put")
         BY <1>5
  <2>14. LandsWell(v)
         BY <1>2, <1>3, <2>1, <2>2, <2>3, <2>4, <2>5, <2>9, <2>12, <2>13, GotoLands
  <2> QED BY <2>9, <2>14, InvocationLands
<1>6. ASSUME UNCHANGED row PROVE UNCHANGED tables
      BY <1>1, <1>6 DEF tables
<1>7. CASE /\ row[Item(v)].state \in {"staged", "attached"} /\ UNCHANGED row
           /\ Goto(v, IF row[Item(v)].body = inv[v].body THEN "probe" ELSE "quarantine")
  <2>1. CASE row[Item(v)].body = inv[v].body
    <3>1. ASSUME NEW d \in Memory, d.pc = "probe", d.body = inv[v].body PROVE AtItem(d, Item(v))
          BY <1>4, <1>7, <2>1, <3>1 DEF AtItem, BodyPcs, AttachedPcs
    <3>2. Goto(v, "probe")
          BY <1>7, <2>1
    <3>3. MovesWell(v)
          BY <1>2, <1>3, <3>1, <3>2, GotoWell
    <3> QED BY <1>1, <1>6, <1>7, <3>3, BoundsKept, MemoryMoves
  <2>2. CASE row[Item(v)].body # inv[v].body
        BY <1>1, <1>2, <1>3, <1>6, <1>7, <2>2, QuarantineWell, BoundsKept, MemoryMoves
  <2> QED BY <2>1, <2>2
<1>8. CASE Ended(v, 0) /\ UNCHANGED row
  <2>1. 0 \in 0 .. Revised
        BY ModelValues
  <2> QED BY <1>1, <1>2, <1>6, <1>8, <2>1, EndsWell, BoundsKept, MemoryMoves
<1> QED BY <1>5, <1>7, <1>8 DEF stageSnapshot

LEMMA FinalizeStep ==
    ASSUME AcquisitionInv, NEW v \in Invocations, finalizeAttachment(v)
    PROVE  AcquisitionInv'
<1>1. /\ inv[v].pc \in {"finalize", "adopt"} /\ UNCHANGED bounds
      /\ UNCHANGED <<gen, storage, parsed, records, activation>>
      BY DEF finalizeAttachment, At
<1>2. /\ inv[v].pc \in ItemPcs \ {"quarantine"} /\ inv[v].pc # "off" /\ inv[v].pc \in AttachPcs
      /\ inv[v].pc \in BodyPcs /\ inv[v].pc \notin ResumedPcs /\ "delete" \in ItemPcs
      BY <1>1 DEF ItemPcs, BodyPcs, AttachPcs, ResumedPcs
<1>3. /\ inv[v].list # <<>> /\ AtItem(inv[v], Item(v)) /\ ~inv[v].resumed
      /\ Item(v) \in Items /\ Cat(v) \in Catalogs /\ row[Item(v)] \in Rows
      BY <1>2, AtItemWork, AtWork DEF MemoryOK, ResumedPcs
<1>4. /\ inv[v].body \in final /\ Item(v) \in Eligible
      /\ row[Item(v)].state # "absent" /\ row[Item(v)].body = inv[v].body
      BY <1>1, <1>2, <1>3 DEF AtItem
<1>5. CASE /\ row' = [row EXCEPT ![Item(v)].state = "attached"]
           /\ IF inv[v].pc = "finalize" THEN Goto(v, "delete") ELSE HasBody(v)
  <2>1. PICK i \in Items : i = Item(v)
        BY <1>3
  <2>2. PICK c \in Catalogs : c = Cat(v)
        BY <1>3
  <2>3. PICK b : b = inv[v].body
        OBVIOUS
  <2>4. PICK n : n = inv[v].n
        OBVIOUS
  <2>5. PICK re : re = inv[v].resumed
        OBVIOUS
  <2>6. PICK s \in Rows : s = row[i]
        BY <1>3, <2>1
  <2>7. PICK r : r = [s EXCEPT !.state = "attached"]
        OBVIOUS
  <2>8. r \in Rows /\ r.state = "attached" /\ r.owner = s.owner /\ r.body = s.body
        BY <2>7 DEF Rows
  <2>9. row' = [row EXCEPT ![i] = r]
        BY <1>5, <2>1, <2>6, <2>7
  <2>10. s.owner \in Catalogs /\ s.body \in Bodies /\ s.body \in final /\ s.body = b
         BY <1>4, <2>1, <2>3, <2>6 DEF AcquisitionInv, StoreOK, RowsOK
  <2>11. Tables' /\ Grows /\ StoreOK'
         BY <1>1, <2>6, <2>8, <2>9, <2>10, BoundsKept, RowGrows
  <2>12. row'[i] = r
         BY <2>9 DEF AcquisitionInv, TypeOK
  <2>13. CASE inv[v].pc = "finalize"
    <3>1. ASSUME NEW d \in Memory, d.pc = "delete", d.body = b PROVE AtItem(d, i)'
      <4>1. i \in Eligible /\ row'[i].state = "attached" /\ row'[i].body = b
            BY <1>4, <2>1, <2>8, <2>10, <2>12
      <4> QED BY <3>1, <4>1 DEF AtItem, BodyPcs, AttachedPcs
    <3>2. \A d \in Memory : /\ d.pc = "delete" /\ d.cat = c /\ d.body = b /\ d.n = n
                            /\ d.resumed = re
                            => AtItem(d, i)'
          BY <3>1
    <3>3. Goto(v, "delete")
          BY <1>5, <2>13
    <3>4. LandsWell(v)
          BY <1>2, <1>3, <2>1, <2>2, <2>3, <2>4, <2>5, <2>11, <3>2, <3>3, GotoLands
    <3> QED BY <2>11, <3>4, InvocationLands
  <2>14. CASE inv[v].pc = "adopt"
    <3>1. row'[Item(v)].state = "attached" /\ HasBody(v)
          BY <1>5, <2>1, <2>8, <2>12, <2>14
    <3>2. LandsWell(v)
          BY <2>11, <2>14, <3>1, HasBodyLands
    <3> QED BY <2>11, <3>2, InvocationLands
  <2> QED BY <1>1, <2>13, <2>14
<1>6. CASE NotAttached(v) /\ UNCHANGED row
  <2>1. UNCHANGED tables
        BY <1>1, <1>6 DEF tables
  <2> QED BY <1>1, <1>2, <1>6, <2>1, NotAttachedWell, BoundsKept, MemoryMoves
<1> QED BY <1>5, <1>6 DEF finalizeAttachment

\* markRejected
LEMMA MisreadStep ==
    ASSUME AcquisitionInv, NEW v \in Invocations, Misread(v)
    PROVE  AcquisitionInv'
<1>1. /\ inv[v].pc \in {"probe", "probeTemp", "put", "copy"} /\ Fault
      /\ UNCHANGED <<gen, storage, parsed, records, activation>>
      BY DEF Misread, At
<1>2. inv[v].pc \in ItemPcs /\ inv[v].pc # "off" /\ inv[v].pc \in AttachPcs
      BY <1>1 DEF ItemPcs, BodyPcs, AttachPcs
<1>3. inv[v].list # <<>> /\ Item(v) \in Items /\ row[Item(v)] \in Rows
      BY <1>2, AtItemWork, AtWork
<1>4. MovesWell(v)
  <2>1. CASE inv[v].via = "recover"
        BY <1>2, <2>1, NotAttachedWell DEF Misread
  <2>2. CASE inv[v].via # "recover"
        BY <1>2, <1>3, <2>2, QuarantineWell DEF Misread
  <2> QED BY <2>1, <2>2
<1>5. CASE Rejects(v)
  <2>1. PICK i \in Items : i = Item(v)
        BY <1>3
  <2>2. PICK s \in Rows : s = row[i] /\ s.state = "staged"
        BY <1>3, <1>5, <2>1 DEF Rejects
  <2>3. PICK r : r = [s EXCEPT !.state = "rejected"]
        OBVIOUS
  <2>4. r \in Rows /\ r.state = "rejected" /\ r.owner = s.owner /\ r.body = s.body
        BY <2>3 DEF Rows
  <2>5. row' = [row EXCEPT ![i] = r]
        BY <1>5, <2>1, <2>2, <2>3 DEF Misread
  <2>6. s.owner \in Catalogs /\ s.body \in Bodies
        BY <2>2 DEF AcquisitionInv, StoreOK, RowsOK
  <2>7. Tables' /\ Grows /\ StoreOK'
        BY <1>1, <2>2, <2>4, <2>5, <2>6, BoundsKept, RowGrows
  <2> QED BY <1>4, <2>7, WellLands, InvocationLands
<1>6. CASE ~Rejects(v)
  <2>1. UNCHANGED tables
        BY <1>1, <1>6 DEF tables, Misread
  <2> QED BY <1>1, <1>4, <2>1, BoundsKept, MemoryMoves
<1> QED BY <1>5, <1>6

-----------------------------------------------------------------------------
(* Parser attempts, revision, membership, quarantine.                      *)

LEMMA AttemptGrows ==
    ASSUME AcquisitionInv, NEW v \in Invocations, inv[v].pc \in {"parse", "record"},
           ~inv[v].resumed, NEW r \in Results, attempts' = Recorded(v, r),
           UNCHANGED <<gen, row, storage, revision, member, records, activation>>,
           starts' \in 0 .. MaxStarts, faults' \in 0 .. MaxFaults
    PROVE  Tables' /\ Grows /\ StoreOK'
<1>1. /\ UNCHANGED <<gen, row, revision, recon, pointer, asked, history>>
      /\ UNCHANGED <<temp, final, document, member, listed, quarantine>>
      BY DEF storage, records, activation
<1>2. CASE ~Recordable(v)
  <2>1. UNCHANGED tables
        BY <1>1, <1>2 DEF Recorded, tables, storage, parsed, records, activation
  <2> QED BY <2>1, TablesKept
<1>3. CASE Recordable(v)
  <2>1. inv[v].pc \in ItemPcs /\ inv[v].pc # "off" /\ inv[v].pc \in AttachedPcs
        BY DEF ItemPcs, BodyPcs, AttachedPcs
  <2>2. /\ inv[v].list # <<>> /\ AtItem(inv[v], Item(v))
        /\ Own(v) \in Pairs /\ Own(v) = <<inv[v].cat, Item(v)>> /\ Cat(v) = inv[v].cat
        BY <2>1, AtItemWork, AtWork
  <2>3. PICK o \in Pairs : o = Own(v)
        BY <2>2
  <2>4. TypeOK /\ StoreOK /\ Tables
        BY TypesOfTables DEF AcquisitionInv
  <2>5. PICK s \in Seq(Results) : s = attempts[o]
        BY <2>4 DEF TypeOK
  <2>6. PICK t : t = Append(s, r)
        OBVIOUS
  <2>7. /\ t \in Seq(Results) /\ Len(t) = Len(s) + 1 /\ DOMAIN t = 1 .. Len(s) + 1
        /\ \A k \in 1 .. Len(s) : t[k] = s[k]
        /\ Succeeded(s) => Succeeded(t)
    <3>1. s \in Seq(Results) /\ r \in Results
          OBVIOUS
    <3>2. t \in Seq(Results) /\ Len(t) = Len(s) + 1 /\ DOMAIN t = 1 .. Len(s) + 1
          BY <2>6, <3>1, Appended
    <3>3. \A k \in 1 .. Len(s) : t[k] = s[k]
          BY <2>6, <3>1, Appended
    <3>4. Succeeded(s) => Succeeded(t)
          BY <2>6, <3>1, Appended
    <3> QED BY <3>2, <3>3, <3>4
  <2>8. \A k \in 1 .. Len(s) : s[k] # "succeeded"
    <3>1. Numbered(inv[v].n, s) /\ inv[v].n = Len(s) + 1 /\ Len(s) \in Nat
          BY <1>3, <2>2, <2>3, <2>5 DEF AtItem, Recordable
    <3> QED BY <3>1 DEF Numbered
  <2>9. /\ attempts' = [attempts EXCEPT ![o] = t]
        /\ attempts \in [Pairs -> Seq(Results)]
        BY <1>3, <2>3, <2>4, <2>5, <2>6 DEF Recorded, TypeOK
  <2>10. /\ attempts' \in [Pairs -> Seq(Results)]
         /\ \A p \in Pairs : attempts'[p] = IF p = o THEN t ELSE attempts[p]
         BY <2>7, <2>9
  <2>11. Tables'
         BY <1>1, <2>4, <2>10 DEF Tables
  <2>12. AttemptsGrow
         BY <2>5, <2>6, <2>10 DEF AttemptsGrow
  <2>13. Grows
         BY <1>1, <2>4, <2>12, UnchangedGrows DEF Grows
  <2>14. RowsOK' /\ AttachedIsStored' /\ ReadyIsWhole'
         BY <1>1, <2>4 DEF StoreOK, RowsOK, AttachedIsStored, ReadyIsWhole
  <2>15. AttemptsOwned'
    <3>1. row[o[2]].owner = o[1] /\ row[o[2]].state # "absent"
      <4>1. o[1] = Cat(v) /\ o[2] = Item(v)
            BY <2>2, <2>3
      <4>2. row[Item(v)].state = "attached"
            BY <2>1, <2>2 DEF AtItem
      <4> QED BY <1>3, <4>1, <4>2 DEF Recordable
    <3> QED BY <1>1, <2>4, <2>10, <3>1 DEF StoreOK, AttemptsOwned
  <2>16. SuccessIsLast'
    <3> SUFFICES ASSUME NEW p \in Pairs, NEW k \in DOMAIN attempts'[p],
                        attempts'[p][k] = "succeeded"
                 PROVE  k = Len(attempts'[p])
        BY DEF SuccessIsLast
    <3>1. CASE p = o
      <4>1. attempts'[p] = t /\ Len(s) \in Nat
            BY <2>10, <3>1
      <4>2. k \notin 1 .. Len(s)
            BY <2>7, <2>8, <4>1
      <4> QED BY <2>7, <4>1, <4>2
    <3>2. CASE p # o
      <4>1. attempts'[p] = attempts[p]
            BY <2>10, <3>2
      <4> QED BY <2>4, <4>1 DEF StoreOK, SuccessIsLast
    <3> QED BY <3>1, <3>2
  <2>17. RevisionIsBacked'
    <3> SUFFICES ASSUME NEW p \in revision
                 PROVE  /\ row[p[2]].owner = p[1] /\ row[p[2]].state = "attached"
                        /\ document
                        /\ \E k \in DOMAIN attempts'[p] : attempts'[p][k] = "succeeded"
        BY <1>1 DEF RevisionIsBacked
    <3>1. /\ row[p[2]].owner = p[1] /\ row[p[2]].state = "attached" /\ document
          /\ \E k \in DOMAIN attempts[p] : attempts[p][k] = "succeeded"
          BY <2>4 DEF StoreOK, RevisionIsBacked
    <3>2. p \in Pairs
          BY <2>4 DEF TypeOK
    <3>3. CASE p = o
      <4>1. attempts'[p] = t /\ attempts[p] = s
            BY <2>5, <2>10, <3>3
      <4> QED BY <2>7, <3>1, <4>1 DEF Succeeded
    <3>4. CASE p # o
      <4>1. attempts'[p] = attempts[p]
            BY <2>10, <3>2, <3>4
      <4> QED BY <3>1, <4>1
    <3> QED BY <3>3, <3>4
  <2> QED BY <2>11, <2>13, <2>14, <2>15, <2>16, <2>17 DEF StoreOK
<1> QED BY <1>2, <1>3

LEMMA InspectStep ==
    ASSUME AcquisitionInv, NEW v \in Invocations, inspectAttempts(v)
    PROVE  AcquisitionInv'
<1>1. UNCHANGED tables /\ UNCHANGED bounds /\ inv[v].pc = "inspect"
      BY OnlyMemory DEF inspectAttempts, At
<1>2. inv[v].pc \in ItemPcs \ {"quarantine"} /\ inv[v].pc # "off"
      /\ "member" \in ItemPcs /\ "parse" \in ItemPcs
      BY <1>1 DEF ItemPcs, BodyPcs
<1>3. /\ inv[v].list # <<>> /\ AtItem(inv[v], Item(v)) /\ ~inv[v].resumed
      /\ Own(v) \in Pairs /\ Own(v) = <<inv[v].cat, Item(v)>> /\ Cat(v) = inv[v].cat
      BY <1>1, <1>2, AtItemWork, AtWork DEF MemoryOK
<1>4. /\ row[Item(v)].state = "attached" /\ row[Item(v)].body = inv[v].body /\ Item(v) \in Eligible
      BY <1>1, <1>3 DEF AtItem, BodyPcs, AttachedPcs
<1>5. PICK o \in Pairs : o = Own(v)
      BY <1>3
<1>6. PICK s \in Seq(Results) : s = attempts[o]
      BY <1>5 DEF AcquisitionInv, TypeOK
<1> DEFINE success == {k \in DOMAIN s : s[k] = "succeeded"}
<1>7. CASE success # {} /\ o \in revision /\ Goto(v, "member")
  <2>1. ASSUME NEW d \in Memory, d.pc = "member", d.cat = Cat(v), d.body = inv[v].body
        PROVE  AtItem(d, Item(v))
        BY <1>3, <1>4, <1>5, <1>7, <2>1 DEF AtItem, BodyPcs, AttachedPcs
  <2>2. MovesWell(v)
        BY <1>2, <1>3, <1>7, <2>1, GotoWell
  <2> QED BY <1>1, <2>2, BoundsKept, MemoryMoves
<1>8. ASSUME NEW n \in Nat, NEW re \in BOOLEAN,
             re => Succeeded(s), ~re => Numbered(n, s),
             inv' = [inv EXCEPT ![v] = [inv[v] EXCEPT !.pc = "parse", !.resumed = re, !.n = n]]
      PROVE  AcquisitionInv'
  <2>1. PICK m \in Memory : m = inv[v] /\ MemoryOK(m)
        BY <1>2, AtWork
  <2>2. PICK d : d = [m EXCEPT !.pc = "parse", !.resumed = re, !.n = n]
        OBVIOUS
  <2>3. d \in Memory
        BY <2>2, ZenonT(60) DEF Memory
  <2>4. d.pc = "parse" /\ d.resumed = re /\ d.n = n /\ d.body = m.body /\ SamePlan(d, m)
        BY <2>2 DEF Memory, SamePlan
  <2>5. d.cat = m.cat /\ d.list = m.list
        BY <2>4 DEF SamePlan
  <2>6. <<d.cat, Item(v)>> = o
        BY <1>3, <1>5, <2>1, <2>5
  <2>7. AtItem(d, Item(v))
        BY <1>4, <1>6, <1>8, <2>1, <2>4, <2>6 DEF AtItem, BodyPcs, AttachedPcs
  <2>8. /\ d.list # <<>> /\ Head(d.list) = Item(v) /\ d.pc \in ItemPcs /\ d.pc \in ResumedPcs
        /\ m.pc \notin {"off", "begun"}
        BY <1>1, <1>2, <1>3, <2>1, <2>4, <2>5 DEF Item, ResumedPcs
  <2>9. MemoryOK(d)
        BY <2>1, <2>3, <2>4, <2>7, <2>8, SamePlanOK
  <2>10. MovesWell(v)
         BY <1>8, <2>1, <2>2, <2>3, <2>9 DEF MovesWell
  <2> QED BY <1>1, <2>10, BoundsKept, MemoryMoves
<1>9. inv \in [Invocations -> Memory] /\ inv[v] \in Memory
      BY DEF AcquisitionInv, TypeOK
<1>10. CASE /\ success # {}
            /\ inv' = [inv EXCEPT ![v].pc = "parse", ![v].resumed = TRUE,
                                  ![v].n = CHOOSE k \in success : TRUE]
  <2>1. PICK n : n = CHOOSE k \in success : TRUE
        OBVIOUS
  <2>2. n \in success
        BY <1>10, <2>1
  <2>3. n \in Nat /\ Succeeded(s)
        BY <2>2 DEF Succeeded
  <2>4. inv' = [inv EXCEPT ![v].pc = "parse", ![v].resumed = TRUE, ![v].n = n]
        BY <1>10, <2>1
  <2>5. inv' = [inv EXCEPT ![v] = [inv[v] EXCEPT !.pc = "parse", !.resumed = TRUE, !.n = n]]
        BY <1>9, <2>4 DEF Memory
  <2> QED BY <1>8, <2>3, <2>5
<1>11. CASE /\ success = {}
            /\ inv' = [inv EXCEPT ![v].pc = "parse", ![v].n = Len(s) + 1]
  <2>1. PICK n : n = Len(s) + 1
        OBVIOUS
  <2>2. n \in Nat /\ Numbered(n, s)
        BY <1>11, <2>1 DEF Numbered
  <2>3. inv' = [inv EXCEPT ![v].pc = "parse", ![v].n = n]
        BY <1>11, <2>1
  <2>4. inv' = [inv EXCEPT ![v] = [inv[v] EXCEPT !.pc = "parse", !.resumed = FALSE, !.n = n]]
    <3>1. PICK m \in Memory : m = inv[v] /\ m.resumed = FALSE
      <4>1. inv[v].resumed = FALSE
            BY <1>3, <1>9 DEF Memory
      <4> QED BY <1>9, <4>1
    <3>2. [m EXCEPT !.pc = "parse", !.n = n] = [m EXCEPT !.pc = "parse", !.resumed = FALSE, !.n = n]
          BY <3>1 DEF Memory
    <3>3. inv' = [inv EXCEPT ![v] = [m EXCEPT !.pc = "parse", !.n = n]]
          BY <1>9, <2>3, <3>1 DEF Memory
    <3> QED BY <3>1, <3>2, <3>3
  <2> QED BY <1>8, <2>2, <2>4
<1>12. CASE Ended(v, Attached)
  <2>1. Attached \in 0 .. Revised
        BY ModelValues
  <2> QED BY <1>1, <1>2, <1>12, <2>1, EndsWell, BoundsKept, MemoryMoves
<1> QED BY <1>5, <1>6, <1>7, <1>10, <1>11, <1>12 DEF inspectAttempts

LEMMA ParseSucceedsStep ==
    ASSUME AcquisitionInv, NEW v \in Invocations, ParseSucceeds(v)
    PROVE  AcquisitionInv'
<1>1. UNCHANGED tables /\ UNCHANGED bounds /\ inv[v].pc = "parse" /\ Goto(v, "document")
      BY OnlyMemory DEF ParseSucceeds, At
<1>2. inv[v].pc \in ItemPcs /\ inv[v].pc # "off" /\ "document" \in ItemPcs
      /\ "document" \in ResumedPcs
      BY <1>1 DEF ItemPcs, BodyPcs, ResumedPcs
<1>3. inv[v].list # <<>> /\ AtItem(inv[v], Item(v)) /\ Cat(v) = inv[v].cat
      BY <1>2, AtItemWork, AtWork
<1>4. ASSUME NEW d \in Memory, d.pc = "document", d.cat = Cat(v), d.body = inv[v].body,
             d.n = inv[v].n, d.resumed = inv[v].resumed
      PROVE  AtItem(d, Item(v))
      BY <1>1, <1>3, <1>4 DEF AtItem, BodyPcs, AttachedPcs
<1>5. MovesWell(v)
      BY <1>1, <1>2, <1>3, <1>4, GotoWell
<1> QED BY <1>1, <1>5, BoundsKept, MemoryMoves

LEMMA ParseFailureGrows ==
    ASSUME AcquisitionInv, NEW v \in Invocations, NEW r \in {"retryable", "permanent"},
           ParseFails(v, r), UNCHANGED bounds \/ Fault
    PROVE  Tables' /\ Grows /\ StoreOK'
<1>1. /\ inv[v].pc = "parse" /\ r \in Results
      /\ UNCHANGED <<gen, row, storage, revision, member, records, activation>>
      BY DEF ParseFails, At, Results
<1>2. CASE inv[v].resumed
  <2>1. UNCHANGED tables
        BY <1>1, <1>2 DEF ParseFails, tables, parsed
  <2> QED BY <2>1, BoundsKept, TablesKept
<1>3. CASE ~inv[v].resumed
  <2>1. attempts' = Recorded(v, r)
        BY <1>3 DEF ParseFails
  <2> QED BY <1>1, <1>3, <2>1, BoundsKept, AttemptGrows
<1> QED BY <1>2, <1>3

LEMMA ParseFailureSteps ==
    ASSUME AcquisitionInv, NEW v \in Invocations,
           \/ SchemaFails(v) \/ ParseCancelled(v)
           \/ \E r \in {"retryable", "permanent"} : ParserFails(v, r)
    PROVE  AcquisitionInv'
<1>1. PICK r \in {"retryable", "permanent"} : ParseFails(v, r) /\ (UNCHANGED bounds \/ Fault)
      BY DEF SchemaFails, ParseCancelled, ParserFails
<1>2. Tables' /\ Grows /\ StoreOK'
      BY <1>1, ParseFailureGrows
<1>3. inv[v].pc = "parse"
      BY <1>1 DEF ParseFails, At
<1>4. inv[v].pc \in ItemPcs \ {"quarantine"} /\ inv[v].pc \notin {"off", "begun"}
      BY <1>3 DEF ItemPcs, BodyPcs
<1>5. inv[v].list # <<>>
      BY <1>4, AtItemWork
<1>6. Attached \in 0 .. Revised
      BY ModelValues
<1>7. \/ Goto(v, "quarantine") \/ Ended(v, Attached)
      \/ ~inv[v].resumed /\ Cancelled(v)
      BY DEF SchemaFails, ParseCancelled, ParserFails
<1>8. MovesWell(v)
      BY <1>4, <1>5, <1>6, <1>7, QuarantineWell, EndsWell, CancelsWell
<1> QED BY <1>2, <1>8, WellLands, InvocationLands

LEMMA DocumentStep ==
    ASSUME AcquisitionInv, NEW v \in Invocations, attachParsedDocument(v)
    PROVE  AcquisitionInv'
<1>1. /\ inv[v].pc = "document" /\ document' = TRUE /\ UNCHANGED bounds
      /\ UNCHANGED <<gen, row, attempts, revision, recon, pointer, asked, history>>
      /\ UNCHANGED <<temp, final, member, listed, quarantine>>
      BY DEF attachParsedDocument, At, parsed, records, activation
<1>2. inv[v].pc \in ItemPcs /\ inv[v].pc # "off"
      BY <1>1 DEF ItemPcs, BodyPcs
<1>3. /\ inv[v].list # <<>> /\ AtItem(inv[v], Item(v)) /\ Cat(v) = inv[v].cat
      /\ Item(v) \in Items /\ Cat(v) \in Catalogs
      BY <1>2, AtItemWork, AtWork
<1>4. /\ temp' \subseteq Pairs /\ final' \subseteq Bodies /\ document' \in BOOLEAN
      /\ member' \subseteq Pairs /\ listed' \subseteq Pairs /\ quarantine' \subseteq Pairs
      BY <1>1 DEF AcquisitionInv, TypeOK
<1>5. Tables' /\ Grows /\ StoreOK'
      BY <1>1, <1>4, BoundsKept, PlainGrows
<1>6. PICK i \in Items : i = Item(v)
      BY <1>3
<1>7. PICK c \in Catalogs : c = Cat(v)
      BY <1>3
<1>8. PICK b : b = inv[v].body
      OBVIOUS
<1>9. PICK n : n = inv[v].n
      OBVIOUS
<1>10. PICK re \in BOOLEAN : re = inv[v].resumed
       BY DEF AcquisitionInv, TypeOK, Memory
<1>11. PICK p \in {"revise", "record"} : p = IF re THEN "revise" ELSE "record"
       OBVIOUS
<1>12. p \in ItemPcs /\ (re => p \in ResumedPcs) /\ Goto(v, p)
       BY <1>10, <1>11 DEF attachParsedDocument, ItemPcs, BodyPcs, ResumedPcs
<1>13. ASSUME NEW d \in Memory, d.pc = p, d.cat = c, d.body = b, d.n = n, d.resumed = re
       PROVE  AtItem(d, i)'
  <2>1. /\ i \in Eligible /\ row[i].state = "attached" /\ row[i].body = b
        /\ ~re => Numbered(n, attempts[<<c, i>>])
        /\ re => Succeeded(attempts[<<c, i>>])
        BY <1>1, <1>3, <1>6, <1>7, <1>8, <1>9, <1>10 DEF AtItem, BodyPcs, AttachedPcs
  <2> QED BY <1>1, <1>11, <1>13, <2>1 DEF AtItem, BodyPcs, AttachedPcs
<1>14. \A d \in Memory : d.pc = p /\ d.cat = c /\ d.body = b /\ d.n = n /\ d.resumed = re
                         => AtItem(d, i)'
       BY <1>13
<1>15. inv[v].resumed => p \in ResumedPcs
       BY <1>10, <1>12
<1>16. LandsWell(v)
       BY <1>2, <1>3, <1>5, <1>6, <1>7, <1>8, <1>9, <1>10, <1>12, <1>14, <1>15, GotoLands
<1> QED BY <1>5, <1>16, InvocationLands

LEMMA RecordStep ==
    ASSUME AcquisitionInv, NEW v \in Invocations, recordAttempt(v)
    PROVE  AcquisitionInv'
<1>1. /\ inv[v].pc = "record" /\ UNCHANGED bounds /\ attempts' = Recorded(v, "succeeded")
      /\ UNCHANGED <<gen, row, storage, revision, member, records, activation>>
      BY DEF recordAttempt, At
<1>2. inv[v].pc \in ItemPcs \ {"quarantine"} /\ inv[v].pc # "off" /\ "revise" \in ItemPcs
      BY <1>1 DEF ItemPcs, BodyPcs
<1>3. /\ inv[v].list # <<>> /\ AtItem(inv[v], Item(v)) /\ Cat(v) = inv[v].cat
      /\ Item(v) \in Items /\ Cat(v) \in Catalogs /\ ~inv[v].resumed
      /\ Own(v) = <<inv[v].cat, Item(v)>>
      BY <1>1, <1>2, AtItemWork, AtWork DEF MemoryOK
<1>4. "succeeded" \in Results
      BY DEF Results
<1>5. Tables' /\ Grows /\ StoreOK'
      BY <1>1, <1>3, <1>4, BoundsKept, AttemptGrows
<1>6. PICK o : o = Own(v)
      OBVIOUS
<1>7. CASE Ended(v, Parsed)
  <2>1. Parsed \in 0 .. Revised
        BY ModelValues
  <2> QED BY <1>2, <1>5, <1>7, <2>1, EndsWell, WellLands, InvocationLands
<1>8. CASE /\ inv[v].n \in DOMAIN attempts'[o] /\ attempts'[o][inv[v].n] = "succeeded"
           /\ Goto(v, "revise")
  <2>1. PICK i \in Items : i = Item(v)
        BY <1>3
  <2>2. PICK c \in Catalogs : c = Cat(v)
        BY <1>3
  <2>3. PICK b : b = inv[v].body
        OBVIOUS
  <2>4. PICK n : n = inv[v].n
        OBVIOUS
  <2>5. PICK re : re = inv[v].resumed
        OBVIOUS
  <2>6. ASSUME NEW d \in Memory, d.pc = "revise", d.cat = c, d.body = b
        PROVE  AtItem(d, i)'
    <3>1. i \in Eligible /\ row[i].state = "attached" /\ row[i].body = b /\ document
          BY <1>1, <1>3, <2>1, <2>3 DEF AtItem, BodyPcs, AttachedPcs
    <3>2. o = <<c, i>>
          BY <1>3, <1>6, <2>1, <2>2
    <3>3. Succeeded(attempts'[<<c, i>>])
          BY <1>8, <3>2 DEF Succeeded
    <3>4. row' = row /\ document' = document
          BY <1>1 DEF storage
    <3> QED BY <2>6, <3>1, <3>3, <3>4 DEF AtItem, BodyPcs, AttachedPcs
  <2>7. \A d \in Memory : d.pc = "revise" /\ d.cat = c /\ d.body = b /\ d.n = n /\ d.resumed = re
                          => AtItem(d, i)'
        BY <2>6
  <2>8. Goto(v, "revise")
        BY <1>8
  <2>9. LandsWell(v)
        BY <1>2, <1>3, <1>5, <2>1, <2>2, <2>3, <2>4, <2>5, <2>7, <2>8, GotoLands
  <2> QED BY <1>5, <2>9, InvocationLands
<1> QED BY <1>6, <1>7, <1>8 DEF recordAttempt

\* A revision rests on a success, and the success on the row of the same owner.
LEMMA RevisionStep ==
    ASSUME AcquisitionInv, NEW v \in Invocations, attachRevision(v)
    PROVE  AcquisitionInv'
<1>1. /\ inv[v].pc = "revise" /\ revision' = revision \cup {Own(v)} /\ Goto(v, "member")
      /\ UNCHANGED <<gen, row, attempts, recon, pointer, asked, history>> /\ UNCHANGED bounds
      /\ UNCHANGED <<temp, final, document, member, listed, quarantine>>
      BY DEF attachRevision, At, storage, records, activation
<1>2. /\ inv[v].pc \in ItemPcs /\ inv[v].pc # "off" /\ "member" \in ItemPcs
      /\ "member" \in ResumedPcs
      BY <1>1 DEF ItemPcs, BodyPcs, ResumedPcs
<1>3. /\ inv[v].list # <<>> /\ AtItem(inv[v], Item(v)) /\ Cat(v) = inv[v].cat
      /\ Item(v) \in Items /\ Cat(v) \in Catalogs
      /\ Own(v) = <<inv[v].cat, Item(v)>>
      BY <1>2, AtItemWork, AtWork
<1>4. PICK i \in Items : i = Item(v)
      BY <1>3
<1>5. PICK c \in Catalogs : c = Cat(v)
      BY <1>3
<1>6. PICK b : b = inv[v].body
      OBVIOUS
<1>7. PICK n : n = inv[v].n
      OBVIOUS
<1>8. PICK re : re = inv[v].resumed
      OBVIOUS
<1>9. PICK o \in Pairs : o = <<c, i>>
      BY DEF Pairs
<1>10. /\ i \in Eligible /\ row[i].state = "attached" /\ row[i].body = b /\ document
       /\ Succeeded(attempts[o]) /\ revision' = revision \cup {o} /\ o[1] = c /\ o[2] = i
       BY <1>1, <1>3, <1>4, <1>5, <1>6, <1>9 DEF AtItem, BodyPcs, AttachedPcs
<1>11. Tables /\ TypeOK /\ StoreOK
       BY TypesOfTables DEF AcquisitionInv
<1>12. Tables'
       BY <1>1, <1>10, <1>11, BoundsKept DEF Tables
<1>13. Grows
       BY <1>1, <1>10, <1>11, UnchangedGrows DEF Grows
<1>14. StoreOK'
  <2>1. attempts[o] # <<>>
        BY <1>10 DEF Succeeded
  <2>2. row[i].owner = c
        BY <1>10, <1>11, <2>1 DEF StoreOK, AttemptsOwned
  <2>3. RevisionIsBacked'
    <3> SUFFICES ASSUME NEW p \in revision'
                 PROVE  /\ row[p[2]].owner = p[1] /\ row[p[2]].state = "attached" /\ document
                        /\ \E k \in DOMAIN attempts[p] : attempts[p][k] = "succeeded"
        BY <1>1 DEF RevisionIsBacked
    <3>1. CASE p = o
          BY <1>10, <2>2, <3>1 DEF Succeeded
    <3>2. CASE p \in revision
          BY <1>11, <3>2 DEF StoreOK, RevisionIsBacked
    <3> QED BY <1>10, <3>1, <3>2
  <2>4. ReadyIsWhole'
        BY <1>1, <1>10, <1>11 DEF StoreOK, ReadyIsWhole
  <2>5. RowsOK' /\ AttemptsOwned' /\ AttachedIsStored' /\ SuccessIsLast'
        BY <1>1, <1>11 DEF StoreOK, RowsOK, AttemptsOwned, AttachedIsStored, SuccessIsLast
  <2> QED BY <2>3, <2>4, <2>5 DEF StoreOK
<1>15. ASSUME NEW d \in Memory, d.pc = "member", d.cat = c, d.body = b PROVE AtItem(d, i)'
  <2>1. /\ row'[i].state = "attached" /\ row'[i].body = b /\ <<c, i>> \in revision'
        BY <1>1, <1>9, <1>10
  <2> QED BY <1>10, <1>15, <2>1 DEF AtItem, BodyPcs, AttachedPcs
<1>16. \A d \in Memory : d.pc = "member" /\ d.cat = c /\ d.body = b /\ d.n = n /\ d.resumed = re
                         => AtItem(d, i)'
       BY <1>15
<1>17. Goto(v, "member")
       BY <1>1
<1>18. LandsWell(v)
       BY <1>2, <1>3, <1>4, <1>5, <1>6, <1>7, <1>8, <1>12, <1>13, <1>16, <1>17, GotoLands
<1> QED BY <1>12, <1>13, <1>14, <1>18, InvocationLands

LEMMA MembershipStep ==
    ASSUME AcquisitionInv, NEW v \in Invocations, attachMembership(v)
    PROVE  AcquisitionInv'
<1>1. /\ inv[v].pc = "member" /\ member' = member \cup {Own(v)} /\ Ended(v, Member)
      /\ UNCHANGED <<gen, row, attempts, revision, recon, pointer, asked, history>>
      /\ UNCHANGED <<temp, final, document, listed, quarantine>> /\ UNCHANGED bounds
      BY DEF attachMembership, At, storage, records, activation
<1>2. inv[v].pc \in ItemPcs /\ inv[v].pc \notin {"off", "begun"}
      BY <1>1 DEF ItemPcs, BodyPcs
<1>3. /\ inv[v].list # <<>> /\ AtItem(inv[v], Item(v))
      /\ Own(v) = <<inv[v].cat, Item(v)>> /\ Own(v) \in Pairs
      BY <1>2, AtItemWork, AtWork
<1>4. Item(v) \in Eligible /\ Own(v) \in revision
      BY <1>1, <1>3 DEF AtItem
<1>5. /\ temp' \subseteq Pairs /\ final' \subseteq Bodies /\ document' \in BOOLEAN
      /\ member' \subseteq Pairs /\ listed' \subseteq Pairs /\ quarantine' \subseteq Pairs
      BY <1>1, <1>3 DEF AcquisitionInv, TypeOK
<1>6. Tables' /\ Grows /\ StoreOK'
      BY <1>1, <1>5, BoundsKept, PlainGrows
<1>7. PICK m \in Memory : m = inv[v] /\ MemoryOK(m)
      BY <1>2, AtWork
<1>8. PICK i \in Items : i = Item(v) /\ i = Head(m.list)
      BY <1>2, <1>3, <1>7, AtWork
<1>0. PICK q \in SUBSET Items : q = {}
      OBVIOUS
<1>9. PICK d : d = EndedMemory(m, Member, q)
      OBVIOUS
<1>10. Member \in 0 .. Member /\ m.list # <<>>
       BY <1>3, <1>7, ModelValues
<1>11. /\ d \in Memory /\ d.pc = "item" /\ d.list = Tail(m.list)
       /\ d.level = [m.level EXCEPT ![Head(m.list)] = Member] /\ d.bad = m.bad \cup q
       /\ d.cat = m.cat /\ d.listing = m.listing /\ d.copy = m.copy
       /\ d.cancelled = m.cancelled /\ ~d.resumed
       BY <1>9, <1>10, EndedFields
<1>12. MemoryOK(m)'
       BY <1>6, <1>7, MemoryKept, TypesOfTables DEF AcquisitionInv
<1>13. Begun(m)' /\ LevelsOK(m)' /\ Reviewed(m)
  <2>1. m.pc # "off" /\ MemoryOK(m)
        BY <1>2, <1>7
  <2> QED BY <1>12, <2>1 DEF MemoryOK
<1>14. Begun(d)'
       BY <1>2, <1>7, <1>11, <1>13 DEF Begun
<1>15. LevelsOK(d)'
  <2>1. m.level \in [Items -> 0 .. Member]
        BY DEF Memory
  <2>2. <<m.cat, i>> \in member' \cap revision' /\ i \in Eligible
        BY <1>1, <1>3, <1>4, <1>7, <1>8
  <2>3. d.level = [m.level EXCEPT ![i] = Member] /\ d.cat = m.cat
        BY <1>8, <1>11
  <2> QED BY <1>13, <2>1, <2>2, <2>3 DEF LevelsOK
<1>16. Reviewed(d)'
  <2>1. Range(m.list) \subseteq {i} \cup Range(d.list)
        BY <1>8, <1>10, <1>11, SeqFacts DEF Memory
  <2>2. i \notin Review
        BY <1>4, <1>8, SetsAssumption
  <2> QED BY <1>11, <1>13, <2>1, <2>2 DEF Reviewed
<1>17. MemoryOK(d)'
       BY <1>11, <1>14, <1>15, <1>16 DEF MemoryOK, ItemPcs, BodyPcs
<1>18. inv' = [inv EXCEPT ![v] = d]
  <2>1. inv \in [Invocations -> Memory] /\ inv[v] = m
        BY <1>7 DEF AcquisitionInv, TypeOK
  <2>2. EndedIn(v, Member, q)
        BY <1>0, <1>1 DEF Ended
  <2>3. Item(v) = Head(m.list)
        BY <1>8
  <2> QED BY <1>9, <2>1, <2>2, <2>3 DEF EndedIn, EndedMemory
<1>19. LandsWell(v)
       BY <1>11, <1>17, <1>18 DEF LandsWell
<1> QED BY <1>6, <1>19, InvocationLands

LEMMA QuarantineStep ==
    ASSUME AcquisitionInv, NEW v \in Invocations, recordQuarantine(v)
    PROVE  AcquisitionInv'
<1>1. /\ inv[v].pc = "quarantine" /\ quarantine' \in {quarantine \cup {Own(v)}, quarantine}
      /\ EndedIn(v, 0, {Item(v)})
      /\ UNCHANGED <<gen, row, attempts, revision, recon, pointer, asked, history>>
      /\ UNCHANGED <<temp, final, document, member, listed>> /\ (UNCHANGED bounds \/ Fault)
      BY DEF recordQuarantine, At, storage, parsed, activation
<1>2. inv[v].pc \in ItemPcs /\ inv[v].pc \notin {"off", "begun"}
      BY <1>1 DEF ItemPcs, BodyPcs
<1>3. inv[v].list # <<>> /\ Own(v) \in Pairs /\ Item(v) \in Items
      BY <1>2, AtItemWork, AtWork
<1>4. {Item(v)} \in SUBSET Items /\ 0 \in 0 .. Revised
      BY <1>3, ModelValues
<1>5. MovesWell(v)
      BY <1>1, <1>2, <1>3, <1>4, EndedWell
<1>6. /\ temp' \subseteq Pairs /\ final' \subseteq Bodies /\ document' \in BOOLEAN
      /\ member' \subseteq Pairs /\ listed' \subseteq Pairs /\ quarantine' \subseteq Pairs
      BY <1>1, <1>3 DEF AcquisitionInv, TypeOK
<1>7. Tables' /\ Grows /\ StoreOK'
      BY <1>1, <1>6, BoundsKept, PlainGrows
<1> QED BY <1>5, <1>7, WellLands, InvocationLands

-----------------------------------------------------------------------------
(* Failures of a call, the end of an invocation.                           *)

LEMMA StoreFailsStep ==
    ASSUME AcquisitionInv, NEW v \in Invocations, StoreFails(v)
    PROVE  AcquisitionInv'
<1>1. UNCHANGED tables /\ Fault
      BY OnlyMemory DEF StoreFails
<1>2. Tables' /\ Grows /\ StoreOK'
      BY <1>1, BoundsKept, TablesKept
<1>3. Attached \in 0 .. Revised /\ Parsed \in 0 .. Revised /\ Revised \in 0 .. Revised
      /\ 0 \in 0 .. Revised
      BY ModelValues
<1> DEFINE pcs == {"retrieved", "read", "document", "record", "revise", "member"}
<1>4. ASSUME inv[v].pc \in pcs, NEW k \in 0 .. Revised, Ended(v, k) PROVE LandsWell(v)
  <2>1. inv[v].pc \in ItemPcs \ {"quarantine"}
        BY <1>4 DEF ItemPcs, BodyPcs
  <2> QED BY <1>2, <1>4, <2>1, EndsWell, WellLands
<1>5. CASE inv[v].pc \in AttachPcs /\ NotAttached(v)
  <2>1. LandsWell(v)
        BY <1>2, <1>5, NotAttachedWell, WellLands
  <2> QED BY <1>2, <2>1, InvocationLands
<1>6. CASE inv[v].pc = "delete" /\ HasBody(v)
  <2>1. row[Item(v)].state = "attached"
        BY <1>6, AtItemWork DEF AtItem, ItemPcs, BodyPcs, AttachedPcs
  <2>2. row'[Item(v)].state = "attached"
        BY <1>1, <2>1 DEF tables
  <2>3. LandsWell(v)
        BY <1>2, <1>6, <2>2, HasBodyLands
  <2> QED BY <1>2, <2>3, InvocationLands
<1>7. CASE inv[v].pc \in pcs /\ \E k \in 0 .. Revised : Ended(v, k)
  <2>1. LandsWell(v)
        BY <1>4, <1>7
  <2> QED BY <1>2, <2>1, InvocationLands
<1>8. \/ inv[v].pc \in AttachPcs /\ NotAttached(v)
      \/ inv[v].pc = "delete" /\ HasBody(v)
      \/ inv[v].pc \in pcs /\ \E k \in 0 .. Revised : Ended(v, k)
      BY <1>3 DEF StoreFails, At, AttachPcs
<1> QED BY <1>5, <1>6, <1>7, <1>8

LEMMA AbortStep ==
    ASSUME AcquisitionInv, NEW v \in Invocations, Abort(v)
    PROVE  AcquisitionInv'
<1>1. UNCHANGED tables /\ Fault /\ inv[v].pc # "off" /\ inv' = [inv EXCEPT ![v].aborted = TRUE]
      BY OnlyMemory DEF Abort
<1>2. PICK m \in Memory : m = inv[v] /\ MemoryOK(m)
      BY <1>1, AtWork
<1>3. PICK d : d = [m EXCEPT !.aborted = TRUE]
      OBVIOUS
<1>4. d \in Memory
      BY <1>3 DEF Memory
<1>5. /\ SamePlan(d, m) /\ d.pc = m.pc /\ d.body = m.body /\ d.n = m.n /\ d.resumed = m.resumed
      BY <1>3 DEF Memory, SamePlan
<1>6. MemoryOK(d)
  <2>1. Begun(d) /\ LevelsOK(d) /\ Reviewed(d)
        BY <1>1, <1>2, <1>5 DEF MemoryOK, SamePlan, Begun, LevelsOK, Reviewed
  <2>2. d.pc \in ItemPcs => d.list # <<>> /\ AtItem(d, Head(d.list))
    <3> SUFFICES ASSUME d.pc \in ItemPcs PROVE d.list # <<>> /\ AtItem(d, Head(d.list))
        OBVIOUS
    <3>1. m.list # <<>> /\ AtItem(m, Head(m.list)) /\ d.list = m.list /\ d.cat = m.cat
          BY <1>1, <1>2, <1>5 DEF MemoryOK, SamePlan
    <3> QED BY <1>5, <3>1 DEF AtItem
  <2>3. /\ d.resumed => d.pc \in {"parse", "document", "revise", "member", "quarantine"}
        /\ d.pc = "reconcile" => d.list = <<>>
        BY <1>1, <1>2, <1>5 DEF MemoryOK, SamePlan
  <2> QED BY <2>1, <2>2, <2>3 DEF MemoryOK
<1>7. inv' = [inv EXCEPT ![v] = d]
      BY <1>1, <1>2, <1>3 DEF AcquisitionInv, TypeOK
<1>8. MovesWell(v)
      BY <1>4, <1>6, <1>7 DEF MovesWell
<1> QED BY <1>1, <1>8, BoundsKept, MemoryMoves

LEMMA StopSteps ==
    ASSUME AcquisitionInv, NEW v \in Invocations, Crash(v) \/ Return(v)
    PROVE  AcquisitionInv'
<1>1. /\ UNCHANGED tables /\ (UNCHANGED bounds \/ Fault)
      /\ inv' = [inv EXCEPT ![v] = Idle]
      BY OnlyMemory DEF Crash, Return
<1> QED BY <1>1, IdleWell, BoundsKept, MemoryMoves

LEMMA InventoryStep ==
    ASSUME AcquisitionInv, NEW v \in Invocations, persistInventory(v)
    PROVE  AcquisitionInv'
<1>1. /\ inv[v].pc = "item" /\ inv[v].list = <<>> /\ Goto(v, "reconcile")
      /\ \E written \in SUBSET Listed(v) : listed' = listed \cup ({Cat(v)} \X written)
      /\ UNCHANGED <<gen, row, attempts, revision, recon, pointer, asked, history>>
      /\ UNCHANGED <<temp, final, document, member, quarantine>> /\ (UNCHANGED bounds \/ Fault)
      BY DEF persistInventory, At, storage, parsed, activation
<1>2. PICK m \in Memory : m = inv[v] /\ MemoryOK(m)
      BY <1>1, AtWork
<1>3. Begun(m) /\ ~m.resumed
      BY <1>1, <1>2 DEF MemoryOK
<1>4. Range(m.listing) \subseteq Items /\ m.cat \in Catalogs
  <2>1. m.listing \in Seq(Items)
        BY <1>3, SetsAssumption DEF Begun
  <2> QED BY <1>3, <2>1, SeqFacts DEF Begun
<1>5. PICK written \in SUBSET Range(m.listing) : listed' = listed \cup ({m.cat} \X written)
      BY <1>1, <1>2 DEF Cat, Listed
<1>6. /\ temp' \subseteq Pairs /\ final' \subseteq Bodies /\ document' \in BOOLEAN
      /\ member' \subseteq Pairs /\ quarantine' \subseteq Pairs /\ listed \subseteq Pairs
      BY <1>1 DEF AcquisitionInv, TypeOK
<1>7. listed' \subseteq Pairs
      BY <1>4, <1>5, <1>6 DEF Pairs
<1>8. Tables' /\ Grows /\ StoreOK'
      BY <1>1, <1>6, <1>7, BoundsKept, PlainGrows
<1>9. PICK d : d = [m EXCEPT !.pc = "reconcile"]
      OBVIOUS
<1>10. d \in Memory /\ d.pc = "reconcile" /\ SamePlan(d, m) /\ d.resumed = m.resumed
       BY <1>9, GotoFields
<1>11. MemoryOK(m)'
       BY <1>2, <1>8, MemoryKept, TypesOfTables DEF AcquisitionInv
<1>12. MemoryOK(d)'
  <2>1. m.pc = "item" /\ m.list = <<>>
        BY <1>1, <1>2
  <2>2. Begun(d)' /\ LevelsOK(d)' /\ Reviewed(d)'
        BY <1>10, <1>11, <2>1 DEF MemoryOK, SamePlan, Begun, LevelsOK, Reviewed
  <2>3. d.list = <<>>
        BY <1>10, <2>1 DEF SamePlan
  <2> QED BY <1>3, <1>10, <2>2, <2>3 DEF MemoryOK, ItemPcs, BodyPcs
<1>13. inv' = [inv EXCEPT ![v] = d]
       BY <1>1, <1>2, <1>9, GotoIs
<1>14. LandsWell(v)
       BY <1>10, <1>12, <1>13 DEF LandsWell
<1> QED BY <1>8, <1>14, InvocationLands

-----------------------------------------------------------------------------
(* The lifecycle of the generations.                                       *)

LEMMA NextVersion ==
    ASSUME NEW g \in Generations, NEW to \in Lifecycle, NEW f,
           f = [state |-> to, version |-> g.version + 1]
    PROVE  f \in Generations /\ f.state = to /\ f.version = g.version + 1 /\ f.version \in Nat
BY DEF Generations

\* A step that moves generations on, each with a new version.
LEMMA GenerationGrows ==
    ASSUME AcquisitionInv, NEW h \in [Catalogs -> Generations], gen' = h,
           \A c \in Catalogs : \/ h[c] = gen[c]
                               \/ h[c].version = gen[c].version + 1 /\ h[c].state # "absent",
           recon' \in [Catalogs -> SUBSET Items],
           UNCHANGED <<row, storage, parsed, listed, quarantine>>,
           pointer' \in [cat : Catalogs \cup {None}, version : Nat],
           asked' \in [Requests -> [cat : Catalogs \cup {None}, version : Nat]],
           history' \subseteq Requests,
           starts' \in 0 .. MaxStarts, faults' \in 0 .. MaxFaults
    PROVE  Tables' /\ Grows
<1>1. UNCHANGED <<row, attempts, revision, temp, final, document, member, listed, quarantine>>
      BY DEF storage, parsed
<1>2. TypeOK /\ Tables
      BY TypesOfTables DEF AcquisitionInv
<1>3. \A c \in Catalogs : /\ gen[c] \in Generations
                          /\ gen[c].state = "absent" <=> gen[c].version = 0
      BY <1>2 DEF TypeOK, Generations
<1>4. ASSUME NEW c \in Catalogs
      PROVE  /\ h[c].state = "absent" <=> h[c].version = 0
             /\ gen[c].version <= h[c].version
             /\ gen[c].version = h[c].version => h[c] = gen[c]
  <2>1. PICK g \in Generations : g = gen[c]
        BY <1>3
  <2>2. PICK f \in Generations : f = h[c]
        OBVIOUS
  <2>3. g.version \in Nat /\ f.version \in Nat /\ (g.state = "absent" <=> g.version = 0)
        BY <1>3, <2>1 DEF Generations
  <2>4. f = g \/ (f.version = g.version + 1 /\ f.state # "absent")
        BY <2>1, <2>2
  <2>5. /\ f.state = "absent" <=> f.version = 0
        /\ g.version <= f.version /\ (g.version = f.version => f = g)
        BY <2>3, <2>4
  <2> QED BY <2>1, <2>2, <2>5
<1>5. Tables'
      BY <1>1, <1>2, <1>4 DEF Tables, Generations
<1>6. GenerationsMove
      BY <1>4 DEF GenerationsMove
<1>7. Grows
      BY <1>1, <1>2, <1>6, UnchangedGrows DEF Grows
<1> QED BY <1>5, <1>7

\* A step of one invocation that moves its generation, but does not freeze it.
LEMMA LifecycleMoves ==
    ASSUME AcquisitionInv, NEW c \in Catalogs, NEW g \in Generations,
           gen' = [gen EXCEPT ![c] = g],
           g = gen[c] \/ (g.version = gen[c].version + 1 /\ g.state # "absent"),
           g.state \in Frozen => gen[c].state \in Frozen,
           UNCHANGED <<row, storage, parsed, records, activation>>,
           starts' \in 0 .. MaxStarts, faults' \in 0 .. MaxFaults
    PROVE  Tables' /\ Grows /\ StoreOK'
<1>1. gen \in [Catalogs -> Generations] /\ TypeOK /\ StoreOK /\ Tables
      BY TypesOfTables DEF AcquisitionInv, TypeOK, Generations
<1>2. PICK h \in [Catalogs -> Generations] : h = gen'
      BY <1>1
<1>3. \A d \in Catalogs : h[d] = IF d = c THEN g ELSE gen[d]
      BY <1>1, <1>2
<1>4. \A d \in Catalogs : \/ h[d] = gen[d]
                          \/ h[d].version = gen[d].version + 1 /\ h[d].state # "absent"
      BY <1>3
<1>5. /\ recon' \in [Catalogs -> SUBSET Items]
      /\ pointer' \in [cat : Catalogs \cup {None}, version : Nat]
      /\ asked' \in [Requests -> [cat : Catalogs \cup {None}, version : Nat]]
      /\ history' \subseteq Requests
      /\ UNCHANGED <<listed, quarantine, recon>>
      BY <1>1 DEF TypeOK, records, activation
<1>6. Tables' /\ Grows
      BY <1>2, <1>4, <1>5, GenerationGrows
<1>7. UNCHANGED <<row, attempts, revision, recon>>
      BY <1>5 DEF parsed
<1>8. \A d \in Catalogs : gen'[d].state \in Frozen => gen[d].state \in Frozen
      BY <1>2, <1>3
<1>9. StoreOK'
      BY <1>1, <1>6, <1>7, <1>8, StoreKept
<1> QED BY <1>6, <1>9

LEMMA CreateStep ==
    ASSUME AcquisitionInv, NEW v \in Invocations, NEW c \in Catalogs, NEW s \in Listings,
           createPlanned(v, c, s)
    PROVE  AcquisitionInv'
<1>1. /\ UNCHANGED <<row, storage, parsed, records, activation>>
      /\ starts < MaxStarts /\ starts' = starts + 1 /\ faults' = faults
      BY DEF createPlanned
<1>2. starts' \in 0 .. MaxStarts /\ faults' \in 0 .. MaxFaults
      BY <1>1, BoundsAssumption DEF AcquisitionInv, TypeOK
<1>3. gen \in [Catalogs -> Generations] /\ (gen[c].state = "absent" <=> gen[c].version = 0)
      BY DEF AcquisitionInv, TypeOK, Generations
<1>4. PICK g \in Generations : g = IF gen[c].state = "absent"
                                   THEN [state |-> "planned", version |-> 1] ELSE gen[c]
      BY <1>3 DEF Generations, Lifecycle
<1>5. /\ gen' = [gen EXCEPT ![c] = g] /\ g.state # "absent"
      /\ g = gen[c] \/ (g.version = gen[c].version + 1 /\ g.state # "absent")
      /\ g.state \in Frozen => gen[c].state \in Frozen
  <2>1. CASE gen[c].state = "absent"
        BY <1>3, <1>4, <2>1 DEF createPlanned, Frozen
  <2>2. CASE gen[c].state # "absent"
        BY <1>3, <1>4, <2>2 DEF createPlanned
  <2> QED BY <2>1, <2>2
<1>6. Tables' /\ Grows /\ StoreOK'
      BY <1>1, <1>2, <1>5, LifecycleMoves
<1>7. s \in Seq(Items)
      BY SetsAssumption
<1>8. PICK d : d = [Idle EXCEPT !.pc = "begun", !.cat = c, !.listing = s, !.list = s]
      OBVIOUS
<1>9. d \in Memory
  <2>1. PICK m \in Memory : m = Idle
        BY ModelValues
  <2>2. d = [m EXCEPT !.pc = "begun", !.cat = c, !.listing = s, !.list = s]
        BY <1>8, <2>1
  <2> QED BY <1>7, <2>2 DEF Memory
<1>10. /\ d.pc = "begun" /\ d.cat = c /\ d.listing = s /\ d.list = s
       /\ d.level = [i \in Items |-> 0] /\ d.bad = {} /\ d.resumed = FALSE
       BY <1>8 DEF Idle
<1>11. MemoryOK(d)'
  <2>1. gen'[c].state # "absent"
        BY <1>3, <1>5
  <2>2. Begun(d)'
        BY <1>10, <2>1 DEF Begun
  <2>3. LevelsOK(d)'
        BY <1>10, ModelValues DEF LevelsOK
  <2>4. Reviewed(d)'
        BY <1>10 DEF Reviewed
  <2> QED BY <1>10, <2>2, <2>3, <2>4 DEF MemoryOK, ItemPcs, BodyPcs
<1>12. inv' = [inv EXCEPT ![v] = d]
       BY <1>8 DEF createPlanned
<1>13. LandsWell(v)
       BY <1>9, <1>11, <1>12 DEF LandsWell
<1> QED BY <1>6, <1>13, InvocationLands

LEMMA StartStep ==
    ASSUME AcquisitionInv, NEW v \in Invocations, startAcquiring(v)
    PROVE  AcquisitionInv'
<1>1. /\ UNCHANGED <<row, storage, parsed, records, activation>> /\ UNCHANGED bounds
      /\ inv[v].pc = "begun"
      BY DEF startAcquiring, At
<1>2. PICK m \in Memory : m = inv[v] /\ MemoryOK(m)
      BY <1>1, AtWork
<1>3. Begun(m) /\ LevelsOK(m) /\ Reviewed(m) /\ ~m.resumed
      BY <1>1, <1>2 DEF MemoryOK
<1>4. PICK c \in Catalogs : c = Cat(v) /\ c = m.cat
      BY <1>1, <1>2, AtWork
<1>5. gen \in [Catalogs -> Generations] /\ gen[c].state # "absent"
      BY <1>3, <1>4 DEF AcquisitionInv, TypeOK, Generations, Begun
<1>6. PICK g \in Generations :
         g = IF gen[c].state = "planned"
             THEN [state |-> "acquiring", version |-> gen[c].version + 1] ELSE gen[c]
  <2>1. PICK f : f = [state |-> "acquiring", version |-> gen[c].version + 1]
        OBVIOUS
  <2>2. "acquiring" \in Lifecycle /\ gen[c] \in Generations
        BY <1>5 DEF Lifecycle
  <2>3. f \in Generations
        BY <2>1, <2>2, NextVersion
  <2> QED BY <2>1, <2>2, <2>3
<1>7. /\ gen' = [gen EXCEPT ![c] = g] /\ g.state # "absent"
      /\ g = gen[c] \/ (g.version = gen[c].version + 1 /\ g.state # "absent")
      /\ g.state \in Frozen => gen[c].state \in Frozen
  <2>1. CASE gen[c].state = "planned"
        BY <1>4, <1>6, <2>1 DEF startAcquiring, Frozen
  <2>2. CASE gen[c].state # "planned"
        BY <1>4, <1>5, <1>6, <2>2 DEF startAcquiring
  <2> QED BY <2>1, <2>2
<1>8. Tables' /\ Grows /\ StoreOK'
      BY <1>1, <1>7, BoundsKept, LifecycleMoves
<1>9. \/ inv' = [inv EXCEPT ![v] = Idle]
      \/ inv' = [inv EXCEPT ![v].pc = "item", ![v].copy = g]
      BY <1>4, <1>6 DEF startAcquiring
<1>10. CASE inv' = [inv EXCEPT ![v] = Idle]
       BY <1>8, <1>10, IdleWell, WellLands, InvocationLands
<1>11. CASE inv' = [inv EXCEPT ![v].pc = "item", ![v].copy = g]
  <2>1. PICK d : d = [m EXCEPT !.pc = "item", !.copy = g]
        OBVIOUS
  <2>2. d \in Memory
        BY <2>1 DEF Memory, Generations
  <2>3. /\ d.pc = "item" /\ d.copy = g /\ d.cat = c /\ d.listing = m.listing /\ d.list = m.list
        /\ d.level = m.level /\ d.bad = m.bad /\ d.cancelled = m.cancelled /\ ~d.resumed
        BY <1>3, <1>4, <2>1 DEF Memory
  <2>4. gen'[c] = g /\ g.version \in Nat
        BY <1>5, <1>7 DEF Generations
  <2>5. Begun(d)'
        BY <1>3, <1>7, <2>3, <2>4 DEF Begun
  <2>6. LevelsOK(d)' /\ Reviewed(d)'
        BY <1>1, <1>3, <1>4, <2>3 DEF LevelsOK, Reviewed, parsed
  <2>7. MemoryOK(d)'
        BY <2>3, <2>5, <2>6 DEF MemoryOK, ItemPcs, BodyPcs
  <2>8. inv' = [inv EXCEPT ![v] = d]
    <3>1. inv \in [Invocations -> Memory]
          BY DEF AcquisitionInv, TypeOK
    <3> QED BY <1>2, <1>11, <2>1, <3>1 DEF Memory
  <2>9. LandsWell(v)
        BY <2>2, <2>7, <2>8 DEF LandsWell
  <2> QED BY <1>8, <2>9, InvocationLands
<1> QED BY <1>9, <1>10, <1>11

\* The compare-and-set finds the very generation the invocation has read.
LEMMA UnmovedIsCopy ==
    ASSUME AcquisitionInv, NEW v \in Invocations, inv[v].pc = "reconcile", Unmoved(v)
    PROVE  gen[Cat(v)] = inv[v].copy
<1>1. Begun(inv[v]) /\ Cat(v) = inv[v].cat
      BY AtWork
<1> QED BY <1>1 DEF Begun, Unmoved

LEMMA CancelStep ==
    ASSUME AcquisitionInv, NEW v \in Invocations, CancelGeneration(v)
    PROVE  AcquisitionInv'
<1>1. /\ UNCHANGED <<row, storage, parsed, records, activation>> /\ UNCHANGED bounds
      /\ inv[v].pc = "reconcile" /\ Moved(v, "cancelled") /\ inv' = [inv EXCEPT ![v] = Idle]
      BY DEF CancelGeneration, At
<1>2. PICK c \in Catalogs : c = Cat(v)
      BY <1>1, AtWork
<1>3. gen \in [Catalogs -> Generations]
      BY DEF AcquisitionInv, TypeOK, Generations
<1>4. PICK g \in Generations : g = [state |-> "cancelled", version |-> gen[c].version + 1]
  <2>1. PICK f : f = [state |-> "cancelled", version |-> gen[c].version + 1]
        OBVIOUS
  <2>2. "cancelled" \in Lifecycle /\ gen[c] \in Generations
        BY <1>3 DEF Lifecycle
  <2> QED BY <2>1, <2>2, NextVersion
<1>5. gen' = [gen EXCEPT ![c] = g]
      BY <1>1, <1>2, <1>4 DEF Moved
<1>6. Tables' /\ Grows /\ StoreOK'
      BY <1>1, <1>4, <1>5, BoundsKept, LifecycleMoves DEF Frozen
<1> QED BY <1>1, <1>6, IdleWell, WellLands, InvocationLands

LEMMA FiniteListing == ASSUME NEW s \in Seq(Items) PROVE IsFiniteSet(Range(s))
<1>1. s \in Surjection(1 .. Len(s), Range(s)) /\ Len(s) \in Nat
      BY DEF Surjection, Range
<1>2. IsFiniteSet(1 .. Len(s))
      BY <1>1, FS_Interval
<1> QED BY <1>1, <1>2, FS_Surjection

\* Equal counts of one invocation account for every eligible item it lists.
LEMMA ReconciledIsWhole ==
    ASSUME AcquisitionInv, NEW v \in Invocations, inv[v].pc = "reconcile", MayFreeze(v),
           NEW i \in Listed(v)
    PROVE  /\ i \in Items /\ i \notin Review
           /\ i \in Eligible => <<Cat(v), i>> \in revision \cap member
<1>1. PICK m \in Memory : m = inv[v] /\ MemoryOK(m) /\ Cat(v) = m.cat
      BY AtWork
<1>2. /\ Begun(m) /\ LevelsOK(m) /\ Reviewed(m) /\ m.list = <<>> /\ ~m.cancelled
      /\ m.bad = {}
      BY <1>1 DEF MemoryOK, MayFreeze, Reconciled
<1>3. m.listing \in Seq(Items) /\ Listed(v) = Range(m.listing)
      BY <1>1, <1>2, SetsAssumption DEF Begun, Listed
<1>4. Listed(v) \subseteq Items /\ IsFiniteSet(Listed(v))
      BY <1>3, SeqFacts, FiniteListing
<1>5. i \notin Review
      BY <1>1, <1>2, <1>3, EmptyRange DEF Reviewed
<1> DEFINE Reached(k) == {j \in Listed(v) : m.level[j] >= k}
           Due == Listed(v) \cap Eligible
<1>6. m.level \in [Items -> 0 .. Member]
      BY DEF Memory
<1>7. Reached(Attached) \subseteq Due /\ Reached(Member) \subseteq Due
  <2>1. \A j \in Listed(v) : m.level[j] \in 0 .. Member
        BY <1>4, <1>6
  <2>2. \A j \in Listed(v) : m.level[j] >= Attached => j \in Eligible
        BY <1>2, <1>4 DEF LevelsOK
  <2>3. \A j \in Listed(v) : m.level[j] >= Member => m.level[j] >= Attached
        BY <2>1, ModelValues
  <2> QED BY <2>2, <2>3
<1>8. /\ Cardinality(Reached(Attached)) = Cardinality(Due)
      /\ Cardinality(Reached(Member)) = Cardinality(Reached(Attached))
      BY <1>1 DEF MayFreeze, Reconciled, Count
<1>9. Reached(Member) = Due
  <2>1. IsFiniteSet(Due)
        BY <1>4, FS_Subset
  <2> QED BY <1>7, <1>8, <2>1, FS_Subset
<1>10. i \in Eligible => <<Cat(v), i>> \in revision \cap member
  <2> SUFFICES ASSUME i \in Eligible PROVE <<m.cat, i>> \in revision \cap member
      BY <1>1
  <2>1. m.level[i] >= Member
        BY <1>9
  <2>2. m.level[i] \in 0 .. Member /\ i \in Items
        BY <1>4, <1>6
  <2>3. m.level[i] = Member
        BY <2>1, <2>2, ModelValues
  <2> QED BY <1>2, <2>2, <2>3 DEF LevelsOK
<1> QED BY <1>4, <1>5, <1>10

LEMMA FreezeStep ==
    ASSUME AcquisitionInv, NEW v \in Invocations, freezeReadyGeneration(v)
    PROVE  AcquisitionInv'
<1>1. /\ UNCHANGED <<row, storage, parsed, listed, quarantine, activation>> /\ UNCHANGED bounds
      /\ inv[v].pc = "reconcile" /\ Moved(v, "ready_for_activation") /\ MayFreeze(v)
      /\ recon' = [recon EXCEPT ![Cat(v)] = Listed(v)] /\ inv' = [inv EXCEPT ![v] = Idle]
      BY DEF freezeReadyGeneration, At
<1>2. PICK c \in Catalogs : c = Cat(v)
      BY <1>1, AtWork
<1>3. TypeOK /\ StoreOK /\ Tables /\ gen \in [Catalogs -> Generations]
      BY TypesOfTables DEF AcquisitionInv, TypeOK, Generations
<1>4. PICK g : g = [state |-> "ready_for_activation", version |-> gen[c].version + 1]
      OBVIOUS
<1>5. /\ g \in Generations /\ g.state = "ready_for_activation"
      /\ g.version = gen[c].version + 1
  <2>1. "ready_for_activation" \in Lifecycle /\ gen[c] \in Generations
        BY <1>3 DEF Lifecycle
  <2> QED BY <1>4, <2>1, NextVersion
<1>6. PICK h \in [Catalogs -> Generations] : h = gen' /\ h = [gen EXCEPT ![c] = g]
      BY <1>1, <1>2, <1>3, <1>4, <1>5 DEF Moved
<1>7. \A d \in Catalogs : h[d] = IF d = c THEN g ELSE gen[d]
      BY <1>3, <1>6
<1>8. PICK s \in SUBSET Items : s = Listed(v)
      BY <1>1, ReconciledIsWhole
<1>9. recon' = [recon EXCEPT ![c] = s] /\ recon \in [Catalogs -> SUBSET Items]
      BY <1>1, <1>2, <1>3, <1>8 DEF TypeOK
<1>10. /\ recon' \in [Catalogs -> SUBSET Items]
       /\ \A d \in Catalogs : recon'[d] = IF d = c THEN s ELSE recon[d]
       BY <1>9
<1>11. Tables' /\ Grows
  <2>1. \A d \in Catalogs : \/ h[d] = gen[d]
                            \/ h[d].version = gen[d].version + 1 /\ h[d].state # "absent"
        BY <1>5, <1>7
  <2>2. /\ pointer' \in [cat : Catalogs \cup {None}, version : Nat]
        /\ asked' \in [Requests -> [cat : Catalogs \cup {None}, version : Nat]]
        /\ history' \subseteq Requests
        BY <1>1, <1>3 DEF TypeOK, activation
  <2>3. h \in [Catalogs -> Generations] /\ gen' = h
        BY <1>6
  <2> QED BY <1>1, <1>10, <2>1, <2>2, <2>3, BoundsKept, GenerationGrows
<1>12. UNCHANGED <<attempts, revision, member, temp, final, document, row, listed>>
       BY <1>1 DEF storage, parsed
<1>13. RowsOK' /\ AttemptsOwned' /\ AttachedIsStored' /\ SuccessIsLast' /\ RevisionIsBacked'
       BY <1>3, <1>12 DEF StoreOK, RowsOK, AttemptsOwned, AttachedIsStored, SuccessIsLast,
          RevisionIsBacked
<1>14. ReadyIsWhole'
  <2> SUFFICES ASSUME NEW d \in Catalogs, gen'[d].state \in Frozen
               PROVE  /\ recon'[d] \cap Review = {}
                      /\ \A i \in recon'[d] \cap Eligible :
                           /\ row[i].state = "attached" /\ row[i].body \in final
                           /\ <<d, i>> \in revision \cap member
      BY <1>12 DEF ReadyIsWhole
  <2>1. CASE d = c
    <3>1. recon'[d] = s
          BY <1>10, <2>1
    <3>2. ASSUME NEW i \in s
          PROVE  /\ i \in Items /\ i \notin Review
                 /\ i \in Eligible => <<c, i>> \in revision \cap member
          BY <1>1, <1>2, <1>8, ReconciledIsWhole
    <3>3. ASSUME NEW i \in s \cap Eligible
          PROVE  row[i].state = "attached" /\ row[i].body \in final
      <4>1. <<c, i>> \in revision /\ i \in Items
            BY <3>2
      <4>2. row[i].state = "attached"
            BY <1>3, <4>1 DEF StoreOK, RevisionIsBacked
      <4> QED BY <1>3, <4>1, <4>2 DEF StoreOK, AttachedIsStored
    <3> QED BY <2>1, <3>1, <3>2, <3>3
  <2>2. CASE d # c
    <3>1. recon'[d] = recon[d] /\ gen[d].state \in Frozen
          BY <1>6, <1>7, <1>10, <2>2
    <3> QED BY <1>3, <3>1 DEF StoreOK, ReadyIsWhole
  <2> QED BY <2>1, <2>2
<1>15. StoreOK'
       BY <1>13, <1>14 DEF StoreOK
<1> QED BY <1>1, <1>11, <1>15, IdleWell, WellLands, InvocationLands

-----------------------------------------------------------------------------
(* The operator.                                                           *)

\* A step that leaves the memories alone.
LEMMA OperatorMoves ==
    ASSUME AcquisitionInv, UNCHANGED inv, Tables', Grows, StoreOK'
    PROVE  AcquisitionInv'
<1>1. Tables /\ inv \in [Invocations -> Memory]
      BY TypesOfTables DEF AcquisitionInv
<1>2. ASSUME NEW w \in Invocations PROVE MemoryOK(inv[w])'
  <2>1. PICK m \in Memory : m = inv[w] /\ inv'[w] = m
        BY <1>1
  <2>2. MemoryOK(m)
        BY <2>1 DEF AcquisitionInv
  <2>3. MemoryOK(m)'
        BY <1>1, <2>2, MemoryKept
  <2> QED BY <2>1, <2>3
<1> QED BY <1>1, <1>2, TypesOfTables DEF AcquisitionInv

LEMMA AskStep ==
    ASSUME AcquisitionInv, NEW q \in Requests, NEW c \in Catalogs, Ask(q, c)
    PROVE  AcquisitionInv'
<1>1. /\ asked' = [asked EXCEPT ![q] = [cat |-> c, version |-> pointer.version]]
      /\ UNCHANGED <<gen, row, attempts, revision, recon, pointer, history, inv>>
      /\ UNCHANGED <<temp, final, document, member, listed, quarantine, starts, faults>>
      BY DEF Ask, storage, parsed, records, bounds
<1>2. Tables /\ TypeOK /\ StoreOK
      BY TypesOfTables DEF AcquisitionInv
<1>3. PICK a \in [cat : Catalogs \cup {None}, version : Nat] :
         a = [cat |-> c, version |-> pointer.version]
      BY <1>2 DEF TypeOK
<1>4. asked' \in [Requests -> [cat : Catalogs \cup {None}, version : Nat]]
      BY <1>1, <1>2, <1>3 DEF TypeOK
<1>5. Tables'
      BY <1>1, <1>2, <1>4 DEF Tables
<1>6. Grows
      BY <1>1, <1>2, UnchangedGrows DEF Grows
<1>7. StoreOK'
      BY <1>1, <1>2, <1>5, <1>6, StoreKept
<1> QED BY <1>1, <1>5, <1>6, <1>7, OperatorMoves

\* What activation makes of the generations.
LEMMA ActivationMoves ==
    ASSUME AcquisitionInv, NEW q \in Requests, activateReadyGeneration(q)
    PROVE  /\ asked[q].cat \in Catalogs /\ gen[asked[q].cat].state = "ready_for_activation"
           /\ pointer' = [cat |-> asked[q].cat, version |-> pointer.version + 1]
           /\ gen' \in [Catalogs -> Generations]
           /\ \A d \in Catalogs :
                /\ gen'[d].state = CASE d = asked[q].cat -> "active"
                                     [] d # asked[q].cat /\ d = pointer.cat -> "superseded"
                                     [] OTHER -> gen[d].state
                /\ \/ gen'[d] = gen[d]
                   \/ gen'[d].version = gen[d].version + 1 /\ gen'[d].state # "absent"
<1>1. gen \in [Catalogs -> Generations] /\ asked[q].cat \in Catalogs \cup {None}
      BY DEF AcquisitionInv, TypeOK, Generations
<1>2. PICK c \in Catalogs : c = asked[q].cat
      BY <1>1 DEF activateReadyGeneration
<1>3. /\ gen[c].state = "ready_for_activation" /\ gen' = Activated(c)
      /\ pointer' = [cat |-> c, version |-> pointer.version + 1]
      BY <1>2 DEF activateReadyGeneration, Activatable
<1>4. ASSUME NEW d \in Catalogs
      PROVE  /\ Activated(c)[d] \in Generations
             /\ Activated(c)[d].state = CASE d = c -> "active"
                                          [] d # c /\ d = pointer.cat -> "superseded"
                                          [] OTHER -> gen[d].state
             /\ \/ Activated(c)[d] = gen[d]
                \/ /\ Activated(c)[d].version = gen[d].version + 1
                   /\ Activated(c)[d].state # "absent"
  <2>1. PICK g \in Generations : g = gen[d]
        BY <1>1
  <2>2. "active" \in Lifecycle /\ "superseded" \in Lifecycle
        BY DEF Lifecycle
  <2>3. CASE d = c
    <3>1. PICK f : f = [state |-> "active", version |-> g.version + 1]
          OBVIOUS
    <3>2. f \in Generations /\ f.state = "active" /\ f.version = g.version + 1
          BY <2>2, <3>1, NextVersion
    <3>3. Activated(c)[d] = f
          BY <2>1, <2>3, <3>1 DEF Activated
    <3> QED BY <2>1, <2>3, <3>2, <3>3
  <2>4. CASE d # c /\ d = pointer.cat
    <3>1. PICK f : f = [state |-> "superseded", version |-> g.version + 1]
          OBVIOUS
    <3>2. f \in Generations /\ f.state = "superseded" /\ f.version = g.version + 1
          BY <2>2, <3>1, NextVersion
    <3>3. Activated(c)[d] = f
          BY <2>1, <2>4, <3>1 DEF Activated
    <3> QED BY <2>1, <2>4, <3>2, <3>3
  <2>5. CASE d # c /\ d # pointer.cat
    <3>1. Activated(c)[d] = gen[d]
          BY <2>5 DEF Activated
    <3> QED BY <2>1, <2>5, <3>1
  <2> QED BY <2>3, <2>4, <2>5
<1>5. Activated(c) \in [Catalogs -> Generations]
  <2>1. Activated(c) = [d \in Catalogs |-> Activated(c)[d]]
        BY DEF Activated
  <2> QED BY <1>4, <2>1
<1> QED BY <1>2, <1>3, <1>4, <1>5

LEMMA ActivateStep ==
    ASSUME AcquisitionInv, PublishedIsFrozen, NEW q \in Requests, activateReadyGeneration(q)
    PROVE  AcquisitionInv'
<1>1. /\ history' = history \cup {q} /\ UNCHANGED <<row, storage, parsed, records, asked, inv, bounds>>
      BY DEF activateReadyGeneration
<1>2. Tables /\ TypeOK /\ StoreOK
      BY TypesOfTables DEF AcquisitionInv
<1>3. PICK h \in [Catalogs -> Generations] : h = gen'
      BY ActivationMoves
<1>4. \A d \in Catalogs : \/ h[d] = gen[d]
                          \/ h[d].version = gen[d].version + 1 /\ h[d].state # "absent"
      BY <1>3, ActivationMoves
<1>5. pointer' \in [cat : Catalogs \cup {None}, version : Nat]
  <2>1. pointer' = [cat |-> asked[q].cat, version |-> pointer.version + 1]
        /\ asked[q].cat \in Catalogs
        BY ActivationMoves
  <2>2. pointer.version \in Nat
        BY <1>2 DEF TypeOK
  <2> QED BY <2>1, <2>2
<1>6. /\ recon' \in [Catalogs -> SUBSET Items]
      /\ asked' \in [Requests -> [cat : Catalogs \cup {None}, version : Nat]]
      /\ history' \subseteq Requests /\ UNCHANGED <<recon, listed, quarantine>>
      BY <1>1, <1>2 DEF TypeOK, records
<1>7. Tables' /\ Grows
      BY <1>1, <1>3, <1>4, <1>5, <1>6, BoundsKept, GenerationGrows
<1>8. \A d \in Catalogs : gen'[d].state \in Frozen => gen[d].state \in Frozen
  <2> SUFFICES ASSUME NEW d \in Catalogs, gen'[d].state \in Frozen PROVE gen[d].state \in Frozen
      OBVIOUS
  <2>1. CASE d = asked[q].cat
        BY <2>1, ActivationMoves DEF Frozen
  <2>2. CASE d # asked[q].cat /\ d = pointer.cat
        BY <2>2 DEF PublishedIsFrozen
  <2>3. CASE d # asked[q].cat /\ d # pointer.cat
        BY <2>3, ActivationMoves
  <2> QED BY <2>1, <2>2, <2>3
<1>9. UNCHANGED <<row, attempts, revision, recon>>
      BY <1>1, <1>6 DEF parsed
<1>10. StoreOK'
       BY <1>2, <1>7, <1>8, <1>9, StoreKept
<1> QED BY <1>1, <1>7, <1>10, OperatorMoves

-----------------------------------------------------------------------------
(* The lifecycle the catalog promises.                                     *)

\* One generation goes from a state to the next one, and the pointer stays.
Advances(c, from, to) ==
    /\ gen[c].state = from
    /\ \A d \in Catalogs : gen'[d].state = IF d = c THEN to ELSE gen[d].state
    /\ UNCHANGED pointer

Steps == {<<"absent", "planned">>, <<"planned", "acquiring">>,
          <<"acquiring", "ready_for_activation">>, <<"acquiring", "cancelled">>}

SameStates == UNCHANGED pointer /\ \A d \in Catalogs : gen'[d].state = gen[d].state

LEMMA InvocationAdvances ==
    ASSUME AcquisitionInv, NEW v \in Invocations,
           \/ \E c \in Catalogs, s \in Listings : createPlanned(v, c, s)
           \/ startAcquiring(v) \/ freezeReadyGeneration(v) \/ CancelGeneration(v)
    PROVE  SameStates \/ \E c \in Catalogs, e \in Steps : Advances(c, e[1], e[2])
<1>1. gen \in [Catalogs -> Generations]
      BY DEF AcquisitionInv, TypeOK, Generations
<1>2. ASSUME NEW c \in Catalogs, NEW s \in Listings, createPlanned(v, c, s)
      PROVE  SameStates \/ Advances(c, "absent", "planned")
      BY <1>1, <1>2 DEF createPlanned, activation, SameStates, Advances
<1>3. ASSUME startAcquiring(v)
      PROVE  SameStates \/ \E c \in Catalogs : Advances(c, "planned", "acquiring")
  <2>1. PICK c \in Catalogs : c = Cat(v)
        BY <1>3, AtWork DEF startAcquiring, At
  <2>2. CASE gen[c].state = "planned"
    <3>1. gen' = [gen EXCEPT ![c] = [state |-> "acquiring", version |-> gen[c].version + 1]]
          BY <1>3, <2>1, <2>2 DEF startAcquiring
    <3>2. Advances(c, "planned", "acquiring")
          BY <1>1, <1>3, <2>2, <3>1 DEF Advances, startAcquiring, activation
    <3> QED BY <3>2
  <2>3. CASE gen[c].state # "planned"
    <3>1. gen' = [gen EXCEPT ![c] = gen[c]]
          BY <1>3, <2>1, <2>3 DEF startAcquiring
    <3> QED BY <1>1, <1>3, <3>1 DEF SameStates, startAcquiring, activation
  <2> QED BY <2>2, <2>3
<1>4. ASSUME NEW to, inv[v].pc = "reconcile", inv[v].copy.state = "acquiring", Unmoved(v),
             Moved(v, to), UNCHANGED pointer
      PROVE  \E c \in Catalogs : Advances(c, "acquiring", to)
  <2>1. PICK c \in Catalogs : c = Cat(v)
        BY <1>4, AtWork
  <2>2. gen[c].state = "acquiring"
        BY <1>4, <2>1, UnmovedIsCopy
  <2>3. Advances(c, "acquiring", to)
        BY <1>1, <1>4, <2>1, <2>2 DEF Advances, Moved
  <2> QED BY <2>3
<1>5. ASSUME freezeReadyGeneration(v)
      PROVE  \E c \in Catalogs : Advances(c, "acquiring", "ready_for_activation")
      BY <1>4, <1>5 DEF freezeReadyGeneration, At, MayFreeze, activation
<1>6. ASSUME CancelGeneration(v)
      PROVE  \E c \in Catalogs : Advances(c, "acquiring", "cancelled")
      BY <1>4, <1>6 DEF CancelGeneration, At, MayCancel, activation
<1>7. \A c \in Catalogs : \A e \in Steps :
         Advances(c, e[1], e[2]) => \E b \in Catalogs, f \in Steps : Advances(b, f[1], f[2])
      OBVIOUS
<1>8. /\ <<"absent", "planned">> \in Steps /\ <<"planned", "acquiring">> \in Steps
      /\ <<"acquiring", "ready_for_activation">> \in Steps
      /\ <<"acquiring", "cancelled">> \in Steps
      BY DEF Steps
<1>9. CASE \E c \in Catalogs, s \in Listings : createPlanned(v, c, s)
      BY <1>2, <1>7, <1>8, <1>9
<1>10. CASE startAcquiring(v)
       BY <1>3, <1>7, <1>8, <1>10
<1>11. CASE freezeReadyGeneration(v)
       BY <1>5, <1>7, <1>8, <1>11
<1>12. CASE CancelGeneration(v)
       BY <1>6, <1>7, <1>8, <1>12
<1> QED BY <1>9, <1>10, <1>11, <1>12

\* Every other step leaves the generations and the pointer alone.
LEMMA CatalogMoves ==
    ASSUME AcquisitionInv, [Next]_vars
    PROVE  \/ SameStates
           \/ \E c \in Catalogs, e \in Steps : Advances(c, e[1], e[2])
           \/ \E q \in Requests : activateReadyGeneration(q)
<1>1. ASSUME UNCHANGED <<gen, pointer>> PROVE SameStates
      BY <1>1 DEF SameStates
<1>2. CASE UNCHANGED vars
      BY <1>1, <1>2 DEF vars, activation
<1>3. ASSUME NEW q \in Requests, NEW c \in Catalogs, Ask(q, c) PROVE SameStates
      BY <1>1, <1>3 DEF Ask
<1>4. ASSUME NEW v \in Invocations, Body(v) PROVE SameStates
  <2>1. UNCHANGED <<gen, activation>>
        BY <1>4 DEF Body, StopItems, SkipItem, loadByGeneration, recoverProviderBody,
           retrieveGenerationBoundObject, RetrievalFails, CancelItem, stageSnapshot, probeFinal,
           probeTemporary, writeOnceAndVerify, promoteAndVerify, finalizeAttachment,
           deleteTemporary, ByteCountMismatch, readAttachedAdvisoryBody
  <2> QED BY <1>1, <2>1, SMTT(30) DEF activation
<1>5. ASSUME NEW v \in Invocations, Advisory(v) PROVE SameStates
  <2>1. UNCHANGED <<gen, activation>>
        BY <1>5 DEF Advisory, inspectAttempts, ParseSucceeds, SchemaFails, ParserFails,
           ParseCancelled, ParseFails, attachParsedDocument, recordAttempt, attachRevision,
           attachMembership, recordQuarantine
  <2> QED BY <1>1, <2>1 DEF activation
<1>6. ASSUME NEW v \in Invocations,
             \/ persistInventory(v) \/ Return(v) \/ StoreFails(v) \/ Misread(v)
             \/ Abort(v) \/ Crash(v)
      PROVE  SameStates
  <2>1. UNCHANGED <<gen, activation>>
        BY <1>6 DEF persistInventory, Return, StoreFails, Misread, Abort, Crash
  <2> QED BY <1>1, <2>1 DEF activation
<1>7. ASSUME NEW v \in Invocations,
             \/ \E c \in Catalogs, s \in Listings : createPlanned(v, c, s)
             \/ startAcquiring(v) \/ freezeReadyGeneration(v) \/ CancelGeneration(v)
      PROVE  SameStates \/ \E c \in Catalogs, e \in Steps : Advances(c, e[1], e[2])
      BY <1>7, InvocationAdvances
<1> QED BY <1>2, <1>3, <1>4, <1>5, <1>6, <1>7 DEF Next, Finish

LEMMA PublishedKept ==
    ASSUME AcquisitionInv, PublishedIsFrozen, [Next]_vars
    PROVE  PublishedIsFrozen'
<1>1. CASE SameStates
      BY <1>1 DEF SameStates, PublishedIsFrozen
<1>2. ASSUME NEW c \in Catalogs, NEW e \in Steps, Advances(c, e[1], e[2])
      PROVE  PublishedIsFrozen'
      BY <1>2 DEF Advances, Steps, PublishedIsFrozen, Frozen
<1>3. ASSUME NEW q \in Requests, activateReadyGeneration(q) PROVE PublishedIsFrozen'
      BY <1>3, ActivationMoves DEF PublishedIsFrozen, Frozen
<1> QED BY <1>1, <1>2, <1>3, CatalogMoves

LEMMA InitInv == Init => AcquisitionInv /\ PublishedIsFrozen
<1> SUFFICES ASSUME Init PROVE AcquisitionInv /\ PublishedIsFrozen
    OBVIOUS
<1>1. TypeOK
  <2>1. /\ gen \in [Catalogs -> [state : Lifecycle, version : Nat]]
        /\ \A c \in Catalogs : (gen[c].state = "absent") <=> (gen[c].version = 0)
        BY ModelValues DEF Init, Generations
  <2>2. /\ row \in [Items -> [owner : Catalogs \cup {None}, body : Bodies \cup {None},
                              state : {"absent", "staged", "attached", "rejected"}]]
        /\ inv \in [Invocations -> Memory]
        BY ModelValues DEF Init, Rows
  <2>3. <<>> \in Seq(Results)
        OBVIOUS
  <2>4. attempts \in [Pairs -> Seq(Results)]
        BY <2>3 DEF Init
  <2>5. /\ pointer \in [cat : Catalogs \cup {None}, version : Nat]
        /\ asked \in [Requests -> [cat : Catalogs \cup {None}, version : Nat]]
        /\ recon \in [Catalogs -> SUBSET Items]
        BY DEF Init
  <2>6. /\ temp \subseteq Pairs /\ final \subseteq Bodies /\ document \in BOOLEAN
        /\ revision \subseteq Pairs /\ member \subseteq Pairs
        /\ listed \subseteq Pairs /\ quarantine \subseteq Pairs /\ history \subseteq Requests
        BY DEF Init
  <2>7. starts \in 0 .. MaxStarts /\ faults \in 0 .. MaxFaults
        BY BoundsAssumption DEF Init
  <2> QED BY <2>1, <2>2, <2>4, <2>5, <2>6, <2>7 DEF TypeOK
<1>2. \A i \in Items : row[i].state = "absent"
      BY ModelValues DEF Init
<1>3. RowsOK /\ AttachedIsStored
      BY <1>2 DEF RowsOK, AttachedIsStored
<1>4. AttemptsOwned /\ SuccessIsLast
      BY DEF Init, AttemptsOwned, SuccessIsLast
<1>5. RevisionIsBacked
      BY DEF Init, RevisionIsBacked
<1>6. ReadyIsWhole
      BY ModelValues DEF Init, ReadyIsWhole, Frozen
<1>7. \A v \in Invocations : MemoryOK(inv[v])
      BY ModelValues DEF Init, MemoryOK
<1>8. PublishedIsFrozen
      BY SetsAssumption DEF Init, PublishedIsFrozen
<1> QED BY <1>1, <1>3, <1>4, <1>5, <1>6, <1>7, <1>8 DEF AcquisitionInv, StoreOK

LEMMA StepInv ==
    AcquisitionInv /\ PublishedIsFrozen /\ [Next]_vars => AcquisitionInv' /\ PublishedIsFrozen'
<1> SUFFICES ASSUME AcquisitionInv, PublishedIsFrozen, [Next]_vars
             PROVE  AcquisitionInv' /\ PublishedIsFrozen'
    OBVIOUS
<1>1. CASE UNCHANGED vars
  <2>1. UNCHANGED tables /\ UNCHANGED bounds /\ UNCHANGED inv
        BY <1>1 DEF vars, tables
  <2>2. Tables' /\ Grows /\ StoreOK'
        BY <2>1, BoundsKept, TablesKept
  <2> QED BY <2>1, <2>2, OperatorMoves, PublishedKept
<1>2. ASSUME NEW v \in Invocations, Body(v) PROVE AcquisitionInv'
      BY <1>2, SkipSteps, LoadStep, RecoverStep, RetrieveSteps, StageStep, ProbeSteps, PutStep,
         CopyStep, FinalizeStep, DeleteStep, MismatchStep, ReadStep DEF Body
<1>3. ASSUME NEW v \in Invocations, Advisory(v) PROVE AcquisitionInv'
      BY <1>3, InspectStep, ParseSucceedsStep, ParseFailureSteps, DocumentStep, RecordStep,
         RevisionStep, MembershipStep, QuarantineStep DEF Advisory
<1>4. ASSUME NEW v \in Invocations, Finish(v) PROVE AcquisitionInv'
      BY <1>4, InventoryStep, FreezeStep, CancelStep, StopSteps DEF Finish
<1>5. ASSUME NEW v \in Invocations,
             \/ \E c \in Catalogs, s \in Listings : createPlanned(v, c, s)
             \/ startAcquiring(v) \/ StoreFails(v) \/ Misread(v) \/ Abort(v) \/ Crash(v)
      PROVE  AcquisitionInv'
      BY <1>5, CreateStep, StartStep, StoreFailsStep, MisreadStep, AbortStep, StopSteps
<1>6. ASSUME NEW q \in Requests,
             (\E c \in Catalogs : Ask(q, c)) \/ activateReadyGeneration(q)
      PROVE  AcquisitionInv'
      BY <1>6, AskStep, ActivateStep
<1> QED BY <1>1, <1>2, <1>3, <1>4, <1>5, <1>6, PublishedKept DEF Next

-----------------------------------------------------------------------------
(* The theorems.                                                           *)

\* The inductive invariant holds of every behaviour: the tables only grow and
\* every invocation of processBoundedCandidateGeneration stands on rows that exist.
THEOREM InvariantHolds == Spec => [](AcquisitionInv /\ PublishedIsFrozen)
<1>1. Init => AcquisitionInv /\ PublishedIsFrozen
      BY InitInv
<1>2. (AcquisitionInv /\ PublishedIsFrozen) /\ [Next]_vars
        => (AcquisitionInv /\ PublishedIsFrozen)'
      BY StepInv
<1> QED BY <1>1, <1>2, PTL DEF Spec

\* Tables and memories keep their types, and a generation has a version exactly
\* when it has been planned.
THEOREM TypeCorrect == Spec => []TypeOK
<1>1. AcquisitionInv => TypeOK
      BY DEF AcquisitionInv
<1> QED BY <1>1, InvariantHolds, PTL

\* attachProviderBody and recoverProviderBody leave no attached row without its
\* body object, wherever they crash and whoever else works on the item.
THEOREM AttachedBodiesAreStored == Spec => []AttachedIsStored
<1>1. AcquisitionInv => AttachedIsStored
      BY DEF AcquisitionInv, StoreOK
<1> QED BY <1>1, InvariantHolds, PTL

\* However many invocations parse a body, no attempt follows a successful one.
THEOREM AttemptsEndWithSuccess == Spec => []SuccessIsLast
<1>1. AcquisitionInv => SuccessIsLast
      BY DEF AcquisitionInv, StoreOK
<1> QED BY <1>1, InvariantHolds, PTL

\* attachRevision writes only what a successful attempt of the same snapshot and
\* its attached body account for.
THEOREM RevisionsAreBacked == Spec => []RevisionIsBacked
<1>1. AcquisitionInv => RevisionIsBacked
      BY DEF AcquisitionInv, StoreOK
<1> QED BY <1>1, InvariantHolds, PTL

\* The counts that reconcileOsvGenerationCounts compares suffice: a generation is
\* frozen only when every eligible item of its inventory is stored, revised and a
\* member, and no item awaited a review.
THEOREM FrozenGenerationsAreWhole == Spec => []ReadyIsWhole
<1>1. AcquisitionInv => ReadyIsWhole
      BY DEF AcquisitionInv, StoreOK
<1> QED BY <1>1, InvariantHolds, PTL

-----------------------------------------------------------------------------
(* The refinement.                                                         *)

states == [c \in Catalogs |-> gen[c].state]

LEMMA CatalogInit == Init => Catalog!Init
BY ModelValues DEF Init, Catalog!Init

LEMMA CatalogStep ==
    ASSUME AcquisitionInv, [Next]_vars
    PROVE  Catalog!Next \/ UNCHANGED <<states, pointer.cat>>
<1>1. CASE SameStates
      BY <1>1 DEF SameStates, states
<1>2. ASSUME NEW c \in Catalogs, NEW e \in Steps, Advances(c, e[1], e[2]) PROVE Catalog!Next
  <2>1. PICK from : from = e[1]
        OBVIOUS
  <2>2. PICK to : to = e[2]
        OBVIOUS
  <2>3. Catalog!Step(c, from, to)
    <3>1. states' = [states EXCEPT ![c] = to] /\ states[c] = from /\ pointer' = pointer
          BY <1>2, <2>1, <2>2 DEF states, Advances
    <3> QED BY <3>1 DEF Catalog!Step, states
  <2>4. \/ from = "absent" /\ to = "planned"
        \/ from = "planned" /\ to = "acquiring"
        \/ from = "acquiring" /\ to = "ready_for_activation"
        \/ from = "acquiring" /\ to = "cancelled"
        BY <2>1, <2>2 DEF Steps
  <2>5. Catalog!Plan(c) \/ Catalog!Fill(c) \/ Catalog!Freeze(c) \/ Catalog!Cancel(c)
        BY <2>3, <2>4 DEF Catalog!Plan, Catalog!Fill, Catalog!Freeze, Catalog!Cancel
  <2> QED BY <2>5 DEF Catalog!Next
<1>3. ASSUME NEW q \in Requests, activateReadyGeneration(q) PROVE Catalog!Next
  <2>1. PICK c \in Catalogs : c = asked[q].cat
        BY <1>3, ActivationMoves
  <2>2. /\ gen[c].state = "ready_for_activation" /\ pointer'.cat = c
        /\ \A d \in Catalogs :
             gen'[d].state = CASE d = c -> "active"
                               [] d # c /\ d = pointer.cat -> "superseded"
                               [] OTHER -> gen[d].state
        BY <1>3, <2>1, ActivationMoves
  <2>3. Catalog!Publish(c)
    <3>1. states' = [d \in Catalogs |-> CASE d = c -> "active"
                                          [] d # c /\ d = pointer.cat -> "superseded"
                                          [] OTHER -> states[d]]
          BY <2>2 DEF states
    <3>2. states[c] = "ready_for_activation"
          BY <2>2 DEF states
    <3> QED BY <2>2, <3>1, <3>2 DEF Catalog!Publish, states
  <2> QED BY <2>3 DEF Catalog!Next
<1> QED BY <1>1, <1>2, <1>3, CatalogMoves

\* The acquisition implements OsvCatalog: concurrent invocations, crashes, aborts and
\* late activation requests leave the lifecycle of the generations as promised.
THEOREM Refinement == Spec => ImplementsCatalog
<1>1. Init => Catalog!Init
      BY CatalogInit
<1>2. (AcquisitionInv /\ PublishedIsFrozen) /\ [Next]_vars
        => [Catalog!Next]_<<[c \in Catalogs |-> gen[c].state], pointer.cat>>
      BY CatalogStep DEF states
<1> QED BY <1>1, <1>2, InvariantHolds, PTL DEF Spec, ImplementsCatalog, Catalog!Spec

=============================================================================
