---------------------------- MODULE EnrollProofs ----------------------------
(***************************************************************************)
(* Proofs about Enroll, for any number of machines, addresses and          *)
(* entrances, and any bound on faults.                                     *)
(***************************************************************************)
EXTENDS Enroll, TLAPS

\* No two machines send one machine-id.
Distinct == \A m, n \in Machines : mid[m] = mid[n] /\ mid[m] # Anon => m = n

\* What the row of i is worth: a machine-id in it is some machine's and, if the row is not
\* lent, that of everybody it was given to; who sent one when it was given has left it there.
RowInv(i) ==
  /\ i <= used /\ given[i] # {}
  /\ rows[i].mid # Anon => /\ \E m \in Machines : mid[m] = rows[i].mid
                           /\ ~Lent(i) => \A s \in given[i] : mid[s.of] = rows[i].mid
  /\ \A s \in given[i] : ~s.anon => rows[i].mid # Anon

StoreInv ==
  /\ OneRowPerMachine /\ MembersHaveRows
  /\ \A i \in Rows : RowInv(i)
  /\ \A i \in Ids : given[i] # {} => i <= used

\* m has a machine-id that the panel has not been told.
Untold(m) ==
  /\ \A j \in Rows : rows[j].mid # mid[m]
  /\ stray[m] # None => stray[m].mid = Anon

\* What a credential for id i is worth in the hands of m.
Belongs(i, m) ==
  /\ \E s \in given[i] : s.of = m
  /\ Known(m) /\ i \in Rows /\ rows[i].mid = Anon => Untold(m)

\* Past registration an agent has an identity, before it none; the file has none or the same.
HasIdentity(m) ==
  /\ pc[m] \in {"save", "dial", "authed", "ready", "up"} => cred[m] # None
  /\ pc[m] \in {"register", "await"} => cred[m] = None
  /\ disk[m] # None => cred[m] # None /\ cred[m].id = disk[m].id

\* Once the agent has been ready its machine-id is in its row.
Told(m) == pc[m] = "up" /\ Known(m) /\ cred[m].id \in Rows => rows[cred[m].id].mid # Anon

AgentInv(m) ==
  /\ HasIdentity(m) /\ Told(m)
  /\ stray[m] # None => stray[m].mid \in {Anon, mid[m]}
  /\ cred[m] # None => Belongs(cred[m].id, m)

EnrollInv ==
  /\ TypeOK /\ Distinct /\ StoreInv
  /\ \A m \in Machines : AgentInv(m)

USE EnrollAssumption DEF Ids, Cred, Facts, Registration, store, delete, machine, agent, Fault, GoTo

-----------------------------------------------------------------------------
\* The panel has just been installed.
LEMMA InitInv == Init => EnrollInv
<1> SUFFICES ASSUME Init PROVE EnrollInv
  OBVIOUS
<1>1. TypeOK /\ Distinct
  BY DEF Init, TypeOK, Distinct
<1>2. Rows = {}
  BY DEF Init, Rows
<1>3. StoreInv
  BY <1>2 DEF Init, StoreInv, OneRowPerMachine, MembersHaveRows
<1>4. \A m \in Machines : AgentInv(m)
  BY DEF Init, AgentInv, HasIdentity, Told
<1>5. QED
  BY <1>1, <1>3, <1>4 DEF EnrollInv

\* The row RegisterNode writes: the machine's own, one at its address that belongs to nobody
\* (or that nobody can tell), or one with an id that was never used.
LEMMA Chosen ==
  ASSUME EnrollInv, NEW f \in Facts, NEW i \in NodeFor(f)
  PROVE  /\ i \in Ids
         /\ \/ i \in Rows /\ (f.mid # Anon => rows[i].mid \in {f.mid, Anon})
            \/ i \notin Rows /\ i = used + 1
         /\ f.mid # Anon => \A j \in Rows : rows[j].mid = f.mid => i \in Rows /\ rows[i].mid = f.mid
<1>1. used \in Nat /\ rows \in [Ids -> Facts \cup {None}]
  BY DEF EnrollInv, TypeOK
<1>2. CASE SameMachine(f) # {}
  <2>1. i \in SameMachine(f)
    BY <1>2 DEF NodeFor, Match, First
  <2>2. QED
    BY <2>1 DEF SameMachine, Rows
<1>3. CASE SameMachine(f) = {} /\ SameAddr(f) # {}
  <2>1. i \in SameAddr(f)
    BY <1>3 DEF NodeFor, Match, First
  <2>2. QED
    BY <1>3, <2>1 DEF SameMachine, SameAddr, Rows
<1>4. CASE SameMachine(f) = {} /\ SameAddr(f) = {}
  <2>1. i \in Ids /\ i = used + 1
    BY <1>4 DEF NodeFor, Match, NextId
  <2>2. i \notin Rows
    BY <1>1, <2>1 DEF EnrollInv, StoreInv, RowInv, Rows
  <2>3. QED
    BY <1>4, <2>1, <2>2 DEF SameMachine
<1>5. QED
  BY <1>2, <1>3, <1>4

\* What RegisterNode does to the rows.
LEMMA Registered ==
  ASSUME EnrollInv, NEW n \in Machines, NEW f \in Facts, NEW i \in NodeFor(f), RegisterNode(n, f, i)
  PROVE  /\ i \in Ids /\ used' \in 0 .. MaxId /\ used <= used' /\ i <= used'
         /\ rows' \in [Ids -> Facts \cup {None}]
         /\ Rows' = Rows \cup {i}
         /\ \A j \in Ids : j # i => rows'[j] = rows[j]
         /\ rows'[i].mid = IF f.mid # Anon THEN f.mid ELSE IF i \in Rows THEN rows[i].mid ELSE Anon
         /\ i \in Rows /\ rows[i].mid # Anon => rows'[i].mid = rows[i].mid
         /\ i \notin Rows => i = used + 1
<1>1. /\ i \in Ids
      /\ \/ i \in Rows /\ (f.mid # Anon => rows[i].mid \in {f.mid, Anon})
         \/ i \notin Rows /\ i = used + 1
  BY Chosen
<1>2. used \in 0 .. MaxId /\ rows \in [Ids -> Facts \cup {None}]
  BY DEF EnrollInv, TypeOK
<1>3. used' = (IF i > used THEN i ELSE used)
  BY DEF RegisterNode
<1> DEFINE new == Backfilled(rows[i], f)
<1>4. rows' = [rows EXCEPT ![i] = new]
  BY DEF RegisterNode
<1>5. /\ new \in Facts
      /\ new.mid = IF f.mid # Anon THEN f.mid ELSE IF i \in Rows THEN rows[i].mid ELSE Anon
  BY <1>1, <1>2 DEF Backfilled, Rows
<1>6. new # None
  BY <1>5
<1> HIDE DEF new
<1>7. rows'[i] = new /\ \A j \in Ids : j # i => rows'[j] = rows[j]
  BY <1>1, <1>2, <1>4
<1>8. Rows' = Rows \cup {i}
  BY <1>1, <1>6, <1>7 DEF Rows
<1>9. rows' \in [Ids -> Facts \cup {None}]
  BY <1>1, <1>2, <1>4, <1>5
<1>10. used' \in 0 .. MaxId /\ used <= used' /\ i <= used'
  BY <1>1, <1>2, <1>3
<1>11. QED
  BY <1>1, <1>5, <1>7, <1>8, <1>9, <1>10

\* and to whom they have been given.
LEMMA GivenTo ==
  ASSUME EnrollInv, NEW n \in Machines, NEW f \in Facts, NEW i \in NodeFor(f), RegisterNode(n, f, i)
  PROVE  /\ given' \in [Ids -> SUBSET Registration]
         /\ given'[i] = given[i] \cup {[of |-> n, anon |-> f.mid = Anon]}
         /\ \A j \in Ids : j # i => given'[j] = given[j]
         /\ i \notin Rows => given[i] = {}
         /\ \A j \in Ids : Lent(j) => Lent(j)'
<1>1. i \in Ids /\ (i \notin Rows => i = used + 1)
  BY Registered
<1>2. given \in [Ids -> SUBSET Registration] /\ used \in Nat
  BY DEF EnrollInv, TypeOK
<1>3. [of |-> n, anon |-> f.mid = Anon] \in Registration
  OBVIOUS
<1>4. given' = [given EXCEPT ![i] = given[i] \cup {[of |-> n, anon |-> f.mid = Anon]}]
  BY DEF RegisterNode
<1>5. /\ given' \in [Ids -> SUBSET Registration]
      /\ given'[i] = given[i] \cup {[of |-> n, anon |-> f.mid = Anon]}
      /\ \A j \in Ids : j # i => given'[j] = given[j]
  BY <1>1, <1>2, <1>3, <1>4
<1>6. i \notin Rows => given[i] = {}
  BY <1>1, <1>2 DEF EnrollInv, StoreInv
<1>7. \A j \in Ids : Lent(j) => Lent(j)'
  <2>1. \A j \in Ids : given[j] \subseteq given'[j]
    BY <1>5
  <2>2. QED
    BY <2>1 DEF Lent
<1>8. QED
  BY <1>5, <1>6, <1>7

\* The row that was written is worth what the others are: a named registration is given a row
\* without a machine-id only from old agents, which lends it, or the one with its own.
LEMMA WrittenRow ==
  ASSUME EnrollInv, NEW n \in Machines, NEW f \in Facts, f.mid \in {Anon, mid[n]},
         NEW i \in NodeFor(f), RegisterNode(n, f, i), UNCHANGED mid
  PROVE  RowInv(i)'
<1>1. /\ i \in Ids /\ i <= used'
      /\ rows'[i].mid = IF f.mid # Anon THEN f.mid ELSE IF i \in Rows THEN rows[i].mid ELSE Anon
      /\ i \in Rows /\ rows[i].mid # Anon => rows'[i].mid = rows[i].mid
  BY Registered
<1>2. /\ given'[i] = given[i] \cup {[of |-> n, anon |-> f.mid = Anon]}
      /\ i \notin Rows => given[i] = {}
      /\ Lent(i) => Lent(i)'
  BY <1>1, GivenTo
<1>3. i \in Rows => RowInv(i)
  BY DEF EnrollInv, StoreInv
<1> DEFINE t == [of |-> n, anon |-> f.mid = Anon]
<1>4. /\ t \in given'[i] /\ t.of = n /\ (t.anon <=> f.mid = Anon)
      /\ \A s \in given'[i] : s \in given[i] \/ s = t
  BY <1>2
<1> HIDE DEF t
<1>5. rows'[i].mid # Anon => \E m \in Machines : mid'[m] = rows'[i].mid
  BY <1>1, <1>3 DEF RowInv
<1>6. ASSUME rows'[i].mid # Anon, ~Lent(i)', NEW s \in given'[i] PROVE mid'[s.of] = rows'[i].mid
  <2>1. s.of # n => ~s.anon
    BY <1>4, <1>6 DEF Lent
  <2>2. f.mid = Anon => s.of = n
    BY <1>4, <1>6 DEF Lent
  <2>3. CASE s \in given[i] /\ i \in Rows
    <3>1. CASE rows[i].mid # Anon
      <4>1. mid[s.of] = rows[i].mid
        BY <1>2, <1>3, <1>6, <2>3, <3>1 DEF RowInv
      <4>2. QED
        BY <1>1, <2>3, <3>1, <4>1
    <3>2. CASE rows[i].mid = Anon
      <4>1. s.anon
        BY <1>3, <2>3, <3>2 DEF RowInv
      <4>2. s.of = n
        BY <2>1, <4>1
      <4>3. QED
        BY <1>1, <1>6, <3>2, <4>2
    <3>3. QED
      BY <3>1, <3>2
  <2>4. CASE s \notin given[i] \/ i \notin Rows
    <3>1. s.of = n
      BY <1>2, <2>4
    <3>2. CASE f.mid # Anon
      BY <1>1, <3>1, <3>2
    <3>3. CASE f.mid = Anon
      <4>1. i \in Rows /\ rows[i].mid # Anon
        BY <1>1, <1>6, <3>3
      <4>2. PICK v \in given[i] : TRUE
        BY <1>3, <4>1 DEF RowInv
      <4>3. v \in given'[i] /\ v.of = n
        BY <1>2, <1>4, <1>6, <3>3, <4>2 DEF Lent
      <4>4. mid[v.of] = rows[i].mid
        BY <1>2, <1>3, <1>6, <4>1, <4>2 DEF RowInv
      <4>5. QED
        BY <1>1, <3>1, <4>1, <4>3, <4>4
    <3>4. QED
      BY <3>2, <3>3
  <2>5. QED
    BY <2>3, <2>4
<1>7. ASSUME NEW s \in given'[i], ~s.anon PROVE rows'[i].mid # Anon
  <2>1. CASE s \in given[i]
    <3>1. i \in Rows
      BY <1>2, <2>1
    <3>2. QED
      BY <1>1, <1>3, <1>7, <2>1, <3>1 DEF RowInv
  <2>2. CASE s \notin given[i]
    <3>1. f.mid # Anon
      BY <1>4, <1>7, <2>2
    <3>2. QED
      BY <1>1, <3>1
  <2>3. QED
    BY <2>1, <2>2
<1>8. QED
  BY <1>1, <1>4, <1>5, <1>6, <1>7 DEF RowInv

\* A row is written for its own machine, or for nobody's: no two rows that are not lent name
\* one machine, and the rest of the store is kept.
LEMMA StoreKept ==
  ASSUME EnrollInv, NEW n \in Machines, NEW f \in Facts, f.mid \in {Anon, mid[n]},
         NEW i \in NodeFor(f), RegisterNode(n, f, i), UNCHANGED mid
  PROVE  StoreInv'
<1>1. /\ i \in Ids /\ used' \in 0 .. MaxId /\ used <= used' /\ i <= used'
      /\ Rows' = Rows \cup {i}
      /\ \A j \in Ids : j # i => rows'[j] = rows[j]
      /\ rows'[i].mid = IF f.mid # Anon THEN f.mid ELSE IF i \in Rows THEN rows[i].mid ELSE Anon
  BY Registered
<1>2. /\ \A j \in Ids : j # i => given'[j] = given[j]
      /\ \A j \in Ids : Lent(j) => Lent(j)'
  BY GivenTo
<1>3. Rows \subseteq Ids /\ used \in Nat
  BY DEF Rows, EnrollInv, TypeOK
<1>4. ASSUME NEW l \in Rows, l # i, rows[l].mid = rows'[i].mid, rows'[i].mid # Anon PROVE Lent(i)' \/ Lent(l)'
  <2>1. i \in Rows /\ rows[i].mid = rows'[i].mid
    BY <1>1, <1>4, Chosen
  <2>2. Lent(i) \/ Lent(l)
    BY <1>4, <2>1 DEF EnrollInv, StoreInv, OneRowPerMachine
  <2>3. QED
    BY <1>1, <1>2, <1>3, <2>2
<1>5. ASSUME NEW k \in Rows', NEW l \in Rows', rows'[k].mid = rows'[l].mid, rows'[k].mid # Anon, k # l
      PROVE  Lent(k)' \/ Lent(l)'
  <2>1. CASE k # i /\ l # i
    <3>1. k \in Rows /\ l \in Rows /\ rows[k].mid = rows[l].mid /\ rows[k].mid # Anon
      BY <1>1, <1>3, <1>5, <2>1
    <3>2. Lent(k) \/ Lent(l)
      BY <1>5, <3>1 DEF EnrollInv, StoreInv, OneRowPerMachine
    <3>3. QED
      BY <1>2, <1>3, <3>1, <3>2
  <2>2. CASE k = i
    BY <1>1, <1>3, <1>4, <1>5, <2>2
  <2>3. CASE l = i
    BY <1>1, <1>3, <1>4, <1>5, <2>3
  <2>4. QED
    BY <2>1, <2>2, <2>3
<1>6. OneRowPerMachine'
  BY <1>5 DEF OneRowPerMachine
<1>7. MembersHaveRows'
  BY <1>1 DEF RegisterNode, EnrollInv, StoreInv, MembersHaveRows
<1>8. ASSUME NEW j \in Rows' PROVE RowInv(j)'
  <2>1. CASE j # i
    <3>1. j \in Rows /\ rows'[j] = rows[j] /\ given'[j] = given[j]
      BY <1>1, <1>2, <1>3, <2>1
    <3>2. RowInv(j) /\ (Lent(j)' <=> Lent(j))
      BY <3>1 DEF EnrollInv, StoreInv, Lent
    <3>3. j <= used'
      BY <1>1, <1>3, <3>1, <3>2 DEF RowInv
    <3>4. QED
      BY <3>1, <3>2, <3>3 DEF RowInv
  <2>2. QED
    BY <2>1, WrittenRow
<1>9. ASSUME NEW j \in Ids, given'[j] # {} PROVE j <= used'
  BY <1>1, <1>2, <1>3, <1>9 DEF EnrollInv, StoreInv
<1>10. QED
  BY <1>6, <1>7, <1>8, <1>9 DEF StoreInv

\* Who else holds a credential holds one that is worth as much.
LEMMA StillBelongs ==
  ASSUME EnrollInv, NEW n \in Machines, NEW f \in Facts, f.mid \in {Anon, mid[n]},
         NEW i \in NodeFor(f), RegisterNode(n, f, i), UNCHANGED mid,
         NEW m \in Machines, NEW j \in Ids, Belongs(j, m), stray'[m] \in {stray[m], None},
         n = m => f.mid = Anon \/ f = stray[m]
  PROVE  Belongs(j, m)' /\ (j \in Rows' => j \in Rows /\ (rows[j].mid # Anon => rows'[j].mid # Anon))
<1>1. /\ i \in Ids
      /\ Rows' = Rows \cup {i}
      /\ \A k \in Ids : k # i => rows'[k] = rows[k]
      /\ rows'[i].mid = IF f.mid # Anon THEN f.mid ELSE IF i \in Rows THEN rows[i].mid ELSE Anon
  BY Registered
<1>2. /\ given'[i] = given[i] \cup {[of |-> n, anon |-> f.mid = Anon]}
      /\ \A k \in Ids : k # i => given'[k] = given[k]
      /\ i \notin Rows => given[i] = {}
  BY GivenTo
<1>3. \E s \in given'[j] : s.of = m
  BY <1>2 DEF Belongs
<1>4. j \in Rows' => j \in Rows /\ (rows[j].mid # Anon => rows'[j].mid # Anon)
  BY <1>1, <1>2 DEF Belongs, Rows
<1>5. ASSUME Known(m), j \in Rows', rows'[j].mid = Anon PROVE Untold(m)'
  <2>1. Untold(m)
    BY <1>4, <1>5 DEF Belongs
  <2>2. stray'[m] # None => stray'[m].mid = Anon
    BY <2>1 DEF Untold
  <2>3. f.mid # Anon => f.mid # mid[m]
    <3>1. n = m => f.mid = Anon
      BY <2>1 DEF Untold
    <3>2. QED
      BY <1>5, <3>1 DEF EnrollInv, Distinct, Known
  <2>4. \A k \in Rows' : rows'[k].mid # mid[m]
    BY <1>1, <1>5, <2>1, <2>3 DEF Untold, Known, Rows
  <2>5. QED
    BY <2>2, <2>4 DEF Untold
<1>6. QED
  BY <1>3, <1>4, <1>5 DEF Belongs, Known

-----------------------------------------------------------------------------
\* What a step does to an agent that registers nothing: credentials go only from memory to the
\* file or back, and a request may be left behind.
Plain(n) ==
  /\ cred'[n] \in {cred[n], disk[n], None}
  /\ HasIdentity(n)'
  /\ \/ stray'[n] \in {stray[n], None}
     \/ pc[n] = "await" /\ stray'[n] = Sent(n)
  /\ pc'[n] = "up" => pc[n] = "up" /\ cred'[n] = cred[n]

\* Such steps, which leave the store and the machine-ids alone.
LEMMA PlainInv ==
  ASSUME EnrollInv, TypeOK', UNCHANGED <<rows, used, members, given, mid>>,
         \A n \in Machines : Plain(n)
  PROVE  EnrollInv'
<1>1. Rows' = Rows /\ Distinct' /\ \A i \in Ids : (Lent(i)' <=> Lent(i))
  BY DEF Rows, EnrollInv, Distinct, Lent
<1>2. StoreInv'
  <2>1. Rows \subseteq Ids
    BY DEF Rows
  <2>2. OneRowPerMachine' /\ MembersHaveRows'
    BY <1>1, <2>1 DEF EnrollInv, StoreInv, OneRowPerMachine, MembersHaveRows
  <2>3. \A i \in Rows' : RowInv(i)'
    BY <1>1, <2>1 DEF EnrollInv, StoreInv, RowInv
  <2>4. QED
    BY <2>2, <2>3 DEF EnrollInv, StoreInv
<1>3. ASSUME NEW m \in Machines PROVE AgentInv(m)'
  <2>1. AgentInv(m) /\ Plain(m) /\ (Known(m)' <=> Known(m))
    BY DEF EnrollInv, Known
  <2>2. HasIdentity(m)' /\ Told(m)'
    BY <1>1, <2>1 DEF AgentInv, Plain, Told
  <2>3. stray'[m] # None => stray'[m].mid \in {Anon, mid'[m]}
    BY <2>1 DEF AgentInv, Plain, Sent
  <2>4. cred'[m] # None => cred[m] # None /\ cred'[m].id = cred[m].id
    BY <2>1 DEF AgentInv, Plain, HasIdentity
  <2>5. ASSUME cred'[m] # None PROVE Belongs(cred[m].id, m)'
    <3>1. stray'[m] \in {stray[m], None}
      BY <2>1, <2>4, <2>5 DEF AgentInv, Plain, HasIdentity
    <3>2. Belongs(cred[m].id, m) /\ cred'[m].id = cred[m].id
      BY <2>1, <2>4, <2>5 DEF AgentInv
    <3>3. Untold(m) => Untold(m)'
      BY <1>1, <3>1 DEF Untold
    <3>4. QED
      BY <1>1, <2>1, <3>2, <3>3 DEF Belongs
  <2>6. QED
    BY <2>2, <2>3, <2>5 DEF AgentInv
<1>4. QED
  BY <1>1, <1>2, <1>3 DEF EnrollInv

\* The process starts: what it has in memory is what the file holds.
LEMMA BootInv == ASSUME EnrollInv, NEW m \in Machines, Boot(m) PROVE EnrollInv'
<1>1. TypeOK'
  BY DEF EnrollInv, TypeOK, Boot
<1>2. UNCHANGED <<rows, used, members, given, mid>>
  BY DEF Boot
<1>3. ASSUME NEW n \in Machines PROVE Plain(n)
  <2>1. TypeOK /\ HasIdentity(n)
    BY DEF EnrollInv, AgentInv
  <2>2. QED
    BY <2>1 DEF TypeOK, Plain, HasIdentity, Boot
<1>4. QED
  BY <1>1, <1>2, <1>3, PlainInv

\* A request is sent.
LEMMA RegisterInv == ASSUME EnrollInv, NEW m \in Machines, Register(m) PROVE EnrollInv'
<1>1. TypeOK'
  BY DEF EnrollInv, TypeOK, Register
<1>2. UNCHANGED <<rows, used, members, given, mid>>
  BY DEF Register
<1>3. ASSUME NEW n \in Machines PROVE Plain(n)
  <2>1. TypeOK /\ HasIdentity(n)
    BY DEF EnrollInv, AgentInv
  <2>2. QED
    BY <2>1 DEF TypeOK, Plain, HasIdentity, Register
<1>4. QED
  BY <1>1, <1>2, <1>3, PlainInv

\* The file holds the identity in memory, or nothing that can be read.
LEMMA SaveInv == ASSUME EnrollInv, NEW m \in Machines, NEW written \in BOOLEAN, Save(m, written) PROVE EnrollInv'
<1>1. TypeOK'
  BY DEF EnrollInv, TypeOK, Save
<1>2. UNCHANGED <<rows, used, members, given, mid>>
  BY DEF Save
<1>3. ASSUME NEW n \in Machines PROVE Plain(n)
  <2>1. TypeOK /\ HasIdentity(n)
    BY DEF EnrollInv, AgentInv
  <2>2. QED
    BY <2>1 DEF TypeOK, Plain, HasIdentity, Save
<1>4. QED
  BY <1>1, <1>2, <1>3, PlainInv

\* A dead entrance.
LEMMA DialFailsInv == ASSUME EnrollInv, NEW m \in Machines, DialFails(m) PROVE EnrollInv'
<1>1. TypeOK'
  BY DEF EnrollInv, TypeOK, DialFails, Rotate
<1>2. UNCHANGED <<rows, used, members, given, mid>>
  BY DEF DialFails, Rotate
<1>3. ASSUME NEW n \in Machines PROVE Plain(n)
  <2>1. TypeOK /\ HasIdentity(n)
    BY DEF EnrollInv, AgentInv
  <2>2. QED
    BY <2>1 DEF TypeOK, Plain, HasIdentity, DialFails, Rotate
<1>4. QED
  BY <1>1, <1>2, <1>3, PlainInv

\* A token that is in its row.
LEMMA AuthenticateInv == ASSUME EnrollInv, NEW m \in Machines, Authenticate(m) PROVE EnrollInv'
<1>1. TypeOK'
  BY DEF EnrollInv, TypeOK, Authenticate
<1>2. UNCHANGED <<rows, used, members, given, mid>>
  BY DEF Authenticate
<1>3. ASSUME NEW n \in Machines PROVE Plain(n)
  <2>1. TypeOK /\ HasIdentity(n)
    BY DEF EnrollInv, AgentInv
  <2>2. QED
    BY <2>1 DEF TypeOK, Plain, HasIdentity, Authenticate
<1>4. QED
  BY <1>1, <1>2, <1>3, PlainInv

\* A rejected token is forgotten, in memory and in the file.
LEMMA UnauthorizedInv == ASSUME EnrollInv, NEW m \in Machines, Unauthorized(m) PROVE EnrollInv'
<1>1. TypeOK'
  BY DEF EnrollInv, TypeOK, Unauthorized, Rotate
<1>2. UNCHANGED <<rows, used, members, given, mid>>
  BY DEF Unauthorized, Rotate
<1>3. ASSUME NEW n \in Machines PROVE Plain(n)
  <2>1. TypeOK /\ HasIdentity(n)
    BY DEF EnrollInv, AgentInv
  <2>2. QED
    BY <2>1 DEF TypeOK, Plain, HasIdentity, Unauthorized, Rotate
<1>4. QED
  BY <1>1, <1>2, <1>3, PlainInv

\* A stream becomes its node's current one.
LEMMA AttachInv == ASSUME EnrollInv, NEW m \in Machines, Attach(m) PROVE EnrollInv'
<1>1. TypeOK'
  BY DEF EnrollInv, TypeOK, Attach
<1>2. UNCHANGED <<rows, used, members, given, mid>>
  BY DEF Attach
<1>3. ASSUME NEW n \in Machines PROVE Plain(n)
  <2>1. TypeOK /\ HasIdentity(n)
    BY DEF EnrollInv, AgentInv
  <2>2. QED
    BY <2>1 DEF TypeOK, Plain, HasIdentity, Attach
<1>4. QED
  BY <1>1, <1>2, <1>3, PlainInv

\* A stream the panel has closed.
LEMMA StreamClosedInv == ASSUME EnrollInv, NEW m \in Machines, StreamClosed(m) PROVE EnrollInv'
<1>1. TypeOK'
  BY DEF EnrollInv, TypeOK, StreamClosed, Detached, HasStream, Rotate
<1>2. UNCHANGED <<rows, used, members, given, mid>>
  BY DEF StreamClosed, Detached, HasStream, Rotate
<1>3. ASSUME NEW n \in Machines PROVE Plain(n)
  <2>1. TypeOK /\ HasIdentity(n)
    BY DEF EnrollInv, AgentInv
  <2>2. QED
    BY <2>1 DEF TypeOK, Plain, HasIdentity, StreamClosed, Detached, HasStream, Rotate
<1>4. QED
  BY <1>1, <1>2, <1>3, PlainInv

\* A stream that breaks.
LEMMA StreamBreaksInv == ASSUME EnrollInv, NEW m \in Machines, StreamBreaks(m) PROVE EnrollInv'
<1>1. TypeOK'
  BY DEF EnrollInv, TypeOK, StreamBreaks, Detached, HasStream, Rotate
<1>2. UNCHANGED <<rows, used, members, given, mid>>
  BY DEF StreamBreaks, Detached, HasStream, Rotate
<1>3. ASSUME NEW n \in Machines PROVE Plain(n)
  <2>1. TypeOK /\ HasIdentity(n)
    BY DEF EnrollInv, AgentInv
  <2>2. QED
    BY <2>1 DEF TypeOK, Plain, HasIdentity, StreamBreaks, Detached, HasStream, Rotate
<1>4. QED
  BY <1>1, <1>2, <1>3, PlainInv

\* A wrong bootstrap token.
LEMMA RefuseInv == ASSUME EnrollInv, NEW m \in Machines, Refuse(m) PROVE EnrollInv'
<1>1. TypeOK'
  BY DEF EnrollInv, TypeOK, Refuse
<1>2. UNCHANGED <<rows, used, members, given, mid>>
  BY DEF Refuse
<1>3. ASSUME NEW n \in Machines PROVE Plain(n)
  <2>1. TypeOK /\ HasIdentity(n)
    BY DEF EnrollInv, AgentInv
  <2>2. QED
    BY <2>1 DEF TypeOK, Plain, HasIdentity, Refuse
<1>4. QED
  BY <1>1, <1>2, <1>3, PlainInv

\* A client that gives up.
LEMMA TimeOutInv == ASSUME EnrollInv, NEW m \in Machines, TimeOut(m) PROVE EnrollInv'
<1>1. TypeOK'
  BY DEF EnrollInv, TypeOK, TimeOut, Sent
<1>2. UNCHANGED <<rows, used, members, given, mid>>
  BY DEF TimeOut
<1>3. ASSUME NEW n \in Machines PROVE Plain(n)
  <2>1. TypeOK /\ HasIdentity(n)
    BY DEF EnrollInv, AgentInv
  <2>2. QED
    BY <2>1 DEF TypeOK, Plain, HasIdentity, TimeOut, Sent
<1>4. QED
  BY <1>1, <1>2, <1>3, PlainInv

\* The process is killed.
LEMMA CrashInv == ASSUME EnrollInv, NEW m \in Machines, Crash(m) PROVE EnrollInv'
<1>1. TypeOK'
  BY DEF EnrollInv, TypeOK, Crash, ProcessEnds, Detached, Sent
<1>2. UNCHANGED <<rows, used, members, given, mid>>
  BY DEF Crash, ProcessEnds, Detached
<1>3. ASSUME NEW n \in Machines PROVE Plain(n)
  <2>1. TypeOK /\ HasIdentity(n)
    BY DEF EnrollInv, AgentInv
  <2>2. QED
    BY <2>1 DEF TypeOK, Plain, HasIdentity, Crash, ProcessEnds, Detached, Sent
<1>4. QED
  BY <1>1, <1>2, <1>3, PlainInv

\* The file is lost.
LEMMA ReinstallInv == ASSUME EnrollInv, NEW m \in Machines, Reinstall(m) PROVE EnrollInv'
<1>1. TypeOK'
  BY DEF EnrollInv, TypeOK, Reinstall
<1>2. UNCHANGED <<rows, used, members, given, mid>>
  BY DEF Reinstall
<1>3. ASSUME NEW n \in Machines PROVE Plain(n)
  <2>1. TypeOK /\ HasIdentity(n)
    BY DEF EnrollInv, AgentInv
  <2>2. QED
    BY <2>1 DEF TypeOK, Plain, HasIdentity, Reinstall
<1>4. QED
  BY <1>1, <1>2, <1>3, PlainInv

\* Another address.
LEMMA MoveInv == ASSUME EnrollInv, NEW m \in Machines, NEW a \in Addrs, Move(m, a) PROVE EnrollInv'
<1>1. TypeOK'
  BY DEF EnrollInv, TypeOK, Move
<1>2. UNCHANGED <<rows, used, members, given, mid>>
  BY DEF Move
<1>3. ASSUME NEW n \in Machines PROVE Plain(n)
  <2>1. TypeOK /\ HasIdentity(n)
    BY DEF EnrollInv, AgentInv
  <2>2. QED
    BY <2>1 DEF TypeOK, Plain, HasIdentity, Move
<1>4. QED
  BY <1>1, <1>2, <1>3, PlainInv

\* deleteNode looks for a membership.
LEMMA DeleteCheckInv == ASSUME EnrollInv, NEW i \in Ids, DeleteCheck(i) PROVE EnrollInv'
<1>1. TypeOK'
  BY DEF EnrollInv, TypeOK, DeleteCheck
<1>2. UNCHANGED <<rows, used, members, given, mid>>
  BY DEF DeleteCheck
<1>3. ASSUME NEW n \in Machines PROVE Plain(n)
  <2>1. TypeOK /\ HasIdentity(n)
    BY DEF EnrollInv, AgentInv
  <2>2. QED
    BY <2>1 DEF TypeOK, Plain, HasIdentity, DeleteCheck
<1>4. QED
  BY <1>1, <1>2, <1>3, PlainInv

\* deleteNode closes the stream.
LEMMA KickInv == ASSUME EnrollInv, Kick PROVE EnrollInv'
<1>1. TypeOK'
  BY DEF EnrollInv, TypeOK, Kick
<1>2. UNCHANGED <<rows, used, members, given, mid>>
  BY DEF Kick
<1>3. ASSUME NEW n \in Machines PROVE Plain(n)
  <2>1. TypeOK /\ HasIdentity(n)
    BY DEF EnrollInv, AgentInv
  <2>2. QED
    BY <2>1 DEF TypeOK, Plain, HasIdentity, Kick
<1>4. QED
  BY <1>1, <1>2, <1>3, PlainInv

\* The panel restarts.
LEMMA PanelRestartInv == ASSUME EnrollInv, NEW k \in BOOLEAN, PanelRestart(k) PROVE EnrollInv'
<1>1. TypeOK'
  BY DEF EnrollInv, TypeOK, PanelRestart, HasStream
<1>2. UNCHANGED <<rows, used, members, given, mid>>
  BY DEF PanelRestart, HasStream
<1>3. ASSUME NEW n \in Machines PROVE Plain(n)
  <2>1. TypeOK /\ HasIdentity(n)
    BY DEF EnrollInv, AgentInv
  <2>2. QED
    BY <2>1 DEF TypeOK, Plain, HasIdentity, PanelRestart, HasStream
<1>4. QED
  BY <1>1, <1>2, <1>3, PlainInv

\* Rotating a token changes neither who holds one nor for which node.
LEMMA RotatedKeeps ==
  ASSUME NEW held \in [Machines -> Cred \cup {None}], NEW i \in Ids
  PROVE  /\ Rotated(held, i) \in [Machines -> Cred \cup {None}]
         /\ \A m \in Machines : /\ Rotated(held, i)[m] # None <=> held[m] # None
                                /\ held[m] # None => Rotated(held, i)[m].id = held[m].id
<1>1. [id |-> i, ok |-> FALSE] \in Cred /\ None \notin Cred
  OBVIOUS
<1>2. QED
  BY <1>1 DEF Rotated

\* What a registration leaves of an agent that keeps its place and its credential.
LEMMA Bystander ==
  ASSUME EnrollInv, NEW n \in Machines, NEW f \in Facts, f.mid \in {Anon, mid[n]},
         NEW i \in NodeFor(f), RegisterNode(n, f, i), UNCHANGED mid,
         NEW m \in Machines, n = m => f = stray[m],
         stray'[m] \in {stray[m], None}, pc'[m] = pc[m],
         cred'[m] # None <=> cred[m] # None, cred[m] # None => cred'[m].id = cred[m].id,
         disk'[m] # None <=> disk[m] # None, disk[m] # None => disk'[m].id = disk[m].id
  PROVE  AgentInv(m)'
<1>1. AgentInv(m) /\ (Known(m)' <=> Known(m)) /\ cred[m] \in Cred \cup {None}
  BY DEF EnrollInv, TypeOK, Known
<1>2. HasIdentity(m)'
  BY <1>1 DEF AgentInv, HasIdentity
<1>3. stray'[m] # None => stray'[m].mid \in {Anon, mid'[m]}
  BY <1>1 DEF AgentInv
<1>4. ASSUME cred[m] # None
      PROVE  /\ Belongs(cred[m].id, m)'
             /\ cred[m].id \in Rows' => cred[m].id \in Rows /\ (rows[cred[m].id].mid # Anon => rows'[cred[m].id].mid # Anon)
  <2>1. PICK j \in Ids : j = cred[m].id
    BY <1>1, <1>4
  <2>2. Belongs(j, m)
    BY <1>1, <1>4, <2>1 DEF AgentInv
  <2>3. Belongs(j, m)' /\ (j \in Rows' => j \in Rows /\ (rows[j].mid # Anon => rows'[j].mid # Anon))
    BY <2>2, StillBelongs
  <2>4. cred'[m].id = j
    BY <1>4, <2>1
  <2>5. QED
    BY <2>1, <2>3, <2>4 DEF Belongs
<1>5. cred'[m] # None => Belongs(cred[m].id, m)'
  BY <1>4 DEF Belongs
<1>6. Told(m)'
  <2> SUFFICES ASSUME pc[m] = "up", Known(m), cred'[m].id \in Rows' PROVE rows'[cred'[m].id].mid # Anon
    BY <1>1 DEF Told
  <2>1. cred[m] # None /\ cred'[m].id = cred[m].id
    BY <1>1 DEF AgentInv, HasIdentity
  <2>2. QED
    BY <1>1, <1>4, <2>1 DEF AgentInv, Told
<1>7. QED
  BY <1>2, <1>3, <1>5, <1>6 DEF AgentInv

\* The register handler answers its client.
LEMMA AnswerInv == ASSUME EnrollInv, NEW m \in Machines, Answer(m) PROVE EnrollInv'
<1> DEFINE f == Sent(m)
<1>1. PICK i \in NodeFor(f) :
        /\ RegisterNode(m, f, i)
        /\ cred' = [Rotated(cred, i) EXCEPT ![m] = [id |-> i, ok |-> TRUE]]
        /\ disk' = Rotated(disk, i)
  BY DEF Answer
<1>2. f \in Facts /\ f.mid = mid[m]
  BY DEF EnrollInv, TypeOK, Sent
<1> HIDE DEF f
<1>3. /\ UNCHANGED <<mid, stray>> /\ pc[m] = "await" /\ pc'[m] = "save"
      /\ \A n \in Machines : n # m => pc'[n] = pc[n]
  BY DEF Answer, EnrollInv, TypeOK
<1>4. /\ i \in Ids /\ used' \in 0 .. MaxId
      /\ rows' \in [Ids -> Facts \cup {None}]
      /\ mid[m] # Anon => rows'[i].mid # Anon
  BY <1>1, <1>2, Registered
<1>5. given' \in [Ids -> SUBSET Registration] /\ \E s \in given'[i] : s.of = m
  <2>1. /\ given' \in [Ids -> SUBSET Registration]
        /\ given'[i] = given[i] \cup {[of |-> m, anon |-> f.mid = Anon]}
    BY <1>1, <1>2, GivenTo
  <2>2. [of |-> m, anon |-> f.mid = Anon].of = m
    OBVIOUS
  <2>3. QED
    BY <2>1, <2>2
<1>6. /\ cred' \in [Machines -> Cred \cup {None}]
      /\ disk' \in [Machines -> Cred \cup {None}]
      /\ cred'[m] = [id |-> i, ok |-> TRUE]
      /\ \A n \in Machines : /\ disk'[n] # None <=> disk[n] # None
                             /\ disk[n] # None => disk'[n].id = disk[n].id
                             /\ n # m => /\ cred'[n] # None <=> cred[n] # None
                                         /\ cred[n] # None => cred'[n].id = cred[n].id
  <2>1. cred \in [Machines -> Cred \cup {None}] /\ disk \in [Machines -> Cred \cup {None}]
    BY DEF EnrollInv, TypeOK
  <2>2. /\ Rotated(cred, i) \in [Machines -> Cred \cup {None}]
        /\ \A n \in Machines : /\ Rotated(cred, i)[n] # None <=> cred[n] # None
                               /\ cred[n] # None => Rotated(cred, i)[n].id = cred[n].id
    BY <1>4, <2>1, RotatedKeeps
  <2>3. /\ disk' \in [Machines -> Cred \cup {None}]
        /\ \A n \in Machines : /\ disk'[n] # None <=> disk[n] # None
                               /\ disk[n] # None => disk'[n].id = disk[n].id
    BY <1>1, <1>4, <2>1, RotatedKeeps
  <2>4. [id |-> i, ok |-> TRUE] \in Cred
    BY <1>4
  <2>5. \A n \in Machines : n # m => cred'[n] = Rotated(cred, i)[n]
    BY <1>1, <2>2
  <2>6. QED
    BY <1>1, <2>2, <2>3, <2>4, <2>5
<1>7. TypeOK'
  BY <1>4, <1>5, <1>6 DEF EnrollInv, TypeOK, Answer, RegisterNode
<1>8. Distinct' /\ StoreInv'
  BY <1>1, <1>2, <1>3, StoreKept DEF EnrollInv, Distinct
<1>9. ASSUME NEW n \in Machines PROVE AgentInv(n)'
  <2>1. CASE n # m
    BY <1>1, <1>2, <1>3, <1>6, <2>1, Bystander
  <2>2. CASE n = m
    <3>1. cred'[m] # None /\ cred'[m].id = i
      <4>1. [id |-> i, ok |-> TRUE] \in Cred /\ None \notin Cred
        BY <1>4
      <4>2. [id |-> i, ok |-> TRUE] # None
        BY ONLY <4>1
      <4>3. QED
        BY ONLY <1>6, <4>2
    <3>2. disk'[m] = None
      BY <1>3, <1>6 DEF EnrollInv, AgentInv, HasIdentity
    <3>3. HasIdentity(m)' /\ Told(m)'
      BY <1>3, <3>1, <3>2 DEF HasIdentity, Told
    <3>4. Belongs(cred[m].id, m)'
      BY <1>3, <1>4, <1>5, <3>1 DEF Belongs, Known
    <3>5. stray'[m] # None => stray'[m].mid \in {Anon, mid'[m]}
      BY <1>3 DEF EnrollInv, AgentInv
    <3>6. QED
      BY <2>2, <3>3, <3>4, <3>5 DEF AgentInv
  <2>3. QED
    BY <2>1, <2>2
<1>10. QED
  BY <1>7, <1>8, <1>9 DEF EnrollInv

\* The handler serves a request that nobody waits for: tokens are rotated behind their holders' backs.
LEMMA AnswerNobodyInv == ASSUME EnrollInv, NEW m \in Machines, AnswerNobody(m) PROVE EnrollInv'
<1> DEFINE f == stray[m]
<1>1. PICK i \in NodeFor(f) :
        /\ RegisterNode(m, f, i)
        /\ cred' = Rotated(cred, i)
        /\ disk' = Rotated(disk, i)
  BY DEF AnswerNobody
<1>2. f \in Facts /\ f.mid \in {Anon, mid[m]}
  BY DEF EnrollInv, TypeOK, AgentInv, AnswerNobody
<1>3. UNCHANGED <<mid, pc>> /\ \A n \in Machines : stray'[n] \in {stray[n], None}
  BY DEF AnswerNobody, EnrollInv, TypeOK
<1>4. i \in Ids /\ used' \in 0 .. MaxId /\ rows' \in [Ids -> Facts \cup {None}]
  BY <1>1, <1>2, Registered
<1>5. given' \in [Ids -> SUBSET Registration]
  BY <1>1, <1>2, GivenTo
<1>6. /\ cred' \in [Machines -> Cred \cup {None}]
      /\ disk' \in [Machines -> Cred \cup {None}]
      /\ \A n \in Machines : /\ disk'[n] # None <=> disk[n] # None
                             /\ disk[n] # None => disk'[n].id = disk[n].id
                             /\ cred'[n] # None <=> cred[n] # None
                             /\ cred[n] # None => cred'[n].id = cred[n].id
  <2>1. cred \in [Machines -> Cred \cup {None}] /\ disk \in [Machines -> Cred \cup {None}]
    BY DEF EnrollInv, TypeOK
  <2>2. /\ cred' \in [Machines -> Cred \cup {None}]
        /\ \A n \in Machines : /\ cred'[n] # None <=> cred[n] # None
                               /\ cred[n] # None => cred'[n].id = cred[n].id
    BY <1>1, <1>4, <2>1, RotatedKeeps
  <2>3. /\ disk' \in [Machines -> Cred \cup {None}]
        /\ \A n \in Machines : /\ disk'[n] # None <=> disk[n] # None
                               /\ disk[n] # None => disk'[n].id = disk[n].id
    BY <1>1, <1>4, <2>1, RotatedKeeps
  <2>4. QED
    BY <2>2, <2>3
<1>7. TypeOK'
  BY <1>4, <1>5, <1>6 DEF EnrollInv, TypeOK, AnswerNobody, RegisterNode
<1>8. Distinct' /\ StoreInv'
  BY <1>1, <1>2, <1>3, StoreKept DEF EnrollInv, Distinct
<1>9. ASSUME NEW n \in Machines PROVE AgentInv(n)'
  <2> DEFINE g == stray[m]
  <2>1. m = n => f = stray[n]
    OBVIOUS
  <2>2. QED
    BY <1>1, <1>2, <1>3, <1>6, <2>1, Bystander
<1>10. QED
  BY <1>7, <1>8, <1>9 DEF EnrollInv

\* The facts of the moment are written to the row of the stream: a row that is not lent has the
\* machine's own id already, or none, and then no other row has it.
LEMMA ReadyInv == ASSUME EnrollInv, NEW m \in Machines, Ready(m) PROVE EnrollInv'
<1>1. /\ UNCHANGED <<used, members, given, mid, addr, cred, disk, stray>> /\ cred[m] # None
      /\ \A n \in Machines : pc'[n] = pc[n] \/ (n = m /\ pc'[n] = "up")
  BY DEF Ready, EnrollInv, TypeOK, AgentInv, HasIdentity
<1> DEFINE i == cred[m].id
           f == [mid |-> mid[m], addr |-> addr[m]]
<1>2. /\ i \in Ids /\ f \in Facts /\ f.mid = mid[m] /\ rows \in [Ids -> Facts \cup {None}]
      /\ Rows \subseteq Ids
  BY <1>1 DEF EnrollInv, TypeOK, Rows
<1>3. Belongs(i, m)
  BY <1>1 DEF EnrollInv, AgentInv
<1>4. i \in Rows => /\ Backfilled(rows[i], f) \in Facts
                    /\ Backfilled(rows[i], f).mid = IF Known(m) THEN mid[m] ELSE rows[i].mid
  BY <1>2 DEF Backfilled, Rows, Known
<1>5. rows' = IF i \in Rows THEN [rows EXCEPT ![i] = Backfilled(rows[i], f)] ELSE rows
  BY <1>2 DEF Ready, Rows
<1> HIDE DEF f, i
<1>6. /\ rows' \in [Ids -> Facts \cup {None}] /\ Rows' = Rows
      /\ \A j \in Rows : j # i => rows'[j] = rows[j]
      /\ i \in Rows => rows'[i].mid = IF Known(m) THEN mid[m] ELSE rows[i].mid
  BY <1>2, <1>4, <1>5 DEF Rows
<1>7. \A j \in Rows : rows[j].mid # Anon => rows'[j].mid # Anon
  BY <1>6 DEF Known
<1>8. (\A j \in Ids : Lent(j)' <=> Lent(j)) /\ Distinct' /\ (\A n \in Machines : Known(n)' <=> Known(n))
  BY <1>1 DEF Lent, EnrollInv, Distinct, Known
<1>9. i \in Rows /\ ~Lent(i) /\ rows[i].mid # Anon => rows'[i].mid = rows[i].mid
  <2> SUFFICES ASSUME i \in Rows, ~Lent(i), rows[i].mid # Anon, Known(m) PROVE mid[m] = rows[i].mid
    BY <1>6
  <2>1. PICK s \in given[i] : s.of = m
    BY <1>3 DEF Belongs
  <2>2. QED
    BY <2>1 DEF EnrollInv, StoreInv, RowInv
<1>10. i \in Rows /\ rows[i].mid = Anon /\ Known(m) => \A j \in Rows : rows[j].mid # mid[m]
  BY <1>3 DEF Belongs, Untold
<1>11. OneRowPerMachine'
  <2>1. ASSUME NEW l \in Rows, i \in Rows, l # i, rows[l].mid = rows'[i].mid, rows'[i].mid # Anon PROVE Lent(i) \/ Lent(l)
    <3>1. CASE rows'[i].mid = rows[i].mid
      BY <2>1, <3>1 DEF EnrollInv, StoreInv, OneRowPerMachine
    <3>2. CASE rows'[i].mid # rows[i].mid
      BY <1>6, <1>9, <1>10, <2>1, <3>2
    <3>3. QED
      BY <3>1, <3>2
  <2>2. ASSUME NEW k \in Rows, NEW l \in Rows, rows'[k].mid = rows'[l].mid, rows'[k].mid # Anon, k # l
        PROVE  Lent(k) \/ Lent(l)
    <3>1. CASE k # i /\ l # i
      BY <1>6, <2>2, <3>1 DEF EnrollInv, StoreInv, OneRowPerMachine
    <3>2. CASE k = i
      BY <1>6, <2>1, <2>2, <3>2
    <3>3. CASE l = i
      BY <1>6, <2>1, <2>2, <3>3
    <3>4. QED
      BY <3>1, <3>2, <3>3
  <2>3. QED
    BY <1>2, <1>6, <1>8, <2>2 DEF OneRowPerMachine
<1>12. ASSUME NEW j \in Rows PROVE RowInv(j)'
  <2>1. RowInv(j) /\ (Lent(j)' <=> Lent(j)) /\ j \in Ids
    BY <1>2, <1>8 DEF EnrollInv, StoreInv
  <2>2. CASE rows'[j].mid = rows[j].mid
    BY <1>1, <2>1, <2>2 DEF RowInv
  <2>3. CASE rows'[j].mid # rows[j].mid
    <3>1. j = i /\ Known(m) /\ rows'[j].mid = mid[m] /\ mid[m] # Anon
      BY <1>6, <2>3 DEF Known
    <3>2. ASSUME ~Lent(i), NEW s \in given[i] PROVE mid[s.of] = mid[m]
      <4>1. rows[i].mid = Anon
        BY <1>9, <2>3, <3>1, <3>2
      <4>2. s.anon
        BY <2>1, <3>1, <3>2, <4>1 DEF RowInv
      <4>3. PICK t \in given[i] : t.of = m
        BY <1>3 DEF Belongs
      <4>4. s.of = m
        BY <3>2, <4>2, <4>3 DEF Lent
      <4>5. QED
        BY <4>4
    <3>3. QED
      BY <1>1, <2>1, <3>1, <3>2 DEF RowInv
  <2>4. QED
    BY <2>2, <2>3
<1>13. StoreInv'
  <2>1. MembersHaveRows'
    BY <1>1, <1>6 DEF EnrollInv, StoreInv, MembersHaveRows
  <2>2. QED
    BY <1>1, <1>6, <1>11, <1>12, <2>1 DEF EnrollInv, StoreInv
<1>14. TypeOK'
  BY <1>6 DEF EnrollInv, TypeOK, Ready
<1>15. ASSUME NEW n \in Machines PROVE AgentInv(n)'
  <2>1. AgentInv(n)
    BY DEF EnrollInv
  <2>2. HasIdentity(n)'
    BY <1>1, <2>1 DEF AgentInv, HasIdentity
  <2>3. Told(n)'
    <3>1. CASE n = m
      BY <1>1, <1>6, <1>8, <3>1 DEF Told, Known, i
    <3>2. CASE n # m
      <4>1. pc'[n] = pc[n]
        BY <1>1, <3>2
      <4>2. Told(n)
        BY <2>1 DEF AgentInv
      <4>3. QED
        BY <1>1, <1>6, <1>7, <1>8, <4>1, <4>2 DEF Told
    <3>3. QED
      BY <3>1, <3>2
  <2>4. ASSUME cred[n] # None PROVE Belongs(cred[n].id, n)'
    <3>1. PICK j \in Ids : j = cred[n].id
      BY <2>4 DEF EnrollInv, TypeOK
    <3>2. Belongs(j, n)
      BY <2>1, <2>4, <3>1 DEF AgentInv
    <3>3. ASSUME Known(n), j \in Rows, rows'[j].mid = Anon PROVE Untold(n)'
      <4>1. Untold(n)
        BY <1>7, <3>2, <3>3 DEF Belongs
      <4>2. n = m => j = i
        BY <3>1 DEF i
      <4>3. n # m
        BY <1>6, <3>3, <4>2 DEF Known
      <4>4. mid[n] # mid[m]
        BY <3>3, <4>3 DEF EnrollInv, Distinct, Known
      <4>5. \A k \in Rows : rows'[k].mid # mid[n]
        BY <1>6, <4>1, <4>4 DEF Untold
      <4>6. QED
        BY <1>1, <1>6, <4>1, <4>5 DEF Untold
    <3>4. Belongs(j, n)'
      BY <1>1, <1>6, <1>8, <3>2, <3>3 DEF Belongs
    <3>5. cred'[n].id = j
      BY <1>1, <3>1
    <3>6. QED
      BY <3>1, <3>4, <3>5 DEF Belongs
  <2>5. cred'[n] # None => Belongs(cred[n].id, n)'
    BY <1>1, <2>4 DEF Belongs
  <2>6. stray'[n] # None => stray'[n].mid \in {Anon, mid'[n]}
    BY <1>1, <2>1 DEF AgentInv
  <2>7. QED
    BY <2>2, <2>3, <2>5, <2>6 DEF AgentInv
<1>16. QED
  BY <1>8, <1>13, <1>14, <1>15 DEF EnrollInv

\* An old agent is upgraded: its machine-id is in no row and no request yet.
LEMMA UpgradeInv == ASSUME EnrollInv, NEW m \in Machines, NEW x \in Names, Upgrade(m, x) PROVE EnrollInv'
<1>1. /\ UNCHANGED <<rows, used, members, given, addr, cred, disk>>
      /\ mid[m] = Anon /\ mid'[m] = x /\ x # Anon
      /\ \A n \in Machines : mid[n] # x /\ (n # m => mid'[n] = mid[n] /\ stray'[n] = stray[n] /\ pc'[n] = pc[n])
      /\ pc'[m] = "boot" /\ stray'[m] \in {stray[m], Sent(m)}
  BY DEF Upgrade, ProcessEnds, EnrollInv, TypeOK
<1>2. TypeOK'
  BY DEF Upgrade, ProcessEnds, Detached, Sent, EnrollInv, TypeOK
<1>3. Rows' = Rows /\ Distinct' /\ \A i \in Ids : (Lent(i)' <=> Lent(i))
  BY <1>1 DEF Rows, EnrollInv, Distinct, Lent
<1>4. Rows \subseteq Ids /\ \A i \in Rows : RowInv(i)
  BY DEF Rows, EnrollInv, StoreInv
<1>5. ASSUME NEW i \in Rows PROVE rows[i].mid # x
  <2>1. rows[i].mid # Anon => \E n \in Machines : mid[n] = rows[i].mid
    BY <1>4 DEF RowInv
  <2>2. QED
    BY <1>1, <2>1
<1>6. ASSUME NEW i \in Rows PROVE RowInv(i)'
  <2>1. RowInv(i) /\ i \in Ids /\ given[i] \subseteq Registration
    BY <1>4 DEF EnrollInv, TypeOK
  <2>2. ASSUME rows[i].mid # Anon PROVE \E n \in Machines : mid'[n] = rows[i].mid
    <3>1. PICK n \in Machines : mid[n] = rows[i].mid
      BY <2>1, <2>2 DEF RowInv
    <3>2. mid'[n] = mid[n]
      BY <1>1, <2>2, <3>1
    <3>3. QED
      BY <3>1, <3>2
  <2>3. ASSUME rows[i].mid # Anon, ~Lent(i), NEW s \in given[i] PROVE mid'[s.of] = rows[i].mid
    <3>1. mid[s.of] = rows[i].mid /\ s.of \in Machines
      BY <2>1, <2>3 DEF RowInv
    <3>2. QED
      BY <1>1, <2>3, <3>1
  <2>4. QED
    BY <1>1, <1>3, <2>1, <2>2, <2>3 DEF RowInv
<1>7. StoreInv'
  <2>1. OneRowPerMachine' /\ MembersHaveRows'
    BY <1>1, <1>3, <1>4 DEF EnrollInv, StoreInv, OneRowPerMachine, MembersHaveRows
  <2>2. QED
    BY <1>1, <1>3, <1>6, <2>1 DEF EnrollInv, StoreInv
<1>8. ASSUME NEW n \in Machines PROVE AgentInv(n)'
  <2>1. AgentInv(n)
    BY DEF EnrollInv
  <2>2. HasIdentity(n)'
    <3>1. CASE n = m
      BY <1>1, <2>1, <3>1 DEF AgentInv, HasIdentity
    <3>2. CASE n # m
      BY <1>1, <2>1, <3>2 DEF AgentInv, HasIdentity
    <3>3. QED
      BY <3>1, <3>2
  <2>3. CASE n = m
    <3>1. stray'[m] # None => stray'[m].mid = Anon
      BY <1>1, <2>1, <2>3 DEF AgentInv, Sent
    <3>2. Untold(m)'
      BY <1>1, <1>3, <1>5, <3>1 DEF Untold
    <3>3. cred[m] # None => \E s \in given[cred[m].id] : s.of = m
      BY <2>1, <2>3 DEF AgentInv, Belongs
    <3>4. cred'[m] # None => Belongs(cred[m].id, m)'
      BY <1>1, <3>2, <3>3 DEF Belongs
    <3>5. Told(m)'
      BY <1>1 DEF Told
    <3>6. QED
      BY <2>2, <2>3, <3>1, <3>4, <3>5 DEF AgentInv
  <2>4. CASE n # m
    <3>1. (Known(n)' <=> Known(n)) /\ mid'[n] = mid[n] /\ stray'[n] = stray[n] /\ pc'[n] = pc[n]
      BY <1>1, <2>4 DEF Known
    <3>2. Told(n)'
      BY <1>1, <1>3, <2>1, <3>1 DEF AgentInv, Told
    <3>3. Untold(n) => Untold(n)'
      BY <1>1, <1>3, <3>1 DEF Untold
    <3>4. cred'[n] # None => Belongs(cred[n].id, n)'
      BY <1>1, <1>3, <2>1, <3>1, <3>3 DEF AgentInv, Belongs
    <3>5. QED
      BY <2>1, <2>2, <3>1, <3>2, <3>4 DEF AgentInv
  <2>5. QED
    BY <2>3, <2>4
<1>9. QED
  BY <1>2, <1>3, <1>7, <1>8 DEF EnrollInv

\* A row without a membership goes; the others stay as they are.
LEMMA DeleteRowInv == ASSUME EnrollInv, DeleteRow PROVE EnrollInv'
<1>1. UNCHANGED <<used, members, given, mid, pc, cred, disk, stray>>
  BY DEF DeleteRow
<1>2. did \in Ids /\ rows \in [Ids -> Facts \cup {None}]
  BY DEF EnrollInv, TypeOK
<1>3. /\ Rows' \subseteq Rows
      /\ \A j \in Rows' : rows'[j] = rows[j]
      /\ \A j \in Rows : j \in members => j \in Rows'
  <2>1. CASE did \in members
    BY <2>1 DEF DeleteRow, Rows
  <2>2. CASE did \notin members
    BY <1>2, <2>2 DEF DeleteRow, Rows
  <2>3. QED
    BY <2>1, <2>2
<1>4. TypeOK'
  <2>1. rows' \in [Ids -> Facts \cup {None}]
    BY <1>2 DEF DeleteRow
  <2>2. dpc' \in {"idle", "checked", "deleted"}
    BY DEF DeleteRow
  <2>3. QED
    BY <1>1, <2>1, <2>2 DEF EnrollInv, TypeOK, DeleteRow
<1>5. Distinct' /\ (\A i \in Ids : (Lent(i)' <=> Lent(i))) /\ Rows \subseteq Ids
  BY <1>1 DEF EnrollInv, Distinct, Lent, Rows
<1>6. StoreInv'
  <2>1. OneRowPerMachine' /\ MembersHaveRows'
    BY <1>1, <1>3, <1>5 DEF EnrollInv, StoreInv, OneRowPerMachine, MembersHaveRows
  <2>2. \A j \in Rows' : RowInv(j)'
    BY <1>1, <1>3, <1>5 DEF EnrollInv, StoreInv, RowInv
  <2>3. QED
    BY <1>1, <2>1, <2>2 DEF EnrollInv, StoreInv
<1>7. ASSUME NEW n \in Machines PROVE AgentInv(n)'
  <2>1. AgentInv(n) /\ (Known(n)' <=> Known(n))
    BY <1>1 DEF EnrollInv, Known
  <2>2. HasIdentity(n)' /\ Told(n)'
    BY <1>1, <1>3, <2>1 DEF AgentInv, HasIdentity, Told
  <2>3. Untold(n) => Untold(n)'
    BY <1>1, <1>3 DEF Untold
  <2>4. cred'[n] # None => Belongs(cred[n].id, n)'
    BY <1>1, <1>3, <2>1, <2>3 DEF AgentInv, Belongs
  <2>5. QED
    BY <1>1, <2>1, <2>2, <2>4 DEF AgentInv
<1>8. QED
  BY <1>4, <1>5, <1>6, <1>7 DEF EnrollInv

\* A membership is added for a row that exists, or taken away.
LEMMA MembershipInv ==
  ASSUME EnrollInv, NEW i \in Ids, JoinCluster(i) \/ LeaveCluster(i) PROVE EnrollInv'
<1>1. UNCHANGED <<rows, used, given, mid, pc, cred, disk, stray>> /\ Rows' = Rows
  BY DEF JoinCluster, LeaveCluster, Rows
<1>2. TypeOK'
  <2>1. CASE JoinCluster(i)
    BY <2>1 DEF EnrollInv, TypeOK, JoinCluster
  <2>2. CASE LeaveCluster(i)
    BY <2>2 DEF EnrollInv, TypeOK, LeaveCluster
  <2>3. QED
    BY <2>1, <2>2
<1>3. Distinct' /\ (\A j \in Ids : (Lent(j)' <=> Lent(j))) /\ Rows \subseteq Ids
  BY <1>1 DEF EnrollInv, Distinct, Lent, Rows
<1>4. StoreInv'
  <2>1. MembersHaveRows'
    BY <1>1 DEF EnrollInv, StoreInv, MembersHaveRows, JoinCluster, LeaveCluster, Rows
  <2>2. OneRowPerMachine'
    BY <1>1, <1>3 DEF EnrollInv, StoreInv, OneRowPerMachine
  <2>3. \A j \in Rows' : RowInv(j)'
    BY <1>1, <1>3 DEF EnrollInv, StoreInv, RowInv
  <2>4. QED
    BY <1>1, <2>1, <2>2, <2>3 DEF EnrollInv, StoreInv
<1>5. ASSUME NEW n \in Machines PROVE AgentInv(n)'
  BY <1>1 DEF EnrollInv, AgentInv, HasIdentity, Told, Belongs, Untold, Known
<1>6. QED
  BY <1>2, <1>3, <1>4, <1>5 DEF EnrollInv

\* Stuttering.
LEMMA StutterInv == ASSUME EnrollInv, UNCHANGED vars PROVE EnrollInv'
<1>1. UNCHANGED <<rows, used, members, given, conns, keyed, dpc, did, mid, addr>>
  BY DEF vars
<1>2. UNCHANGED <<pc, disk, cred, facts, stray, attempt, closed, faults>>
  BY DEF vars
<1>3. TypeOK'
  BY <1>1, <1>2 DEF EnrollInv, TypeOK
<1>4. ASSUME NEW n \in Machines PROVE Plain(n)
  BY <1>2 DEF EnrollInv, AgentInv, HasIdentity, Plain
<1>5. QED
  BY <1>1, <1>3, <1>4, PlainInv

\* Every step keeps the invariant.
LEMMA StepInv == EnrollInv /\ [Next]_vars => EnrollInv'
<1> SUFFICES ASSUME EnrollInv, [Next]_vars PROVE EnrollInv'
  OBVIOUS
<1>1. ASSUME NEW m \in Machines, AgentStep(m) PROVE EnrollInv'
  BY <1>1, BootInv, RegisterInv, SaveInv, DialFailsInv, AuthenticateInv, UnauthorizedInv,
     AttachInv, ReadyInv, StreamClosedInv DEF AgentStep
<1>2. ASSUME NEW m \in Machines, PanelStep(m) PROVE EnrollInv'
  BY <1>2, AnswerInv, RefuseInv DEF PanelStep
<1>3. ASSUME NEW m \in Machines, Trouble(m) PROVE EnrollInv'
  BY <1>3, SaveInv, TimeOutInv, StreamBreaksInv, CrashInv, ReinstallInv, MoveInv, UpgradeInv DEF Trouble
<1>4. CASE Deletion
  BY <1>4, DeleteRowInv, KickInv DEF Deletion
<1>5. CASE Operator
  BY <1>5, MembershipInv, DeleteCheckInv, PanelRestartInv DEF Operator
<1>6. CASE UNCHANGED vars
  BY <1>6, StutterInv
<1>7. QED
  BY <1>1, <1>2, <1>3, <1>4, <1>5, <1>6, AnswerNobodyInv DEF Next

\* EnrollInv is an invariant of registration, reconnection, upgrade and deletion.
THEOREM EnrollInvariant == Spec => []EnrollInv
<1>1. QED
  BY InitInv, StepInv, PTL DEF Spec

\* Every variable keeps its type: in particular the agent never dials an entrance that is not there.
THEOREM EnrollTypeCorrect == Spec => []TypeOK
<1>1. EnrollInv => TypeOK
  BY DEF EnrollInv
<1>2. QED
  BY <1>1, EnrollInvariant, PTL

\* However often machines are reinstalled, move, are upgraded, time out while registering or are
\* deleted and come back, RegisterNode and NodeOnline never leave two rows with one machine-id, but
\* where one of them is lent to or from an old agent.
THEOREM RowsAreUnique == Spec => []OneRowPerMachine
<1>1. EnrollInv => OneRowPerMachine
  BY DEF EnrollInv, StoreInv
<1>2. QED
  BY <1>1, EnrollInvariant, PTL

\* A token that authenticates never opens another machine's node, not even one from a row that
\* was deleted: ids are not used twice, and a row is handed to another machine only if an old
\* agent is one of the two.
THEOREM StreamsServeTheirRow == Spec => []ServesItsOwnRow
<1>1. ASSUME EnrollInv, NEW m \in Machines, HasStream(m), cred[m].id \in Rows, ~Lent(cred[m].id)
      PROVE  rows[cred[m].id].mid \in {mid[m], IF pc[m] = "up" THEN mid[m] ELSE Anon}
  <2>1. AgentInv(m) /\ cred[m] # None
    BY <1>1 DEF EnrollInv, AgentInv, HasIdentity, HasStream
  <2>2. PICK s \in given[cred[m].id] : s.of = m
    BY <2>1 DEF AgentInv, Belongs
  <2>3. rows[cred[m].id].mid \in {mid[m], Anon}
    BY <1>1, <2>2 DEF EnrollInv, StoreInv, RowInv
  <2>4. pc[m] = "up" => rows[cred[m].id].mid = mid[m]
    BY <1>1, <2>1, <2>3 DEF AgentInv, Told, Known
  <2>5. QED
    BY <2>3, <2>4
<1>2. EnrollInv => ServesItsOwnRow
  BY <1>1 DEF ServesItsOwnRow
<1>3. QED
  BY <1>2, EnrollInvariant, PTL

\* Whatever deleteNode has checked before, no membership loses its node's row.
THEOREM MembersKeepRows == Spec => []MembersHaveRows
<1>1. EnrollInv => MembersHaveRows
  BY DEF EnrollInv, StoreInv
<1>2. QED
  BY <1>1, EnrollInvariant, PTL

\* What one step does to the machine-id of a row that goes on existing and is not lent.
LEMMA StepKeepsMachine ==
  ASSUME EnrollInv, [Next]_vars, NEW i \in Rows, rows[i].mid # Anon, rows'[i] # None, ~Lent(i)
  PROVE  rows'[i].mid = rows[i].mid
<1>1. i \in Ids
  BY DEF Rows
<1>2. ASSUME NEW m \in Machines, Answer(m) PROVE rows'[i].mid = rows[i].mid
  <2>1. PICK j \in NodeFor(Sent(m)) : RegisterNode(m, Sent(m), j)
    BY <1>2 DEF Answer
  <2>2. Sent(m) \in Facts
    BY DEF EnrollInv, TypeOK, Sent
  <2>3. QED
    BY <1>1, <2>1, <2>2, Registered
<1>3. ASSUME NEW m \in Machines, AnswerNobody(m) PROVE rows'[i].mid = rows[i].mid
  <2>1. PICK j \in NodeFor(stray[m]) : RegisterNode(m, stray[m], j)
    BY <1>3 DEF AnswerNobody
  <2>2. stray[m] \in Facts
    BY <1>3 DEF EnrollInv, TypeOK, AnswerNobody
  <2>3. QED
    BY <1>1, <2>1, <2>2, Registered
<1>4. ASSUME NEW m \in Machines, Ready(m) PROVE rows'[i].mid = rows[i].mid
  <2>1. cred[m] # None /\ AgentInv(m)
    BY <1>4 DEF EnrollInv, AgentInv, HasIdentity, Ready
  <2>2. CASE cred[m].id = i
    <3>1. PICK s \in given[i] : s.of = m
      BY <2>1, <2>2 DEF AgentInv, Belongs
    <3>2. mid[m] = rows[i].mid
      BY <3>1 DEF EnrollInv, StoreInv, RowInv
    <3>3. QED
      BY <1>1, <1>4, <2>2, <3>2 DEF Ready, Backfilled, EnrollInv, TypeOK, Rows
  <2>3. CASE cred[m].id # i
    BY <1>1, <1>4, <2>3 DEF Ready, EnrollInv, TypeOK
  <2>4. QED
    BY <2>2, <2>3
<1>5. CASE DeleteRow
  BY <1>1, <1>5 DEF DeleteRow, EnrollInv, TypeOK
<1>6. CASE UNCHANGED rows
  BY <1>6
<1>7. ASSUME NEW m \in Machines, AgentStep(m) PROVE Ready(m) \/ UNCHANGED rows
  BY <1>7 DEF AgentStep, Boot, Register, Save, DialFails, Authenticate, Unauthorized, Attach, StreamClosed
<1>8. ASSUME NEW m \in Machines, PanelStep(m) PROVE Answer(m) \/ UNCHANGED rows
  BY <1>8 DEF PanelStep, Refuse
<1>9. ASSUME NEW m \in Machines, Trouble(m) PROVE UNCHANGED rows
  BY <1>9 DEF Trouble, Save, TimeOut, StreamBreaks, Crash, Upgrade, ProcessEnds, Reinstall, Move
<1>10. Deletion => DeleteRow \/ UNCHANGED rows
  BY DEF Deletion, Kick
<1>11. Operator => UNCHANGED rows
  BY DEF Operator, JoinCluster, LeaveCluster, DeleteCheck, PanelRestart
<1>12. UNCHANGED vars => UNCHANGED rows
  BY DEF vars
<1>13. QED
  BY <1>2, <1>3, <1>4, <1>5, <1>6, <1>7, <1>8, <1>9, <1>10, <1>11, <1>12 DEF Next

\* A row that has been told its machine is never handed to another while it exists and is not lent.
THEOREM RowsStayWithTheirMachine == Spec => RowsKeepTheirMachine
<1>1. EnrollInv /\ [Next]_vars =>
        [\A i \in Rows : rows[i].mid # Anon /\ rows'[i] # None /\ ~Lent(i) => rows'[i].mid = rows[i].mid]_vars
  BY StepKeepsMachine
<1>2. QED
  BY <1>1, EnrollInvariant, PTL DEF Spec, RowsKeepTheirMachine

=============================================================================
