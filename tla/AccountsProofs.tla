--------------------------- MODULE AccountsProofs ---------------------------
(***************************************************************************)
(* Proofs about Accounts, for any accounts, goroutines, imports, providers *)
(* and faults, and any bounds.                                             *)
(*                                                                         *)
(* StoreSettles and NewestTokenKept speak of the object in the pool only.  *)
(* They are inductive together with what the goroutines rely on: nobody    *)
(* points at a collected object (Refs), each goroutine has what its next   *)
(* step needs (Goroutines), an id that is not aliased has one object, so   *)
(* that everyone who works on the account works on that one (OneObject),   *)
(* and of the goroutines that refresh an account at most one has been      *)
(* given a token that the others do not have (NewestTracked).              *)
(***************************************************************************)
EXTENDS Accounts, TLAPS

\* The clones a handler keeps for Register(before).
Snapshots == {b \in [Ids -> Cred \cup {None}] : \A i \in Ids : b[i] # None => b[i].id = i}

Rows == [tok : 0..MaxToken, label : 0..1, disabled : BOOLEAN]

PCs == {"idle", "upstream", "sent", "answered", "save", "fetch", "refetch", "failed",
        "createSave", "patch", "patchSave", "deleteRow", "import", "saveAll"}

Goroutine == [pc : PCs, for : {"none", "request", "poll", "check", "import"},
              obj : Objs \cup {None}, tok : 0..MaxToken, id : Ids \cup {None},
              before : Snapshots \cup {None}, mode : {"none", "append", "replace"},
              entries : Seq(Entry), prepared : SUBSET Objs, rejected : BOOLEAN]

Types ==
    /\ heap \in [Objs -> Cred \cup {None}]
    /\ pool \in [Ids -> Objs \cup {None}]
    /\ row \in [Ids -> Rows \cup {None}]
    /\ pending \in [Objs -> 0..MaxSaves]
    /\ work \in [Workers -> Goroutine]
    /\ round \subseteq Objs
    /\ backoff \subseteq Ids
    /\ issued \in [Ids -> 0..MaxToken]
    /\ banned \subseteq Ids
    /\ aliased \subseteq Ids

\* Whoever points at an object finds it; the pool's pointers are to the
\* account's own object.
Refs ==
    /\ \A o \in Live : heap[o] # None
    /\ \A i \in Ids : pool[i] # None => heap[pool[i]].id = i

\* The steps at which a goroutine uses its object.
Pointing == {"upstream", "sent", "answered", "save", "fetch", "refetch", "failed",
             "createSave", "patch", "patchSave"}

\* What a goroutine at step g.pc has for its next step.
Equipped(g, al) ==
    /\ g.pc \in Pointing => g.obj # None
    /\ g.pc \in {"sent", "answered", "save"} => g.for # "none"
    /\ g.pc \in {"fetch", "refetch", "failed"} => g.for \in {"poll", "check"}
    /\ g.pc \in {"sent", "answered", "save"} /\ g.for = "import" => g.entries # <<>>
    /\ g.pc \in {"import", "saveAll"} => g.for = "import"
    /\ g.pc \in {"patchSave", "deleteRow"} \/ g.for = "import" => g.before \in Snapshots
    /\ g.pc = "deleteRow" => g.id \in al

Goroutines == \A w \in Workers : Equipped(work[w], aliased)

OneObject ==
    \A o, p \in Objs :
        /\ heap[o] # None /\ heap[p] # None
        /\ heap[o].id = heap[p].id /\ heap[o].id \notin aliased
        => o = p

\* Goroutine w has been given a token for object o and has not installed it;
\* it has sent one and has no answer.
Answered(w, o) == work[w].obj = o /\ work[w].pc = "answered"
Asking(w, o) == work[w].obj = o /\ work[w].pc = "sent"

\* Object o and the goroutines that refresh it, when newest is the token the
\* provider accepts and mayRotate says whether it would still replace it.
Tracked(o, newest, mayRotate) ==
    /\ heap[o].tok <= newest
    /\ heap[o].tok = newest \/ \E w \in Workers : Answered(w, o)
    /\ \A w \in Workers : Answered(w, o) => work[w].tok = newest
    /\ \A w \in Workers : Asking(w, o) => work[w].tok <= newest
    /\ mayRotate => \A w \in Workers : Answered(w, o) =>
           /\ heap[o].tok # newest
           /\ \A v \in Workers \ {w} :
                ~Answered(v, o) /\ (Asking(v, o) => work[v].tok # newest)

MayRotate(i) == i \in Rotating /\ issued[i] < MaxToken

NewestTracked ==
    \A o \in Objs :
        heap[o] # None /\ heap[o].id \notin aliased \cup lost
        => Tracked(o, issued[heap[o].id], MayRotate(heap[o].id))

AccountsInv ==
    /\ Types /\ Refs /\ Goroutines /\ OneObject /\ NewestTracked /\ StoreSettles
-----------------------------------------------------------------------------
(* Objects.                                                                *)

\* What is assumed of the constants, in the form the proofs use.
LEMMA Constants ==
  /\ None \notin Objs /\ None \notin Cred
  /\ MaxToken \in Nat /\ MaxSaves \in Nat /\ MaxSaves >= 2
  /\ 0 \in 0..MaxToken /\ MaxObjs \in Nat
BY AccountsAssumption

\* An assignment to a field of an object is an object again.
LEMMA CredUpdates ==
  ASSUME NEW c \in Cred, NEW t \in 0..MaxToken, NEW l \in 0..1, NEW b \in BOOLEAN
  PROVE  /\ [c EXCEPT !.tok = t] \in Cred
         /\ [c EXCEPT !.tok = t].id = c.id /\ [c EXCEPT !.tok = t].tok = t
         /\ [c EXCEPT !.tok = t].disabled = c.disabled
         /\ [c EXCEPT !.label = l] \in Cred
         /\ [c EXCEPT !.label = l].id = c.id /\ [c EXCEPT !.label = l].tok = c.tok
         /\ [c EXCEPT !.label = l].disabled = c.disabled
         /\ [c EXCEPT !.disabled = b] \in Cred
         /\ [c EXCEPT !.disabled = b].id = c.id /\ [c EXCEPT !.disabled = b].tok = c.tok
         /\ [c EXCEPT !.disabled = b].disabled = b
         /\ [c EXCEPT !.dirty = b] \in Cred
         /\ [c EXCEPT !.dirty = b].id = c.id /\ [c EXCEPT !.dirty = b].tok = c.tok
         /\ [c EXCEPT !.dirty = b].disabled = c.disabled
         /\ [c EXCEPT !.dirty = b].dirty = b
         /\ RowOf([c EXCEPT !.dirty = b]) = RowOf(c)
BY DEF Cred, RowOf

\* An object and a row, each as the other.
LEMMA RowsAndCreds ==
  /\ \A c \in Cred : RowOf(c) \in Rows /\ c.id \in Ids /\ c.tok \in 0..MaxToken
                     /\ c.disabled \in BOOLEAN
  /\ \A i \in Ids : \A r \in Rows : /\ FromRow(i, r) \in Cred /\ FromRow(i, r).id = i
                                    /\ FromRow(i, r).tok = r.tok
                                    /\ RowOf(FromRow(i, r)) = r
BY DEF Cred, Rows, RowOf, FromRow

\* Everybody's pointers are among the known objects, and those exist.
LEMMA KnownObjects ==
  ASSUME Types, Refs
  PROVE  /\ Live \subseteq Objs
         /\ \A o \in Live : heap[o] \in Cred /\ heap[o] # None
         /\ \A i \in Ids : pool[i] # None => pool[i] \in Live /\ heap[pool[i]].id = i
         /\ round \subseteq Live
         /\ \A w \in Workers : work[w].obj \in Live \cup {None}
         /\ \A w \in Workers : work[w].prepared \subseteq Live
         /\ \A o \in Objs : pending[o] > 0 => o \in Live
<1>1. /\ \A i \in Ids : pool[i] \in Objs \cup {None}
      /\ \A w \in Workers : work[w].obj \in Objs \cup {None} /\ work[w].prepared \subseteq Objs
  BY DEF Types, Goroutine
<1>2. Live \subseteq Objs
  BY DEF Live
<1>3. \A o \in Live : heap[o] \in Cred /\ heap[o] # None
  BY <1>2 DEF Types, Refs
<1>4. \A i \in Ids : pool[i] # None => pool[i] \in Live /\ heap[pool[i]].id = i
  BY <1>1 DEF Refs, Live
<1>5. \A w \in Workers : work[w].obj \in Live \cup {None} /\ work[w].prepared \subseteq Live
  BY <1>1 DEF Live
<1>6. round \subseteq Live /\ \A o \in Objs : pending[o] > 0 => o \in Live
  BY DEF Types, Live
<1> QED BY <1>2, <1>3, <1>4, <1>5, <1>6

\* After a step that leaves h on the heap, collected or not, nobody points at a
\* missing object when all pointers are into L, where h has objects.
LEMMA RefsKept ==
  ASSUME NEW h \in [Objs -> Cred \cup {None}], Heap(h) \/ heap' = h,
         NEW L \in SUBSET Objs, \A o \in L : h[o] # None,
         \A i \in Ids : pool'[i] # None => pool'[i] \in L /\ h[pool'[i]].id = i,
         round' \subseteq L,
         \A w \in Workers : work'[w].obj \in L \cup {None} /\ work'[w].prepared \subseteq L,
         \A o \in Objs : pending'[o] > 0 => o \in L
  PROVE  /\ heap' \in [Objs -> Cred \cup {None}]
         /\ Refs'
         /\ \A o \in Objs : heap'[o] = None \/ heap'[o] = h[o]
         /\ \A i \in Ids : pool'[i] # None => heap'[pool'[i]] = h[pool'[i]]
<1>1. Live' \subseteq L
  BY Constants DEF Live
<1>2. /\ heap' \in [Objs -> Cred \cup {None}]
      /\ \A o \in Objs : heap'[o] = None \/ heap'[o] = h[o]
      /\ \A o \in Objs : o \in Live' => heap'[o] = h[o]
  BY DEF Heap
<1>3. \A i \in Ids : pool'[i] # None => pool'[i] \in Live'
  BY DEF Live
<1>4. \A i \in Ids : pool'[i] # None => heap'[pool'[i]] = h[pool'[i]]
  BY <1>2, <1>3
<1>5. \A o \in Live' : heap'[o] # None
  BY <1>1, <1>2
<1>6. Refs'
  BY <1>4, <1>5 DEF Refs
<1> QED BY <1>2, <1>4, <1>6
\* A goroutine that goes on without having been given a token: when it sends
\* one, it is the one its object has.
NoToken(v) ==
    /\ work[v].pc # "answered"
    /\ work'[v].pc # "answered"
    /\ work'[v].pc = "sent" => work'[v].tok = heap[work'[v].obj].tok

\* Such goroutines leave the bookkeeping about an object's token as it is.
LEMMA TrackedKept ==
  ASSUME NEW o \in Objs, NEW n \in 0..MaxToken, NEW m, Tracked(o, n, m),
         heap'[o].tok = heap[o].tok, heap[o].tok \in 0..MaxToken,
         \A v \in Workers : work'[v] = work[v] \/ NoToken(v)
  PROVE  Tracked(o, n, m)'
<1>1. \A v \in Workers : Answered(v, o)' => Answered(v, o) /\ work'[v].tok = work[v].tok
  BY DEF Answered, NoToken
<1>2. \A v \in Workers : Answered(v, o) => Answered(v, o)'
  BY DEF Answered, NoToken
<1>3. \A v \in Workers : Asking(v, o)' => \/ Asking(v, o) /\ work'[v].tok = work[v].tok
                                          \/ work'[v].tok = heap[o].tok
  BY DEF Asking, NoToken
<1>4. heap'[o].tok <= n /\ (heap'[o].tok = n \/ \E w \in Workers : Answered(w, o)')
  BY <1>2 DEF Tracked
<1>5. \A w \in Workers : Answered(w, o)' => work'[w].tok = n
  BY <1>1 DEF Tracked
<1>6. \A w \in Workers : Asking(w, o)' => work'[w].tok <= n
  BY <1>3 DEF Tracked
<1>7. ASSUME m, NEW w \in Workers, Answered(w, o)'
      PROVE  /\ heap'[o].tok # n
             /\ \A v \in Workers \ {w} :
                  ~Answered(v, o)' /\ (Asking(v, o)' => work'[v].tok # n)
  <2>1. Answered(w, o)
    BY <1>1, <1>7
  <2>2. heap[o].tok # n
    BY <1>7, <2>1 DEF Tracked
  <2>3. \A v \in Workers \ {w} : ~Answered(v, o) /\ (Asking(v, o) => work[v].tok # n)
    BY <1>7, <2>1 DEF Tracked
  <2> QED BY <1>1, <1>3, <2>2, <2>3
<1> QED BY <1>4, <1>5, <1>6, <1>7 DEF Tracked

\* The same for all objects, when none appears.
LEMMA NewestKept ==
  ASSUME Types, NewestTracked,
         \A o \in Objs : heap'[o] # None =>
             heap[o] # None /\ heap'[o].id = heap[o].id /\ heap'[o].tok = heap[o].tok,
         aliased \subseteq aliased', lost \subseteq lost',
         \A i \in Ids : i \notin lost' => issued'[i] = issued[i],
         \A v \in Workers : work'[v] = work[v] \/ NoToken(v)
  PROVE  NewestTracked'
<1> SUFFICES ASSUME NEW o \in Objs, heap'[o] # None, heap'[o].id \notin aliased' \cup lost'
             PROVE  Tracked(o, issued[heap[o].id], MayRotate(heap[o].id))'
  BY DEF NewestTracked
<1> DEFINE i == heap[o].id
<1>1. heap[o] \in Cred /\ i \in Ids /\ heap[o].tok \in 0..MaxToken /\ issued[i] \in 0..MaxToken
  BY RowsAndCreds DEF Types
<1>2. heap[o] # None /\ heap'[o].id = i /\ i \notin aliased \cup lost /\ issued'[i] = issued[i]
  BY <1>1
<1>3. Tracked(o, issued[i], MayRotate(i))
  BY <1>2 DEF NewestTracked
<1>4. MayRotate(i)' = MayRotate(i)
  BY <1>2 DEF MayRotate
<1> DEFINE n == issued[i]
           m == MayRotate(i)
<1>5. n \in 0..MaxToken /\ Tracked(o, n, m)
  BY <1>1, <1>3
<1> HIDE DEF n, m
<1>6. heap'[o].tok = heap[o].tok
  OBVIOUS
<1> QED BY <1>1, <1>2, <1>4, <1>5, <1>6, TrackedKept DEF n, m

\* Nor does an id get a second object when no object appears.
LEMMA OneObjectKept ==
  ASSUME OneObject, aliased \subseteq aliased',
         \A o \in Objs : heap'[o] # None => heap[o] # None /\ heap'[o].id = heap[o].id
  PROVE  OneObject'
BY DEF OneObject

\* What the steps have in common in which no object appears and nobody is given
\* a token, part by part of the state.
HeapKept(h) ==
    /\ h \in [Objs -> Cred \cup {None}]
    /\ Heap(h) \/ heap' = h
    /\ \A o \in Objs : h[o] # None => heap[o] # None
    /\ \A o \in Objs : heap[o] # None =>
           h[o] # None /\ h[o].id = heap[o].id /\ h[o].tok = heap[o].tok

WorkKept ==
    /\ work' \in [Workers -> Goroutine]
    /\ \A v \in Workers :
         \/ work'[v] = work[v]
         \/ /\ NoToken(v) /\ Equipped(work'[v], aliased')
            /\ work'[v].obj \in Live \cup {None} /\ work'[v].prepared \subseteq Live

PoolKept ==
    /\ pool' \in [Ids -> Objs \cup {None}]
    /\ \A i \in Ids : pool'[i] # None => pool'[i] \in Live /\ heap[pool'[i]].id = i

RestKept ==
    /\ round' \subseteq Live
    /\ pending' \in [Objs -> 0..MaxSaves]
    /\ \A o \in Objs : pending'[o] > 0 => o \in Live
    /\ row' \in [Ids -> Rows \cup {None}]
    /\ backoff' \subseteq Ids /\ banned' \subseteq Ids
    /\ issued' \in [Ids -> 0..MaxToken]
    /\ \A i \in Ids : i \notin lost' => issued'[i] = issued[i]
    /\ aliased \subseteq aliased' /\ aliased' \subseteq Ids /\ lost \subseteq lost'

\* What is disabled stays disabled: on the new heap, and in the pool.
DisabledKept(h) == \A o \in Objs : heap[o] # None /\ heap[o].disabled => h[o].disabled

Sticks ==
    \A i \in Pooled : heap[pool[i]].disabled /\ pool'[i] # None => heap'[pool'[i]].disabled

\* After such a step everything holds but StoreSettles, which depends on the row.
LEMMA OrdinaryStep ==
  ASSUME AccountsInv, NEW h, HeapKept(h), WorkKept, PoolKept, RestKept
  PROVE  /\ Types' /\ Refs' /\ Goroutines' /\ OneObject' /\ NewestTracked'
         /\ \A i \in Ids : pool'[i] # None => heap'[pool'[i]] = h[pool'[i]]
         /\ DisabledKept(h) /\ (\A i \in Pooled : pool'[i] \in {pool[i], None}) => Sticks
<1> USE DEF HeapKept, WorkKept, PoolKept, RestKept
<1>1. Types /\ Refs /\ Goroutines /\ OneObject /\ NewestTracked
  BY DEF AccountsInv
<1>2. /\ Live \subseteq Objs /\ \A o \in Live : heap[o] # None
      /\ \A w \in Workers : work[w].obj \in Live \cup {None}
      /\ \A w \in Workers : work[w].prepared \subseteq Live
  BY <1>1, KnownObjects
<1>3. /\ Live \in SUBSET Objs /\ \A o \in Live : h[o] # None
      /\ \A i \in Ids : pool'[i] # None => pool'[i] \in Live /\ h[pool'[i]].id = i
      /\ \A w \in Workers : work'[w].obj \in Live \cup {None} /\ work'[w].prepared \subseteq Live
  BY <1>2
<1> DEFINE L == Live
<1> HIDE DEF L
<1>4. /\ L \in SUBSET Objs /\ \A o \in L : h[o] # None
      /\ \A i \in Ids : pool'[i] # None => pool'[i] \in L /\ h[pool'[i]].id = i
      /\ \A w \in Workers : work'[w].obj \in L \cup {None} /\ work'[w].prepared \subseteq L
      /\ round' \subseteq L /\ \A o \in Objs : pending'[o] > 0 => o \in L
  BY <1>3 DEF L
<1>5. /\ heap' \in [Objs -> Cred \cup {None}]
      /\ Refs'
      /\ \A o \in Objs : heap'[o] = None \/ heap'[o] = h[o]
      /\ \A i \in Ids : pool'[i] # None => heap'[pool'[i]] = h[pool'[i]]
  BY <1>4, RefsKept
<1>6. Types'
  BY <1>1, <1>2, <1>5 DEF Types
<1>7. Goroutines'
  BY <1>1 DEF Goroutines, Equipped
<1>8. \A o \in Objs : heap'[o] # None =>
          heap[o] # None /\ heap'[o].id = heap[o].id /\ heap'[o].tok = heap[o].tok
  BY <1>5
<1>9. OneObject'
  BY <1>1, <1>8, OneObjectKept
<1>10. NewestTracked'
  BY <1>1, <1>8, NewestKept
<1>11. DisabledKept(h) /\ (\A i \in Pooled : pool'[i] \in {pool[i], None}) => Sticks
  BY <1>2, <1>3, <1>5 DEF DisabledKept, Sticks, Pooled
<1> QED BY <1>5, <1>6, <1>7, <1>9, <1>10, <1>11
\* The steps before which a goroutine saves.
SavePCs == {"save", "createSave", "patchSave", "saveAll"}

\* A save that is due stays due, unless it is made.
LEMMA SavingKept ==
  ASSUME NEW o \in Objs, Saving(o), pending[o] > 0 => pending'[o] > 0,
         \A v \in Workers : work'[v] = work[v] \/ work[v].pc \notin SavePCs
  PROVE  Saving(o)'
BY DEF Saving, SavePCs

\* The step changes no row that matters, and what it changes of an object is
\* going to be saved.
SavesDue(h) ==
    /\ \A i \in Ids \ aliased' : row'[i] = row[i]
    /\ \A i \in Ids : pool'[i] # None /\ i \notin aliased' =>
          pool'[i] = pool[i] \/ \E u \in Objs : pool'[i] = u /\ Saving(u)'
    /\ \A o \in Objs : pending[o] > 0 => pending'[o] > 0
    /\ \A v \in Workers : work'[v] = work[v] \/ work[v].pc \notin SavePCs
    /\ \A i \in Ids : \A o \in Objs : pool[i] = o =>
          \/ RowOf(h[o]) = RowOf(heap[o]) /\ h[o].dirty = heap[o].dirty
          \/ Saving(o)'

\* An ordinary step that makes no save.
LEMMA QuietStep ==
  ASSUME AccountsInv, NEW h, HeapKept(h), WorkKept, PoolKept, RestKept, SavesDue(h)
  PROVE  /\ AccountsInv'
         /\ DisabledKept(h) /\ (\A i \in Pooled : pool'[i] \in {pool[i], None}) => Sticks
<1>1. /\ Types' /\ Refs' /\ Goroutines' /\ OneObject' /\ NewestTracked'
      /\ \A i \in Ids : pool'[i] # None => heap'[pool'[i]] = h[pool'[i]]
      /\ DisabledKept(h) /\ (\A i \in Pooled : pool'[i] \in {pool[i], None}) => Sticks
  BY OrdinaryStep
<1>2. StoreSettles'
  <2> SUFFICES ASSUME NEW i \in Ids, pool'[i] # None, i \notin aliased'
               PROVE  (Saving(pool[i]) \/ heap[pool[i]].dirty \/ row[i] = RowOf(heap[pool[i]]))'
    BY DEF StoreSettles, Pooled
  <2>0. CASE \E u \in Objs : pool'[i] = u /\ Saving(u)'
    BY <2>0 DEF Saving
  <2> SUFFICES ASSUME pool'[i] = pool[i]
               PROVE  (Saving(pool[i]) \/ heap[pool[i]].dirty \/ row[i] = RowOf(heap[pool[i]]))'
    BY <2>0 DEF SavesDue
  <2>1. i \notin aliased /\ pool'[i] = pool[i] /\ row'[i] = row[i] /\ heap'[pool[i]] = h[pool[i]]
    BY <1>1 DEF RestKept, SavesDue
  <2> DEFINE o == pool[i]
  <2>2. Saving(o) \/ heap[o].dirty \/ row[i] = RowOf(heap[o])
    BY <2>1 DEF AccountsInv, StoreSettles, Pooled
  <2>3. o \in Objs /\ pool'[i] = o /\ heap'[o] = h[o]
    BY <2>1 DEF AccountsInv, Types
  <2> SUFFICES \E u \in Objs : /\ pool'[i] = u
                               /\ Saving(u)' \/ heap'[u].dirty \/ row'[i] = RowOf(heap'[u])
    BY DEF Saving
  <2> HIDE DEF o
  <2>4. PICK u \in Objs : u = o
    BY <2>3
  <2>5. Saving(u) => Saving(u)'
    BY SavingKept DEF SavesDue
  <2>6. \/ RowOf(h[u]) = RowOf(heap[u]) /\ h[u].dirty = heap[u].dirty
        \/ Saving(u)'
    BY <2>4 DEF SavesDue, o
  <2>7. Saving(u) \/ heap[u].dirty \/ row[i] = RowOf(heap[u])
    BY <2>2, <2>4
  <2>8. pool'[i] = u /\ heap'[u] = h[u] /\ row'[i] = row[i]
    BY <2>1, <2>3, <2>4
  <2> QED BY <2>5, <2>6, <2>7, <2>8
<1> QED BY <1>1, <1>2 DEF AccountsInv

\* One goroutine makes a step of this kind.
LEMMA WorkUpdate ==
  ASSUME Types, NEW w \in Workers, NEW g \in Goroutine, work' = [work EXCEPT ![w] = g],
         work[w].pc # "answered", g.pc # "answered",
         g.pc = "sent" => g.tok = heap[g.obj].tok,
         Equipped(g, aliased'), g.obj \in Live \cup {None}, g.prepared \subseteq Live
  PROVE  /\ WorkKept
         /\ work'[w] = g /\ \A v \in Workers \ {w} : work'[v] = work[v]
<1>1. work \in [Workers -> Goroutine]
  BY DEF Types
<1>2. /\ work' \in [Workers -> Goroutine]
      /\ work'[w] = g /\ \A v \in Workers \ {w} : work'[v] = work[v]
  BY <1>1
<1>3. NoToken(w)
  BY <1>2 DEF NoToken
<1> QED BY <1>2, <1>3 DEF WorkKept

\* An idle goroutine has and needs nothing.
LEMMA IdleGoroutine ==
  /\ Idle \in Goroutine /\ Idle.pc = "idle" /\ Idle.for = "none" /\ Idle.obj = None
  /\ Idle.prepared = {} /\ Idle.tok = 0 /\ Idle.entries = <<>> /\ Idle.before = None
  /\ \A al : Equipped(Idle, al)
<1>1. <<>> \in Seq(Entry)
  OBVIOUS
<1>2. Idle \in Goroutine
  BY <1>1, Constants DEF Idle, Goroutine, PCs
<1> QED BY <1>2 DEF Idle, Equipped, Pointing

\* The heap of a step that does not touch it.
LEMMA HeapUntouched ==
  ASSUME Types, Collect \/ UNCHANGED heap
  PROVE  HeapKept(heap) /\ DisabledKept(heap)
BY DEF Types, HeapKept, Collect, DisabledKept
\* What a step leaves alone is still in order.
LEMMA RestUnchanged ==
  ASSUME Types, Refs, UNCHANGED <<pending, row, issued, banned>>,
         round' \subseteq Live, backoff' \subseteq Ids,
         aliased \subseteq aliased', aliased' \subseteq Ids, lost \subseteq lost'
  PROVE  RestKept
BY KnownObjects DEF Types, RestKept

LEMMA PoolUnchanged ==
  ASSUME Types, Refs, pool' = pool
  PROVE  PoolKept
BY KnownObjects DEF Types, PoolKept

\* A goroutine that is not about to save goes on; the pool stays, and what
\* changes of its objects has a save started.
LEMMA GoroutineStep ==
  ASSUME AccountsInv, NEW w \in Workers, NEW g \in Goroutine, work' = [work EXCEPT ![w] = g],
         work[w].pc \notin SavePCs \cup {"answered"}, g.pc # "answered",
         g.pc = "sent" => g.tok = heap[g.obj].tok,
         Equipped(g, aliased'), g.obj \in Live \cup {None}, g.prepared \subseteq Live,
         NEW h, HeapKept(h), DisabledKept(h), pool' = pool, row' = row, RestKept,
         \A o \in Objs : pending[o] > 0 => pending'[o] > 0,
         \A o \in Objs : \/ RowOf(h[o]) = RowOf(heap[o]) /\ h[o].dirty = heap[o].dirty
                         \/ pending'[o] > 0
  PROVE  AccountsInv' /\ Sticks
<1>1. Types /\ Refs
  BY DEF AccountsInv
<1>2. WorkKept /\ work'[w] = g /\ \A v \in Workers \ {w} : work'[v] = work[v]
  BY <1>1, WorkUpdate
<1>3. PoolKept
  BY <1>1, PoolUnchanged
<1>4. \A o \in Objs : pending'[o] > 0 => Saving(o)'
  BY DEF Saving
<1>5. SavesDue(h)
  BY <1>2, <1>4 DEF SavesDue
<1> QED BY <1>2, <1>3, <1>5, QuietStep DEF Pooled

\* persistCredentialAsync adds to the saves under way.
LEMMA AsyncForms ==
  ASSUME Types, NEW o \in Objs, NEW n \in Nat \ {0}, Async(o, n)
  PROVE  /\ pending' \in [Objs -> 0..MaxSaves]
         /\ pending'[o] > 0
         /\ \A u \in Objs \ {o} : pending'[u] = pending[u]
<1> DEFINE a == pending[o] + n
           m == Min({a, MaxSaves})
<1>1. pending \in [Objs -> 0..MaxSaves] /\ a \in Nat \ {0} /\ MaxSaves \in Nat /\ MaxSaves >= 2
  BY Constants DEF Types
<1>2. m \in 1..MaxSaves
  <2>1. \E x \in {a, MaxSaves} : \A y \in {a, MaxSaves} : x =< y
    <3>1. CASE a =< MaxSaves
      BY <1>1, <3>1
    <3>2. CASE ~(a =< MaxSaves)
      BY <1>1, <3>2
    <3> QED BY <3>1, <3>2
  <2>2. m \in {a, MaxSaves} /\ \A y \in {a, MaxSaves} : m =< y
    BY <2>1 DEF Min
  <2> HIDE DEF m
  <2> QED BY <1>1, <2>2
<1>3. pending' = [pending EXCEPT ![o] = m]
  BY DEF Async
<1> HIDE DEF m, a
<1> QED BY <1>1, <1>2, <1>3

\* Objects of the pool may have changed to h, with a save started for each.
PoolWritten(h) ==
    /\ HeapKept(h) /\ DisabledKept(h)
    /\ pending' \in [Objs -> 0..MaxSaves]
    /\ \A o \in Objs : pending'[o] > 0 => o \in Live
    /\ \A o \in Objs : pending[o] > 0 => pending'[o] > 0
    /\ \A o \in Objs : \/ RowOf(h[o]) = RowOf(heap[o]) /\ h[o].dirty = heap[o].dirty
                       \/ pending'[o] > 0

\* What the scheduler does to the pool's object of account i on behalf of a
\* request or a quota check.
LEMMA PoolWrites ==
  ASSUME Types, Refs, NEW i \in Ids, NEW n \in Nat, MarkAuthError(i, n) \/ RecordQuotaError(i)
  PROVE  \E h : PoolWritten(h)
<1>1. /\ heap \in [Objs -> Cred \cup {None}] /\ pool[i] \in Objs \cup {None}
      /\ pool[i] # None => pool[i] \in Live /\ heap[pool[i]] \in Cred
      /\ \A o \in Objs : pending[o] > 0 => o \in Live
  BY KnownObjects DEF Types
<1>2. CASE pending' = pending /\ Collect
  <2>1. HeapKept(heap) /\ DisabledKept(heap)
    BY <1>2, HeapUntouched
  <2>2. PoolWritten(heap)
    BY <1>1, <1>2, <2>1 DEF Types, PoolWritten
  <2> QED BY <2>2
<1>3. ASSUME pool[i] # None, RecordQuotaError(i)
      PROVE  \E h : PoolWritten(h)
  <2>1. HeapKept(heap) /\ DisabledKept(heap)
    BY <1>3, HeapUntouched DEF RecordQuotaError
  <2>2. Async(pool[i], 1)
    BY <1>3 DEF RecordQuotaError
  <2>3. /\ pending' \in [Objs -> 0..MaxSaves]
        /\ pending'[pool[i]] > 0
        /\ \A u \in Objs \ {pool[i]} : pending'[u] = pending[u]
    BY <1>1, <1>3, <2>2, AsyncForms
  <2>4. PoolWritten(heap)
    BY <1>1, <1>3, <2>1, <2>3 DEF PoolWritten
  <2> QED BY <2>4
<1>4. ASSUME pool[i] # None, MarkAuthError(i, n)
      PROVE  \E h : PoolWritten(h)
  <2> DEFINE c == [heap[pool[i]] EXCEPT !.disabled = TRUE]
             h == [heap EXCEPT ![pool[i]] = c]
  <2>1. c \in Cred /\ c.id = heap[pool[i]].id /\ c.tok = heap[pool[i]].tok /\ c.disabled
    <3>1. 0 \in 0..MaxToken /\ 0 \in 0..1
      BY Constants
    <3> QED BY <1>1, <1>4, <3>1, CredUpdates
  <2>2. Heap(h) /\ Async(pool[i], 1 + n)
    BY <1>4 DEF MarkAuthError
  <2>3. /\ pending' \in [Objs -> 0..MaxSaves]
        /\ pending'[pool[i]] > 0
        /\ \A u \in Objs \ {pool[i]} : pending'[u] = pending[u]
    BY <1>1, <1>4, <2>2, AsyncForms
  <2> HIDE DEF c
  <2>4. /\ h \in [Objs -> Cred \cup {None}] /\ h[pool[i]] = c
        /\ \A o \in Objs \ {pool[i]} : h[o] = heap[o]
    BY <1>1, <1>4, <2>1
  <2> HIDE DEF h
  <2>5. HeapKept(h) /\ DisabledKept(h)
    BY <1>1, <1>4, <2>1, <2>2, <2>4, Constants DEF HeapKept, DisabledKept
  <2>6. PoolWritten(h)
    BY <1>1, <1>4, <2>3, <2>4, <2>5 DEF PoolWritten
  <2> QED BY <2>6
<1>5. \/ pending' = pending /\ Collect
      \/ pool[i] # None /\ RecordQuotaError(i)
      \/ pool[i] # None /\ MarkAuthError(i, n)
  <2>1. CASE pool[i] = None
    BY <2>1 DEF MarkAuthError, RecordQuotaError
  <2> QED BY <2>1
<1> QED BY <1>2, <1>3, <1>4, <1>5
-----------------------------------------------------------------------------
(* The steps of requests and quota checks.                                 *)

\* RefreshToken sends the token its object has.
LEMMA SendForms ==
  ASSUME NEW g \in Goroutine, NEW c \in Cred
  PROVE  LET n == RefreshToken(g, c)
         IN  /\ n \in Goroutine /\ n.pc = "sent" /\ n.tok = c.tok /\ n.for = g.for
             /\ n.obj = g.obj /\ n.before = g.before /\ n.entries = g.entries
             /\ n.prepared = g.prepared
<1>1. c.tok \in 0..MaxToken /\ "sent" \in PCs
  BY RowsAndCreds DEF PCs
<1> QED BY <1>1 DEF RefreshToken, Goroutine

\* A request is handed an account, and may refresh its token first.
LEMMA AcquireStep ==
  ASSUME AccountsInv, NEW w \in Workers, NEW i \in Ids, Acquire(w, i)
  PROVE  AccountsInv' /\ Sticks
<1>1. Types /\ Refs
  BY DEF AccountsInv
<1>2. /\ pool[i] \in Live /\ pool[i] \in Objs /\ heap[pool[i]] \in Cred
      /\ work[w] = Idle
      /\ UNCHANGED <<heap, pool, row, pending, round, backoff, issued, banned, aliased, lost>>
  BY <1>1, KnownObjects DEF Acquire, Begin
<1> DEFINE a == [Idle EXCEPT !.pc = "upstream", !.for = "request", !.obj = pool[i]]
<1>3. /\ a \in Goroutine /\ a.pc = "upstream" /\ a.for = "request" /\ a.obj = pool[i]
      /\ a.prepared = {} /\ a.before = None
  BY <1>2, IdleGoroutine DEF Goroutine, PCs
<1>4. PICK g \in {a, RefreshToken(a, heap[pool[i]])} : work' = [work EXCEPT ![w] = g]
  BY DEF Acquire, Begin
<1> HIDE DEF a
<1>5. /\ g \in Goroutine /\ g.pc \in {"upstream", "sent"} /\ g.for = "request" /\ g.obj = pool[i]
      /\ g.prepared = {} /\ (g.pc = "sent" => g.tok = heap[g.obj].tok)
  BY <1>2, <1>3, SendForms
<1>6. Equipped(g, aliased')
  BY <1>2, <1>5, Constants DEF Equipped, Pointing
<1>7. work[w].pc \notin SavePCs \cup {"answered"}
  BY <1>2, IdleGoroutine DEF SavePCs
<1>8. HeapKept(heap) /\ DisabledKept(heap)
  BY <1>1, <1>2, HeapUntouched
<1>9. RestKept
  BY <1>1, <1>2, RestUnchanged, KnownObjects DEF Types
<1>10. g.pc # "answered" /\ g.obj \in Live \cup {None} /\ g.prepared \subseteq Live
  BY <1>2, <1>5
<1> QED BY <1>2, <1>4, <1>5, <1>6, <1>7, <1>8, <1>9, <1>10, GoroutineStep

\* A request ends; an auth error is reported about the pool's object.
LEMMA UpstreamStep ==
  ASSUME AccountsInv, NEW w \in Workers, Upstream(w)
  PROVE  AccountsInv' /\ Sticks
<1>1. Types /\ Refs /\ Equipped(work[w], aliased) /\ work[w] \in Goroutine
  BY DEF AccountsInv, Types, Goroutines
<1>2. work[w].obj \in Live /\ heap[work[w].obj] \in Cred
  BY <1>1, KnownObjects DEF Upstream, Equipped, Pointing
<1> DEFINE i == heap[work[w].obj].id
<1>3. i \in Ids
  BY <1>2, RowsAndCreds
<1>4. PICK h : PoolWritten(h)
  <2>1. CASE UNCHANGED pending /\ Collect
    <3>1. HeapKept(heap) /\ DisabledKept(heap)
      BY <1>1, <2>1, HeapUntouched
    <3>2. PoolWritten(heap)
      BY <1>1, <2>1, <3>1, KnownObjects DEF PoolWritten, Types
    <3> QED BY <3>2
  <2>2. CASE MarkAuthError(i, 0)
    BY <1>1, <1>3, <2>2, PoolWrites
  <2> QED BY <2>1, <2>2 DEF Upstream
<1>5. /\ work' = [work EXCEPT ![w] = Idle] /\ work[w].pc = "upstream"
      /\ UNCHANGED <<pool, row, round, backoff, issued, banned, aliased, lost>>
  BY DEF Upstream, Done
<1>6. RestKept
  BY <1>1, <1>4, <1>5, KnownObjects DEF RestKept, PoolWritten, Types
<1>7. work[w].pc \notin SavePCs \cup {"answered"}
  BY <1>5 DEF SavePCs
<1>8. /\ HeapKept(h) /\ DisabledKept(h)
      /\ \A o \in Objs : pending[o] > 0 => pending'[o] > 0
      /\ \A o \in Objs : \/ RowOf(h[o]) = RowOf(heap[o]) /\ h[o].dirty = heap[o].dirty
                         \/ pending'[o] > 0
  BY <1>4 DEF PoolWritten
<1> DEFINE g == Idle
<1>9. /\ g \in Goroutine /\ Equipped(g, aliased') /\ g.pc \notin {"answered", "sent"}
      /\ g.obj \in Live \cup {None} /\ g.prepared \subseteq Live
      /\ work' = [work EXCEPT ![w] = g]
  BY <1>5, IdleGoroutine
<1> HIDE DEF g
<1> QED BY <1>5, <1>6, <1>7, <1>8, <1>9, GoroutineStep
\* A step of nobody in particular that touches neither pool nor objects' contents.
LEMMA SystemStep ==
  ASSUME AccountsInv, UNCHANGED <<pool, row, pending, work, issued, aliased, lost>>,
         Collect \/ UNCHANGED heap,
         round' \subseteq Live, backoff' \subseteq Ids, banned' \subseteq Ids
  PROVE  AccountsInv' /\ Sticks
<1>1. Types /\ Refs
  BY DEF AccountsInv
<1>2. HeapKept(heap) /\ DisabledKept(heap)
  BY <1>1, HeapUntouched
<1>3. WorkKept
  BY <1>1 DEF WorkKept, Types
<1>4. PoolKept
  BY <1>1, PoolUnchanged
<1>5. RestKept
  BY <1>1, KnownObjects DEF RestKept, Types
<1>6. SavesDue(heap)
  BY DEF SavesDue
<1>7. \A i \in Pooled : pool'[i] \in {pool[i], None}
  BY DEF Pooled
<1> QED BY <1>2, <1>3, <1>4, <1>5, <1>6, <1>7, QuietStep

\* A round of the poller begins, skips an account, or waits no longer for one;
\* the provider bans one.
LEMMA PollerSteps ==
  ASSUME AccountsInv,
         \/ PollTick \/ \E o \in Objs : PollSkip(o)
         \/ \E i \in Ids : Ban(i) \/ BackoffExpires(i)
  PROVE  AccountsInv' /\ Sticks
<1>1. /\ round \subseteq Live /\ backoff \subseteq Ids /\ banned \subseteq Ids
      /\ \A i \in Pooled : pool[i] \in Live
  BY KnownObjects DEF AccountsInv, Types, Pooled
<1>2. ASSUME PollTick PROVE AccountsInv' /\ Sticks
  <2>1. round' \subseteq Live /\ backoff' \subseteq Ids /\ banned' \subseteq Ids
    BY <1>1, <1>2 DEF PollTick
  <2> QED BY <1>2, <2>1, SystemStep DEF PollTick
<1>3. ASSUME NEW o \in Objs, PollSkip(o) PROVE AccountsInv' /\ Sticks
  <2>1. round' \subseteq Live /\ backoff' \subseteq Ids /\ banned' \subseteq Ids
    BY <1>1, <1>3 DEF PollSkip
  <2> QED BY <1>3, <2>1, SystemStep DEF PollSkip
<1>4. ASSUME NEW i \in Ids, Ban(i) PROVE AccountsInv' /\ Sticks
  <2>1. round' \subseteq Live /\ backoff' \subseteq Ids /\ banned' \subseteq Ids
    BY <1>1, <1>4 DEF Ban
  <2> QED BY <1>4, <2>1, SystemStep DEF Ban
<1>5. ASSUME NEW i \in Ids, BackoffExpires(i) PROVE AccountsInv' /\ Sticks
  <2>1. round' \subseteq Live /\ backoff' \subseteq Ids /\ banned' \subseteq Ids
    BY <1>1, <1>5 DEF BackoffExpires
  <2> QED BY <1>5, <2>1, SystemStep DEF BackoffExpires
<1> QED BY <1>2, <1>3, <1>4, <1>5

\* A goroutine that was idle begins to work on an object that is known, or on none.
LEMMA BeginStep ==
  ASSUME AccountsInv, NEW w \in Workers, work[w] = Idle, NEW g \in Goroutine,
         work' = [work EXCEPT ![w] = g], g.pc \notin {"sent", "answered"},
         Equipped(g, aliased'), g.obj \in Live \cup {None}, g.prepared \subseteq Live,
         UNCHANGED <<heap, pool, row, pending, backoff, issued, banned, aliased, lost>>,
         round' \subseteq round
  PROVE  AccountsInv' /\ Sticks
<1>1. Types /\ Refs
  BY DEF AccountsInv
<1>2. work[w].pc \notin SavePCs \cup {"answered"}
  BY IdleGoroutine DEF SavePCs
<1>3. HeapKept(heap) /\ DisabledKept(heap)
  BY <1>1, HeapUntouched
<1>4. RestKept
  BY <1>1, KnownObjects, RestUnchanged DEF Types
<1> QED BY <1>2, <1>3, <1>4, GoroutineStep

\* A quota check begins, of the poller or of the operator; an edit looks its
\* account up; an import is read.
LEMMA CheckBegins ==
  ASSUME AccountsInv, NEW w \in Workers, NEW i \in Ids,
         handleAccountRefresh(w, i) \/ \E o \in Objs : PollStart(w, o)
  PROVE  AccountsInv' /\ Sticks
<1>1. Types /\ Refs
  BY DEF AccountsInv
<1>2. PICK o \in Live, for \in {"poll", "check"} :
         /\ work[w] = Idle
         /\ work' = [work EXCEPT ![w] = [Idle EXCEPT !.pc = "fetch", !.for = for, !.obj = o]]
         /\ UNCHANGED <<heap, pool, row, pending, backoff, issued, banned, aliased, lost>>
         /\ round' \subseteq round
  BY <1>1, KnownObjects DEF handleAccountRefresh, PollStart, Begin
<1> DEFINE g == [Idle EXCEPT !.pc = "fetch", !.for = for, !.obj = o]
<1>3. o \in Objs
  BY <1>1, KnownObjects
<1>4. /\ g \in Goroutine /\ g.pc = "fetch" /\ g.for \in {"poll", "check"} /\ g.obj = o
      /\ g.prepared = {}
  BY <1>3, IdleGoroutine DEF Goroutine, PCs
<1> HIDE DEF g
<1>5. Equipped(g, aliased')
  BY <1>3, <1>4, Constants DEF Equipped, Pointing
<1>6. work' = [work EXCEPT ![w] = g]
  BY <1>2 DEF g
<1> QED BY <1>2, <1>4, <1>5, <1>6, BeginStep

LEMMA PatchBegins ==
  ASSUME AccountsInv, NEW w \in Workers, NEW i \in Ids, handleAccountPatch(w, i)
  PROVE  AccountsInv' /\ Sticks
<1>1. Types /\ Refs
  BY DEF AccountsInv
<1>2. /\ work[w] = Idle /\ pool[i] \in Live /\ pool[i] \in Objs
      /\ UNCHANGED <<heap, pool, row, pending, round, backoff, issued, banned, aliased, lost>>
  BY <1>1, KnownObjects DEF handleAccountPatch, Begin
<1> DEFINE g == [Idle EXCEPT !.pc = "patch", !.obj = pool[i]]
<1>3. g \in Goroutine /\ g.pc = "patch" /\ g.for = "none" /\ g.obj = pool[i] /\ g.prepared = {}
  BY <1>2, IdleGoroutine DEF Goroutine, PCs
<1>4. work' = [work EXCEPT ![w] = g]
  BY DEF handleAccountPatch, Begin
<1> HIDE DEF g
<1>5. Equipped(g, aliased')
  BY <1>2, <1>3, Constants DEF Equipped, Pointing
<1> QED BY <1>2, <1>3, <1>4, <1>5, BeginStep

\* cloneCredentials takes a snapshot of the pool.
LEMMA ClonesAreSnapshot ==
  ASSUME Types, Refs
  PROVE  Clones \in Snapshots
<1>1. \A i \in Pooled : heap[pool[i]] \in Cred /\ heap[pool[i]].id = i
  BY KnownObjects DEF Pooled
<1> QED BY <1>1 DEF Clones, Snapshots, Pooled

LEMMA ImportBegins ==
  ASSUME AccountsInv, NEW w \in Workers, NEW b \in Imports, handleAccountsImport(w, b)
  PROVE  AccountsInv' /\ Sticks
<1>1. Types /\ Refs
  BY DEF AccountsInv
<1>2. /\ work[w] = Idle /\ b.mode \in {"append", "replace"} /\ b.entries \in Seq(Entry)
      /\ UNCHANGED <<heap, pool, row, pending, round, backoff, issued, banned, aliased, lost>>
      /\ Clones \in Snapshots
  BY <1>1, ClonesAreSnapshot, AccountsAssumption DEF handleAccountsImport, Begin
<1> DEFINE g == [Idle EXCEPT !.pc = "import", !.for = "import", !.before = Clones,
                             !.mode = b.mode, !.entries = b.entries]
<1>3. /\ g \in Goroutine /\ g.pc = "import" /\ g.for = "import" /\ g.obj = None
      /\ g.prepared = {} /\ g.before = Clones
  BY <1>2, IdleGoroutine DEF Goroutine, PCs
<1>4. work' = [work EXCEPT ![w] = g]
  BY DEF handleAccountsImport, Begin
<1> HIDE DEF g
<1>5. Equipped(g, aliased')
  BY <1>2, <1>3 DEF Equipped, Pointing
<1> QED BY <1>2, <1>3, <1>4, <1>5, BeginStep
\* A goroutine's step that may write to an object of the pool by way of the scheduler.
LEMMA ReportStep ==
  ASSUME AccountsInv, NEW w \in Workers, work[w].pc \notin SavePCs \cup {"answered"},
         NEW g \in Goroutine, work' = [work EXCEPT ![w] = g], g.pc # "answered",
         g.pc = "sent" => g.tok = heap[g.obj].tok,
         Equipped(g, aliased'), g.obj \in Live \cup {None}, g.prepared \subseteq Live,
         NEW h, PoolWritten(h),
         UNCHANGED <<pool, row, round, issued, banned, aliased, lost>>, backoff' \subseteq Ids
  PROVE  AccountsInv' /\ Sticks
<1>1. Types /\ Refs
  BY DEF AccountsInv
<1>2. RestKept
  BY <1>1, KnownObjects DEF RestKept, PoolWritten, Types
<1>3. /\ HeapKept(h) /\ DisabledKept(h)
      /\ \A o \in Objs : pending[o] > 0 => pending'[o] > 0
      /\ \A o \in Objs : \/ RowOf(h[o]) = RowOf(heap[o]) /\ h[o].dirty = heap[o].dirty
                         \/ pending'[o] > 0
  BY DEF PoolWritten
<1> QED BY <1>2, <1>3, GoroutineStep

LEMMA NothingWritten ==
  ASSUME Types, Refs, UNCHANGED pending, Collect \/ UNCHANGED heap
  PROVE  PoolWritten(heap)
BY HeapUntouched, KnownObjects DEF PoolWritten, Types

\* Go leads to a step for which the goroutine is equipped.
LEMMA GoSteps ==
  ASSUME NEW w \in Workers, NEW g \in Goroutine, g = work[w], Types, NEW pc \in PCs, Go(w, pc),
         NEW al, Equipped(g, al), g.pc \in {"fetch", "refetch", "failed", "sent", "answered", "save"},
         \/ pc \in {"refetch", "failed"} /\ g.for \in {"poll", "check"}
         \/ pc = "upstream"
         \/ pc = "save" /\ g.pc = "answered"
  PROVE  \E n \in Goroutine : /\ work' = [work EXCEPT ![w] = n] /\ Equipped(n, al)
                              /\ n.pc = pc /\ n.obj = g.obj /\ n.prepared = g.prepared
                              /\ n.for = g.for
<1> DEFINE n == [g EXCEPT !.pc = pc, !.tok = 0]
<1>1. /\ n \in Goroutine /\ n.pc = pc /\ n.for = g.for /\ n.obj = g.obj
      /\ n.before = g.before /\ n.entries = g.entries /\ n.prepared = g.prepared /\ n.id = g.id
  BY Constants DEF Goroutine
<1>2. work' = [work EXCEPT ![w] = n]
  BY DEF Go, Types
<1> HIDE DEF n
<1>3. Equipped(n, al)
  BY <1>1 DEF Equipped, Pointing
<1> QED BY <1>1, <1>2, <1>3

\* The fetch of an account's quota: its result, the refresh after a denial, or a failure.
LEMMA FetchQuotaStep ==
  ASSUME AccountsInv, NEW w \in Workers, FetchQuota(w)
  PROVE  AccountsInv' /\ Sticks
<1>1. Types /\ Refs /\ Equipped(work[w], aliased) /\ work[w] \in Goroutine
  BY DEF AccountsInv, Types, Goroutines
<1>2. /\ work[w].obj \in Live /\ heap[work[w].obj] \in Cred /\ work[w].prepared \subseteq Live
      /\ work[w].for \in {"poll", "check"} /\ work[w].pc \in {"fetch", "refetch"}
      /\ work[w].obj # None
      /\ UNCHANGED <<pool, row, round, issued, banned, aliased, lost>>
  BY <1>1, KnownObjects DEF FetchQuota, Equipped, Pointing
<1>3. work[w].pc \notin SavePCs \cup {"answered"} /\ backoff \subseteq Ids
  BY <1>1, <1>2 DEF SavePCs, Types
<1> DEFINE c == heap[work[w].obj]
<1>4. c.id \in Ids
  BY <1>2, RowsAndCreds
<1>5. CASE \E isBan \in BOOLEAN : Done(w) /\ clearBackoff(w, c.id) /\ RefreshQuota(c.id, isBan)
  <2>1. PICK h : PoolWritten(h)
    <3>1. MarkAuthError(c.id, 1) \/ RecordQuotaError(c.id)
      BY <1>5 DEF RefreshQuota
    <3> QED BY <1>1, <1>4, <3>1, PoolWrites
  <2> DEFINE g == Idle
  <2>2. /\ g \in Goroutine /\ Equipped(g, aliased') /\ g.pc \notin {"answered", "sent"}
        /\ g.obj \in Live \cup {None} /\ g.prepared \subseteq Live
        /\ work' = [work EXCEPT ![w] = g]
    BY <1>5, IdleGoroutine DEF Done
  <2> HIDE DEF g
  <2>3. backoff' \subseteq Ids
    BY <1>3, <1>5 DEF clearBackoff
  <2> QED BY <1>2, <1>3, <2>1, <2>2, <2>3, ReportStep
<1>6. CASE work' = [work EXCEPT ![w] = RefreshToken(@, c)] /\ UNCHANGED <<heap, pending, backoff>>
  <2> DEFINE g == RefreshToken(work[w], c)
  <2>1. /\ g \in Goroutine /\ g.pc = "sent" /\ g.tok = c.tok /\ g.for = work[w].for
        /\ g.obj = work[w].obj /\ g.prepared = work[w].prepared
    BY <1>1, <1>2, SendForms
  <2>2. work' = [work EXCEPT ![w] = g]
    BY <1>1, <1>6 DEF Types
  <2> HIDE DEF g
  <2>3. Equipped(g, aliased')
    BY <1>2, <2>1 DEF Equipped, Pointing
  <2>4. PoolWritten(heap)
    BY <1>1, <1>6, NothingWritten
  <2> QED BY <1>2, <1>3, <1>6, <2>1, <2>2, <2>3, <2>4, ReportStep
<1>7. CASE Go(w, "failed") /\ UNCHANGED <<heap, pending, backoff>>
  <2>1. "failed" \in PCs /\ Equipped(work[w], aliased')
    BY <1>1, <1>2 DEF PCs
  <2> DEFINE g0 == work[w]
  <2>2. \E n \in Goroutine : /\ work' = [work EXCEPT ![w] = n] /\ Equipped(n, aliased')
                              /\ n.pc = "failed" /\ n.obj = g0.obj /\ n.prepared = g0.prepared
    BY <1>1, <1>2, <1>7, <2>1, GoSteps
  <2>3. PICK g \in Goroutine : /\ work' = [work EXCEPT ![w] = g] /\ Equipped(g, aliased')
                              /\ g.pc = "failed" /\ g.obj = g0.obj /\ g.prepared = g0.prepared
    BY <2>2
  <2>4. PoolWritten(heap)
    BY <1>1, <1>7, NothingWritten
  <2> QED BY <1>2, <1>3, <1>7, <2>3, <2>4, ReportStep
<1>8. \/ \E isBan \in BOOLEAN : Done(w) /\ clearBackoff(w, c.id) /\ RefreshQuota(c.id, isBan)
      \/ work' = [work EXCEPT ![w] = RefreshToken(@, c)] /\ UNCHANGED <<heap, pending, backoff>>
      \/ Go(w, "failed") /\ UNCHANGED <<heap, pending, backoff>>
  BY DEF FetchQuota
<1> QED BY <1>5, <1>6, <1>7, <1>8

\* A check that failed is recorded.
LEMMA QuotaFailedStep ==
  ASSUME AccountsInv, NEW w \in Workers, QuotaFailed(w)
  PROVE  AccountsInv' /\ Sticks
<1>1. Types /\ Refs /\ Equipped(work[w], aliased) /\ work[w] \in Goroutine
  BY DEF AccountsInv, Types, Goroutines
<1>2. /\ work[w].obj \in Live /\ heap[work[w].obj] \in Cred
      /\ UNCHANGED <<pool, row, round, issued, banned, aliased, lost>>
  BY <1>1, KnownObjects DEF QuotaFailed, Equipped, Pointing
<1>3. work[w].pc \notin SavePCs \cup {"answered"} /\ backoff \subseteq Ids
  BY <1>1 DEF QuotaFailed, SavePCs, Types
<1> DEFINE i == heap[work[w].obj].id
<1>4. i \in Ids
  BY <1>2, RowsAndCreds
<1>5. PICK h : PoolWritten(h)
  <2>1. RecordQuotaError(i)
    BY DEF QuotaFailed
  <2> QED BY <1>1, <1>4, <2>1, PoolWrites
<1>6. backoff' \subseteq Ids
  BY <1>3, <1>4 DEF QuotaFailed
<1> DEFINE g == Idle
<1>7. /\ g \in Goroutine /\ Equipped(g, aliased') /\ g.pc \notin {"answered", "sent"}
      /\ g.obj \in Live \cup {None} /\ g.prepared \subseteq Live
      /\ work' = [work EXCEPT ![w] = g]
  BY IdleGoroutine DEF QuotaFailed, Done
<1> HIDE DEF g
<1> QED BY <1>2, <1>3, <1>5, <1>6, <1>7, ReportStep
-----------------------------------------------------------------------------
(* The operator.                                                           *)

\* An account is enabled or disabled; the others keep what they have.
LEMMA SetEnabledStep ==
  ASSUME AccountsInv, NEW i \in Ids, NEW b \in BOOLEAN, SetEnabled(i, b)
  PROVE  /\ AccountsInv'
         /\ b = FALSE => Sticks
         /\ \A j \in Pooled \ {i} : heap[pool[j]].disabled => heap'[pool'[j]].disabled
<1>1. Types /\ Refs
  BY DEF AccountsInv
<1>2. /\ pool[i] \in Live /\ pool[i] \in Objs /\ heap[pool[i]] \in Cred
      /\ heap \in [Objs -> Cred \cup {None}] /\ work \in [Workers -> Goroutine]
      /\ UNCHANGED <<pool, row, work, round, backoff, issued, banned, aliased, lost>>
  BY <1>1, KnownObjects DEF SetEnabled, Types
<1> DEFINE c == [heap[pool[i]] EXCEPT !.disabled = ~b]
           h == [heap EXCEPT ![pool[i]] = c]
<1>3. c \in Cred /\ c.id = heap[pool[i]].id /\ c.tok = heap[pool[i]].tok /\ c.disabled = ~b
  BY <1>2 DEF Cred
<1>4. heap' = h
  BY <1>2 DEF SetEnabled
<1> HIDE DEF c
<1>5. /\ h \in [Objs -> Cred \cup {None}] /\ h[pool[i]] = c
      /\ \A o \in Objs \ {pool[i]} : h[o] = heap[o]
  BY <1>2, <1>3
<1> HIDE DEF h
<1>6. HeapKept(h)
  BY <1>2, <1>3, <1>4, <1>5, Constants DEF HeapKept
<1>7. /\ pending' \in [Objs -> 0..MaxSaves]
      /\ pending'[pool[i]] > 0
      /\ \A u \in Objs \ {pool[i]} : pending'[u] = pending[u]
  <2>1. Async(pool[i], 1)
    BY DEF SetEnabled
  <2> QED BY <1>1, <1>2, <2>1, AsyncForms
<1>8. RestKept
  BY <1>1, <1>2, <1>7, KnownObjects DEF RestKept, Types
<1>9. WorkKept /\ PoolKept
  BY <1>1, <1>2, PoolUnchanged DEF WorkKept
<1>10. \A o \in Objs : pending'[o] > 0 => Saving(o)'
  BY DEF Saving
<1>11. SavesDue(h)
  BY <1>2, <1>5, <1>7, <1>10 DEF SavesDue
<1>12. AccountsInv' /\ (DisabledKept(h) /\ (\A j \in Pooled : pool'[j] \in {pool[j], None}) => Sticks)
  BY <1>6, <1>8, <1>9, <1>11, QuietStep
<1>13. b = FALSE => Sticks
  BY <1>2, <1>3, <1>5, <1>12 DEF DisabledKept, Pooled
<1>14. ASSUME NEW j \in Pooled \ {i} PROVE pool[j] \in Objs \ {pool[i]}
  <2>1. heap[pool[j]].id = j /\ pool[j] \in Objs /\ heap[pool[i]].id = i
    BY <1>1, <1>2, KnownObjects, Constants DEF Pooled
  <2> QED BY <2>1
<1> QED BY <1>2, <1>4, <1>5, <1>12, <1>13, <1>14

\* An edit is applied to the object the handler looked up; the save follows.
LEMMA PatchApplyStep ==
  ASSUME AccountsInv, NEW w \in Workers, PatchApply(w)
  PROVE  AccountsInv' /\ Sticks
<1>1. Types /\ Refs /\ Equipped(work[w], aliased) /\ work[w] \in Goroutine
  BY DEF AccountsInv, Types, Goroutines
<1>0. PICK o \in Objs : o = work[w].obj
  BY <1>1, KnownObjects DEF PatchApply, Equipped, Pointing
<1>2. /\ o \in Live /\ o \in Objs /\ heap[o] \in Cred /\ work[w].prepared \subseteq Live
      /\ heap \in [Objs -> Cred \cup {None}] /\ work[w].pc = "patch"
      /\ UNCHANGED <<pool, row, pending, round, backoff, issued, banned, aliased, lost>>
  BY <1>0, <1>1, KnownObjects DEF PatchApply, Equipped, Pointing, Types
<1> DEFINE c == [heap[o] EXCEPT !.label = 1]
           h == [heap EXCEPT ![o] = c]
           g == [work[w] EXCEPT !.pc = "patchSave", !.before = Clones]
<1>3. c \in Cred /\ c.id = heap[o].id /\ c.tok = heap[o].tok /\ c.disabled = heap[o].disabled
  BY <1>2 DEF Cred
<1>4. heap' = h
  BY <1>0, <1>2 DEF PatchApply
<1>5. /\ g \in Goroutine /\ g.pc = "patchSave" /\ g.obj = o /\ g.prepared = work[w].prepared
      /\ g.for = work[w].for /\ g.before \in Snapshots
  BY <1>0, <1>1, ClonesAreSnapshot DEF Goroutine, PCs
<1>6. work' = [work EXCEPT ![w] = g]
  BY <1>1 DEF PatchApply, Types
<1> HIDE DEF c, g
<1>7. /\ h \in [Objs -> Cred \cup {None}] /\ h[o] = c
      /\ \A u \in Objs \ {o} : h[u] = heap[u]
  BY <1>2, <1>3
<1> HIDE DEF h
<1>8. HeapKept(h) /\ DisabledKept(h)
  BY <1>2, <1>3, <1>4, <1>7, Constants DEF HeapKept, DisabledKept
<1>9. Equipped(g, aliased')
  BY <1>2, <1>5, Constants DEF Equipped, Pointing
<1>10. /\ WorkKept
       /\ work'[w] = g /\ \A v \in Workers \ {w} : work'[v] = work[v]
  BY <1>1, <1>2, <1>5, <1>6, <1>9, WorkUpdate
<1>11. RestKept /\ PoolKept
  BY <1>1, <1>2, KnownObjects, RestUnchanged, PoolUnchanged DEF Types
<1>12. Saving(o)'
  BY <1>5, <1>10 DEF Saving
<1>13. SavesDue(h)
  BY <1>2, <1>7, <1>10, <1>12 DEF SavesDue, SavePCs
<1>14. \A i \in Pooled : pool'[i] \in {pool[i], None}
  BY <1>2
<1> QED BY <1>8, <1>10, <1>11, <1>13, <1>14, QuietStep

\* An account is taken out of the pool; its row goes next.
LEMMA DeleteBegins ==
  ASSUME AccountsInv, NEW w \in Workers, NEW i \in Ids, handleAccountDelete(w, i)
  PROVE  AccountsInv' /\ Sticks
<1>1. Types /\ Refs
  BY DEF AccountsInv
<1>2. /\ work[w] = Idle /\ Clones \in Snapshots /\ aliased' = aliased \cup {i}
      /\ pool' = [pool EXCEPT ![i] = None] /\ pool \in [Ids -> Objs \cup {None}]
      /\ UNCHANGED <<row, pending, round, backoff, issued, banned, lost>> /\ Collect
  BY <1>1, ClonesAreSnapshot DEF handleAccountDelete, Begin, Types
<1> DEFINE g == [Idle EXCEPT !.pc = "deleteRow", !.id = i, !.before = Clones]
<1>3. /\ g \in Goroutine /\ g.pc = "deleteRow" /\ g.id = i /\ g.for = "none" /\ g.obj = None
      /\ g.prepared = {} /\ g.before \in Snapshots
  BY <1>2, IdleGoroutine DEF Goroutine, PCs
<1>4. work' = [work EXCEPT ![w] = g]
  BY DEF handleAccountDelete, Begin
<1> HIDE DEF g
<1>5. Equipped(g, aliased')
  BY <1>2, <1>3 DEF Equipped, Pointing
<1>6. work[w].pc \notin SavePCs \cup {"answered"}
  BY <1>2, IdleGoroutine DEF SavePCs
<1>7. /\ WorkKept
      /\ work'[w] = g /\ \A v \in Workers \ {w} : work'[v] = work[v]
  BY <1>1, <1>3, <1>4, <1>5, <1>6, WorkUpdate
<1>8. HeapKept(heap) /\ DisabledKept(heap)
  BY <1>1, <1>2, HeapUntouched
<1>9. \A j \in Ids : pool'[j] \in {pool[j], None}
  BY <1>2
<1>10. PoolKept
  BY <1>1, <1>2, <1>9, KnownObjects DEF PoolKept
<1>11. RestKept
  BY <1>1, <1>2, KnownObjects, RestUnchanged DEF Types
<1>12. SavesDue(heap)
  BY <1>2, <1>6, <1>7, <1>9 DEF SavesDue
<1> QED BY <1>7, <1>8, <1>9, <1>10, <1>11, <1>12, QuietStep DEF Pooled
\* An entry of an import is refused without an object having been made for it.
LEMMA EntryRefused ==
  ASSUME AccountsInv, NEW w \in Workers, prepareImportedCredential(w),
         ~validateImportBase(Head(work[w].entries))
  PROVE  AccountsInv' /\ Sticks
<1>1. Types /\ Refs /\ Equipped(work[w], aliased) /\ work[w] \in Goroutine
  BY DEF AccountsInv, Types, Goroutines
<1>2. /\ work[w].pc = "import" /\ work[w].entries # <<>>
      /\ UNCHANGED <<heap, pool, row, pending, round, backoff, issued, banned, aliased, lost>>
  BY DEF prepareImportedCredential
<1> DEFINE g == [work[w] EXCEPT !.entries = Tail(@), !.rejected = TRUE]
<1>3. Tail(work[w].entries) \in Seq(Entry)
  BY <1>1, <1>2 DEF Goroutine
<1>4. /\ g \in Goroutine /\ g.pc = "import" /\ g.for = work[w].for /\ g.obj = work[w].obj
      /\ g.prepared = work[w].prepared /\ g.before = work[w].before
  BY <1>1, <1>2, <1>3 DEF Goroutine
<1>5. work' = [work EXCEPT ![w] = g]
  BY <1>1 DEF prepareImportedCredential, Types
<1> HIDE DEF g
<1>6. Equipped(g, aliased')
  BY <1>1, <1>2, <1>4 DEF Equipped, Pointing
<1>7. g.obj \in Live \cup {None} /\ g.prepared \subseteq Live
  BY <1>1, <1>4, KnownObjects
<1>8. HeapKept(heap) /\ DisabledKept(heap)
  BY <1>1, <1>2, HeapUntouched
<1>9. RestKept
  BY <1>1, <1>2, RestUnchanged, KnownObjects DEF Types
<1>10. work[w].pc \notin SavePCs \cup {"answered"}
  BY <1>2 DEF SavePCs
<1> QED BY <1>2, <1>4, <1>5, <1>6, <1>7, <1>8, <1>9, <1>10, GoroutineStep

\* A refresh that fails: the caller goes on without a token.
LEMMA RefusedForms ==
  ASSUME Types, NEW w \in Workers, Equipped(work[w], aliased), work[w].pc = "sent", Refused(w)
  PROVE  \E g \in Goroutine : /\ work' = [work EXCEPT ![w] = g] /\ Equipped(g, aliased)
                              /\ g.pc \notin {"sent", "answered"}
                              /\ g.obj \in {work[w].obj, None} /\ g.prepared = work[w].prepared
<1>1. work[w] \in Goroutine /\ work \in [Workers -> Goroutine]
  BY DEF Types
<1>2. work[w].for \in {"request", "poll", "check", "import"}
  BY <1>1 DEF Equipped, Goroutine
<1>3. CASE work[w].for = "request"
  <2>1. Go(w, "upstream") /\ "upstream" \in PCs
    BY <1>3 DEF Refused, PCs
  <2> QED BY <1>1, <2>1, GoSteps
<1>4. CASE work[w].for \in {"poll", "check"}
  <2>1. Go(w, "failed") /\ "failed" \in PCs
    BY <1>4 DEF Refused, PCs
  <2> QED BY <1>1, <1>4, <2>1, GoSteps
<1>5. CASE work[w].for = "import"
  <2> DEFINE g == [work[w] EXCEPT !.pc = "import", !.tok = 0, !.obj = None,
                                  !.rejected = TRUE, !.entries = Tail(@)]
  <2>1. Tail(work[w].entries) \in Seq(Entry)
    BY <1>1, <1>5 DEF Goroutine, Equipped
  <2>2. /\ g \in Goroutine /\ g.pc = "import" /\ g.for = "import" /\ g.obj = None
        /\ g.prepared = work[w].prepared /\ g.before = work[w].before
    BY <1>1, <1>5, <2>1, Constants DEF Goroutine, PCs
  <2>3. work' = [work EXCEPT ![w] = g]
    BY <1>1, <1>5 DEF Refused
  <2> HIDE DEF g
  <2>4. Equipped(g, aliased)
    BY <1>5, <2>2 DEF Equipped, Pointing
  <2> QED BY <2>2, <2>3, <2>4
<1> QED BY <1>2, <1>3, <1>4, <1>5

\* The provider refuses a token, or its answer is lost.
LEMMA RefreshFails ==
  ASSUME AccountsInv, NEW w \in Workers, work[w].pc = "sent", Refused(w), Collect,
         UNCHANGED <<pool, row, pending, round, backoff, banned, aliased>>,
         issued' \in [Ids -> 0..MaxToken], lost \subseteq lost',
         \A i \in Ids : i \notin lost' => issued'[i] = issued[i]
  PROVE  AccountsInv' /\ Sticks
<1>1. Types /\ Refs /\ Equipped(work[w], aliased)
  BY DEF AccountsInv, Goroutines
<1>2. PICK g \in Goroutine : /\ work' = [work EXCEPT ![w] = g] /\ Equipped(g, aliased)
                              /\ g.pc \notin {"sent", "answered"}
                              /\ g.obj \in {work[w].obj, None} /\ g.prepared = work[w].prepared
  BY <1>1, RefusedForms
<1>3. g.obj \in Live \cup {None} /\ g.prepared \subseteq Live /\ Equipped(g, aliased')
  BY <1>1, <1>2, KnownObjects
<1>4. HeapKept(heap) /\ DisabledKept(heap)
  BY <1>1, HeapUntouched
<1>5. RestKept
  BY <1>1, KnownObjects DEF RestKept, Types
<1>6. work[w].pc \notin SavePCs \cup {"answered"}
  BY DEF SavePCs
<1> QED BY <1>2, <1>3, <1>4, <1>5, <1>6, GoroutineStep

\* The prepared entries go into the pool, and "replace" takes the others out.
LEMMA ImportApplyStep ==
  ASSUME AccountsInv, NEW w \in Workers, ImportApply(w)
  PROVE  AccountsInv' /\ Sticks
<1>1. Types /\ Refs /\ Equipped(work[w], aliased) /\ work[w] \in Goroutine
  BY DEF AccountsInv, Types, Goroutines
<1>2. /\ work[w].pc = "import" /\ Collect
      /\ UNCHANGED <<row, pending, round, backoff, issued, banned, lost>>
  BY DEF ImportApply
<1>3. HeapKept(heap) /\ DisabledKept(heap)
  BY <1>1, <1>2, HeapUntouched
<1>4. work[w].pc \notin SavePCs \cup {"answered"}
  BY <1>2 DEF SavePCs
<1>5. CASE Done(w) /\ UNCHANGED <<pool, aliased>>
  <2> DEFINE g == Idle
  <2>1. /\ g \in Goroutine /\ Equipped(g, aliased') /\ g.pc \notin {"answered", "sent"}
        /\ g.obj \in Live \cup {None} /\ g.prepared \subseteq Live
        /\ work' = [work EXCEPT ![w] = g]
    BY <1>5, IdleGoroutine DEF Done
  <2> HIDE DEF g
  <2>2. RestKept
    BY <1>1, <1>2, <1>5, RestUnchanged, KnownObjects DEF Types
  <2> QED BY <1>2, <1>3, <1>4, <1>5, <2>1, <2>2, GoroutineStep
<1> DEFINE incoming == {heap[o].id : o \in work[w].prepared}
           removed == IF work[w].mode = "replace" THEN Pooled \ incoming ELSE {}
           added == {o \in work[w].prepared : pool[heap[o].id] = None}
           Obj(i) == CHOOSE o \in added : heap[o].id = i
           g == [work[w] EXCEPT !.pc = "saveAll", !.prepared = {}]
<1>6. CASE /\ work' = [work EXCEPT ![w].pc = "saveAll", ![w].prepared = {}]
           /\ pool' = [i \in Ids |-> IF i \in removed THEN None
                                     ELSE IF pool[i] = None /\ i \in incoming
                                     THEN Obj(i) ELSE pool[i]]
           /\ aliased' = aliased \cup removed
  <2>1. /\ g \in Goroutine /\ g.pc = "saveAll" /\ g.obj = work[w].obj /\ g.prepared = {}
        /\ g.for = work[w].for /\ g.before = work[w].before
    BY <1>1 DEF Goroutine, PCs
  <2>2. work' = [work EXCEPT ![w] = g]
    BY <1>1, <1>6 DEF Types
  <2> HIDE DEF g
  <2>3. Equipped(g, aliased')
    BY <1>1, <1>2, <2>1 DEF Equipped, Pointing
  <2>4. g.obj \in Live \cup {None}
    BY <1>1, <2>1, KnownObjects
  <2>5. /\ WorkKept
        /\ work'[w] = g /\ \A v \in Workers \ {w} : work'[v] = work[v]
    BY <1>1, <1>4, <2>1, <2>2, <2>3, <2>4, WorkUpdate
  <2>6. ASSUME NEW i \in incoming, pool[i] = None
        PROVE  Obj(i) \in work[w].prepared /\ heap[Obj(i)].id = i
    BY <2>6
  <2>7. /\ work[w].prepared \subseteq Live /\ Live \subseteq Objs
        /\ \A i \in Ids : pool[i] # None => pool[i] \in Live /\ heap[pool[i]].id = i
        /\ pool \in [Ids -> Objs \cup {None}]
    BY <1>1, KnownObjects DEF Types
  <2> HIDE DEF Obj, removed, incoming
  <2>8. \A i \in Ids : \/ pool'[i] = None
                       \/ pool'[i] = pool[i]
                       \/ pool[i] = None /\ pool'[i] \in Live /\ heap[pool'[i]].id = i
    BY <1>6, <2>6, <2>7
  <2>9. PoolKept
    <3>1. pool' \in [Ids -> Objs \cup {None}]
      BY <1>6, <2>7, <2>8
    <3> QED BY <2>7, <2>8, <3>1 DEF PoolKept
  <2>10. removed \subseteq Ids
    BY DEF removed, Pooled
  <2>11. RestKept
    BY <1>1, <1>2, <1>6, <2>10, RestUnchanged, KnownObjects DEF Types
  <2>12. \A u \in Objs : Saving(u)'
    BY <2>1, <2>5 DEF Saving
  <2>13. SavesDue(heap)
    BY <1>2, <1>4, <2>5, <2>9, <2>12 DEF SavesDue, PoolKept
  <2>14. \A i \in Pooled : pool'[i] \in {pool[i], None}
    BY <2>8 DEF Pooled
  <2> QED BY <1>3, <2>5, <2>9, <2>11, <2>13, <2>14, QuietStep
<1> QED BY <1>5, <1>6 DEF ImportApply
-----------------------------------------------------------------------------
(* Saves.                                                                  *)

\* What a save, made or failed, does to its object.
LEMMA SaveForms ==
  ASSUME Types, Refs, NEW o \in Live, SaveOne(o) \/ SaveFails(o)
  PROVE  \E h : /\ HeapKept(h) /\ DisabledKept(h)
                /\ row' \in [Ids -> Rows \cup {None}]
                /\ \A i \in Ids : i # heap[o].id => row'[i] = row[i]
                /\ h[o].dirty \/ row'[heap[o].id] = RowOf(h[o])
                /\ \A u \in Objs : RowOf(h[u]) = RowOf(heap[u])
                /\ \A u \in Objs \ {o} : h[u] = heap[u]
<1>1. /\ o \in Objs /\ heap[o] \in Cred /\ heap \in [Objs -> Cred \cup {None}]
      /\ row \in [Ids -> Rows \cup {None}]
  BY KnownObjects DEF Types
<1>2. heap[o].id \in Ids /\ RowOf(heap[o]) \in Rows
  BY <1>1, RowsAndCreds
<1>3. PICK b \in BOOLEAN :
         /\ Heap([heap EXCEPT ![o].dirty = b])
         /\ \/ b = TRUE /\ row' = row
            \/ b = FALSE /\ row' = [row EXCEPT ![heap[o].id] = RowOf(heap[o])]
  BY DEF SaveOne, SaveFails
<1> DEFINE c == [heap[o] EXCEPT !.dirty = b]
           h == [heap EXCEPT ![o] = c]
<1>4. /\ c \in Cred /\ c.id = heap[o].id /\ c.tok = heap[o].tok /\ c.disabled = heap[o].disabled
      /\ c.dirty = b /\ RowOf(c) = RowOf(heap[o])
  BY <1>1 DEF Cred, RowOf
<1>5. Heap(h)
  BY <1>1, <1>3 DEF Heap
<1> HIDE DEF c
<1>6. /\ h \in [Objs -> Cred \cup {None}] /\ h[o] = c
      /\ \A u \in Objs \ {o} : h[u] = heap[u]
  BY <1>1, <1>4
<1> HIDE DEF h
<1>7. HeapKept(h) /\ DisabledKept(h)
  BY <1>1, <1>4, <1>5, <1>6, Constants DEF HeapKept, DisabledKept
<1>8. /\ row' \in [Ids -> Rows \cup {None}]
      /\ \A i \in Ids : i # heap[o].id => row'[i] = row[i]
      /\ h[o].dirty \/ row'[heap[o].id] = RowOf(h[o])
  BY <1>1, <1>2, <1>3, <1>4, <1>6
<1>9. \A u \in Objs : RowOf(h[u]) = RowOf(heap[u])
  BY <1>4, <1>6
<1> QED BY <1>6, <1>7, <1>8, <1>9

\* A goroutine's save of an object, made or failed: for the account of that
\* object the row is right or the object is dirty, and the saves of the others
\* are still due.  An id that is not aliased has no other object whose save
\* could have been the one that is made.
LEMMA SaveStep ==
  ASSUME AccountsInv, NEW o \in Live, SaveOne(o) \/ SaveFails(o), WorkKept,
         pool' \in [Ids -> Objs \cup {None}],
         \A i \in Ids : pool'[i] \in {pool[i], None},
         UNCHANGED <<round, backoff, issued, banned, lost>>,
         pending' \in [Objs -> 0..MaxSaves], \A u \in Objs : pending'[u] > 0 => pending[u] > 0,
         aliased \subseteq aliased', aliased' \subseteq Ids,
         \A u \in Objs \ {o} : Saving(u) => Saving(u)'
  PROVE  AccountsInv' /\ Sticks
<1>1. Types /\ Refs /\ OneObject
  BY DEF AccountsInv
<1>2. PICK h : /\ HeapKept(h) /\ DisabledKept(h)
               /\ row' \in [Ids -> Rows \cup {None}]
               /\ \A i \in Ids : i # heap[o].id => row'[i] = row[i]
               /\ h[o].dirty \/ row'[heap[o].id] = RowOf(h[o])
               /\ \A u \in Objs : RowOf(h[u]) = RowOf(heap[u])
               /\ \A u \in Objs \ {o} : h[u] = heap[u]
  BY <1>1, SaveForms
<1>3. PoolKept
  BY <1>1, KnownObjects DEF PoolKept
<1>4. RestKept
  BY <1>1, <1>2, KnownObjects DEF RestKept, Types
<1>5. /\ Types' /\ Refs' /\ Goroutines' /\ OneObject' /\ NewestTracked'
      /\ \A i \in Ids : pool'[i] # None => heap'[pool'[i]] = h[pool'[i]]
      /\ DisabledKept(h) /\ (\A i \in Pooled : pool'[i] \in {pool[i], None}) => Sticks
  BY <1>2, <1>3, <1>4, OrdinaryStep
<1>6. Sticks
  BY <1>2, <1>5 DEF Pooled
<1>7. StoreSettles'
  <2> SUFFICES ASSUME NEW i \in Ids, pool'[i] # None, i \notin aliased'
               PROVE  (Saving(pool[i]) \/ heap[pool[i]].dirty \/ row[i] = RowOf(heap[pool[i]]))'
    BY DEF StoreSettles, Pooled
  <2>1. /\ pool'[i] = pool[i] /\ pool[i] # None /\ i \notin aliased
        /\ pool[i] \in Live /\ pool[i] \in Objs /\ heap[pool[i]].id = i /\ heap[pool[i]] # None
        /\ o \in Objs /\ heap[o] # None /\ heap'[pool[i]] = h[pool[i]]
    BY <1>1, <1>5, KnownObjects
  <2>2. PICK u \in Objs : u = pool[i]
    BY <2>1
  <2>3. Saving(u) \/ heap[u].dirty \/ row[i] = RowOf(heap[u])
    BY <2>1, <2>2 DEF AccountsInv, StoreSettles, Pooled
  <2>4. CASE u = o
    <3>1. heap'[u].dirty \/ row'[i] = RowOf(heap'[u])
      BY <1>2, <2>1, <2>2, <2>4
    <3> QED BY <2>1, <2>2, <3>1
  <2>5. CASE u # o
    <3>1. heap[o].id # i
      BY <1>1, <2>1, <2>2, <2>5 DEF OneObject
    <3>2. row'[i] = row[i] /\ heap'[u] = heap[u]
      BY <1>2, <2>1, <2>2, <2>5, <3>1
    <3>3. Saving(u)' \/ heap'[u].dirty \/ row'[i] = RowOf(heap'[u])
      BY <2>3, <2>5, <3>2
    <3>4. pool'[i] = u
      BY <2>1, <2>2
    <3> QED BY <3>3, <3>4 DEF Saving
  <2> QED BY <2>4, <2>5
<1> QED BY <1>5, <1>6, <1>7 DEF AccountsInv

\* A save that the scheduler started.
LEMMA AsyncSaveStep ==
  ASSUME AccountsInv, NEW o \in Objs, AsyncSave(o)
  PROVE  AccountsInv' /\ Sticks
<1>1. Types /\ Refs
  BY DEF AccountsInv
<1>2. /\ o \in Live /\ (SaveOne(o) \/ SaveFails(o))
      /\ pending \in [Objs -> 0..MaxSaves] /\ pending[o] > 0
      /\ pending' = [pending EXCEPT ![o] = @ - 1]
      /\ UNCHANGED <<pool, work, round, backoff, issued, banned, aliased, lost>>
      /\ pool \in [Ids -> Objs \cup {None}] /\ aliased \subseteq Ids
  BY <1>1, KnownObjects DEF AsyncSave, Types
<1>3. /\ pending' \in [Objs -> 0..MaxSaves]
      /\ \A u \in Objs : pending'[u] > 0 => pending[u] > 0
      /\ \A u \in Objs \ {o} : pending'[u] = pending[u]
  BY <1>2, Constants
<1>4. WorkKept
  BY <1>1, <1>2 DEF WorkKept, Types
<1>5. \A u \in Objs \ {o} : Saving(u) => Saving(u)'
  BY <1>2, <1>3 DEF Saving
<1>6. /\ pool' \in [Ids -> Objs \cup {None}] /\ \A i \in Ids : pool'[i] \in {pool[i], None}
      /\ aliased \subseteq aliased' /\ aliased' \subseteq Ids
      /\ UNCHANGED <<round, backoff, issued, banned, lost>>
  BY <1>2
<1> QED BY <1>2, <1>3, <1>4, <1>5, <1>6, SaveStep
\* An imported entry is through its checks: its object is among the prepared ones
\* or it is rejected.
LEMMA CheckedForms ==
  ASSUME Types, NEW w \in Workers, Equipped(work[w], aliased), work[w].for = "import",
         work[w].entries # <<>>, NEW o \in Objs, NEW e \in Entry, Checked(w, o, e)
  PROVE  \E g \in Goroutine : /\ work' = [work EXCEPT ![w] = g]
                              /\ \A al : Equipped(g, al)
                              /\ g.pc = "import" /\ g.obj = None
                              /\ g.prepared \subseteq work[w].prepared \cup {o}
<1>1. work[w] \in Goroutine /\ work \in [Workers -> Goroutine] /\ work[w].before \in Snapshots
  BY DEF Types, Equipped
<1> DEFINE ok == validateCreateReq(e)
           p == IF ok THEN work[w].prepared \cup {o} ELSE work[w].prepared
           r == work[w].rejected \/ ~ok
           t == Tail(work[w].entries)
           g == [work[w] EXCEPT !.pc = "import", !.obj = None, !.tok = 0, !.entries = t,
                                !.prepared = p, !.rejected = r]
<1>2. /\ t \in Seq(Entry) /\ p \in SUBSET Objs /\ p \subseteq work[w].prepared \cup {o}
      /\ r \in BOOLEAN
  BY <1>1 DEF Goroutine
<1>3. work' = [work EXCEPT ![w] = [work[w] EXCEPT
                   !.pc = "import", !.obj = None, !.tok = 0, !.entries = Tail(@),
                   !.prepared = IF ok THEN @ \cup {o} ELSE @, !.rejected = @ \/ ~ok]]
  BY <1>1 DEF Checked
<1>4. work' = [work EXCEPT ![w] = g]
  BY <1>1, <1>3 DEF Goroutine
<1> HIDE DEF ok, p, r, t
<1>5. /\ g \in Goroutine /\ g.pc = "import" /\ g.obj = None /\ g.prepared = p
      /\ g.for = "import" /\ g.before = work[w].before
  BY <1>1, <1>2, Constants DEF Goroutine, PCs
<1> HIDE DEF g
<1>6. \A al : Equipped(g, al)
  BY <1>1, <1>5 DEF Equipped, Pointing
<1> QED BY <1>2, <1>4, <1>5, <1>6

\* A refresh has ended well: where its caller goes on.
LEMMA RefreshedForms ==
  ASSUME Types, NEW w \in Workers, Equipped(work[w], aliased), work[w].pc = "save", Refreshed(w)
  PROVE  \E g \in Goroutine : /\ work' = [work EXCEPT ![w] = g] /\ Equipped(g, aliased)
                              /\ g.pc \notin {"sent", "answered"}
                              /\ g.obj \in {work[w].obj, None}
                              /\ g.prepared \subseteq work[w].prepared \cup {work[w].obj}
<1>1. work[w] \in Goroutine /\ work \in [Workers -> Goroutine] /\ work[w].obj \in Objs
  BY DEF Types, Equipped, Pointing, Goroutine
<1>2. work[w].for \in {"request", "poll", "check", "import"}
  BY <1>1 DEF Equipped, Goroutine
<1>3. CASE work[w].for = "request"
  <2>1. Go(w, "upstream") /\ "upstream" \in PCs
    BY <1>3 DEF Refreshed, PCs
  <2>2. \E n \in Goroutine : /\ work' = [work EXCEPT ![w] = n] /\ Equipped(n, aliased)
                              /\ n.pc = "upstream" /\ n.obj = work[w].obj
                              /\ n.prepared = work[w].prepared
    BY <1>1, <2>1, GoSteps
  <2> QED BY <2>2
<1>4. CASE work[w].for \in {"poll", "check"}
  <2>1. Go(w, "refetch") /\ "refetch" \in PCs
    BY <1>4 DEF Refreshed, PCs
  <2>2. \E n \in Goroutine : /\ work' = [work EXCEPT ![w] = n] /\ Equipped(n, aliased)
                              /\ n.pc = "refetch" /\ n.obj = work[w].obj
                              /\ n.prepared = work[w].prepared
    BY <1>1, <1>4, <2>1, GoSteps
  <2> QED BY <2>2
<1>5. CASE work[w].for = "import"
  <2>1. PICK profile \in {Head(work[w].entries).profile, TRUE} :
            Checked(w, work[w].obj, [Head(work[w].entries) EXCEPT
                                        !.access = TRUE, !.profile = profile])
    BY <1>5 DEF Refreshed
  <2> DEFINE e == [Head(work[w].entries) EXCEPT !.access = TRUE, !.profile = profile]
  <2>2. work[w].entries # <<>> /\ Head(work[w].entries) \in Entry
    BY <1>1, <1>5 DEF Equipped, Goroutine
  <2>3. e \in Entry /\ Checked(w, work[w].obj, e)
    BY <2>1, <2>2 DEF Entry
  <2> HIDE DEF e
  <2>4. \E g \in Goroutine : /\ work' = [work EXCEPT ![w] = g]
                              /\ \A al : Equipped(g, al)
                              /\ g.pc = "import" /\ g.obj = None
                              /\ g.prepared \subseteq work[w].prepared \cup {work[w].obj}
    BY <1>1, <1>5, <2>2, <2>3, CheckedForms
  <2> QED BY <2>4
<1> QED BY <1>2, <1>3, <1>4, <1>5

\* The goroutine whose save it is goes on.
LEMMA WorkerSaves ==
  ASSUME AccountsInv, NEW w \in Workers, work[w].pc \in {"save", "createSave", "patchSave"},
         SaveOne(work[w].obj) \/ SaveFails(work[w].obj),
         NEW g \in Goroutine, work' = [work EXCEPT ![w] = g], g.pc \notin {"sent", "answered"},
         Equipped(g, aliased'), g.obj \in {work[w].obj, None},
         g.prepared \subseteq work[w].prepared \cup {work[w].obj},
         pool' \in [Ids -> Objs \cup {None}],
         \A i \in Ids : pool'[i] \in {pool[i], None},
         UNCHANGED <<pending, round, backoff, issued, banned, lost>>,
         aliased \subseteq aliased', aliased' \subseteq Ids
  PROVE  AccountsInv' /\ Sticks
<1>1. Types /\ Refs /\ Equipped(work[w], aliased)
  BY DEF AccountsInv, Goroutines
<1>2. PICK o \in Live : o = work[w].obj
  BY <1>1, KnownObjects DEF Equipped, Pointing
<1>3. g.obj \in Live \cup {None} /\ g.prepared \subseteq Live
  BY <1>1, <1>2, KnownObjects
<1>4. /\ WorkKept
      /\ work'[w] = g /\ \A v \in Workers \ {w} : work'[v] = work[v]
  BY <1>1, <1>3, WorkUpdate
<1>5. \A u \in Objs \ {o} : Saving(u) => Saving(u)'
  BY <1>2, <1>4 DEF Saving
<1>6. SaveOne(o) \/ SaveFails(o)
  BY <1>2
<1>7. pending' \in [Objs -> 0..MaxSaves] /\ \A u \in Objs : pending'[u] > 0 => pending[u] > 0
  BY <1>1 DEF Types
<1> QED BY <1>4, <1>5, <1>6, <1>7, SaveStep

\* The tokens of a refresh are saved.
LEMMA SaveTokensStep ==
  ASSUME AccountsInv, NEW w \in Workers, SaveTokens(w)
  PROVE  AccountsInv' /\ Sticks
<1>1. Types /\ Equipped(work[w], aliased) /\ aliased \subseteq Ids
      /\ pool \in [Ids -> Objs \cup {None}]
  BY DEF AccountsInv, Goroutines, Types
<1>2. /\ work[w].pc = "save" /\ (SaveOne(work[w].obj) \/ SaveFails(work[w].obj))
      /\ UNCHANGED <<pool, pending, round, backoff, issued, banned, aliased, lost>>
  BY DEF SaveTokens
<1>3. PICK g \in Goroutine : /\ work' = [work EXCEPT ![w] = g] /\ Equipped(g, aliased)
                              /\ g.pc \notin {"sent", "answered"}
                              /\ g.obj \in {work[w].obj, None}
                              /\ g.prepared \subseteq work[w].prepared \cup {work[w].obj}
  BY <1>1, <1>2, RefreshedForms DEF SaveTokens
<1>4. Equipped(g, aliased')
  BY <1>2, <1>3
<1> QED BY <1>1, <1>2, <1>3, <1>4, WorkerSaves

\* A handler that made an account or an edit saves it; the failed save of a new
\* account takes it out of the pool again.
LEMMA HandlerSaves ==
  ASSUME AccountsInv, NEW w \in Workers, Done(w),
         work[w].pc \in {"createSave", "patchSave"},
         UNCHANGED <<pending, round, backoff, issued, banned, lost>>,
         \/ UNCHANGED <<pool, aliased>> /\ SaveOne(work[w].obj)
         \/ /\ pool' = [pool EXCEPT ![heap[work[w].obj].id] = None]
            /\ aliased' = aliased \cup {heap[work[w].obj].id}
            /\ SaveFails(work[w].obj)
  PROVE  AccountsInv' /\ Sticks
<1>1. Types /\ Refs /\ Equipped(work[w], aliased)
  BY DEF AccountsInv, Goroutines
<1>2. heap[work[w].obj].id \in Ids
  <2>1. work[w].obj \in Live
    BY <1>1, KnownObjects DEF Equipped, Pointing
  <2> QED BY <1>1, <2>1, KnownObjects, RowsAndCreds
<1>3. /\ pool' \in [Ids -> Objs \cup {None}]
      /\ \A i \in Ids : pool'[i] \in {pool[i], None}
      /\ aliased \subseteq aliased' /\ aliased' \subseteq Ids
  BY <1>1, <1>2 DEF Types
<1> DEFINE g == Idle
<1>4. /\ g \in Goroutine /\ Equipped(g, aliased') /\ g.pc \notin {"sent", "answered"}
      /\ g.obj = None /\ g.prepared = {} /\ work' = [work EXCEPT ![w] = g]
  BY IdleGoroutine DEF Done
<1> HIDE DEF g
<1> QED BY <1>3, <1>4, WorkerSaves

\* A row is deleted: of an account that is aliased since it left the pool.
LEMMA RowDeleted ==
  ASSUME AccountsInv, NEW w \in Workers, work[w].pc = "deleteRow", Done(w),
         Delete(work[w].id),
         UNCHANGED <<pool, pending, round, backoff, issued, banned, aliased, lost>>
  PROVE  AccountsInv' /\ Sticks
<1>1. Types /\ Refs /\ Equipped(work[w], aliased)
  BY DEF AccountsInv, Goroutines
<1>2. /\ work[w].id \in aliased /\ Collect /\ row' = [row EXCEPT ![work[w].id] = None]
      /\ row \in [Ids -> Rows \cup {None}]
  BY <1>1 DEF Delete, Equipped, Types
<1> DEFINE g == Idle
<1>3. /\ g \in Goroutine /\ Equipped(g, aliased') /\ g.pc \notin {"sent", "answered"}
      /\ g.obj \in Live \cup {None} /\ g.prepared \subseteq Live
      /\ work' = [work EXCEPT ![w] = g]
  BY IdleGoroutine DEF Done
<1> HIDE DEF g
<1>4. work[w].pc \notin SavePCs \cup {"answered"}
  BY DEF SavePCs
<1>5. /\ WorkKept
      /\ work'[w] = g /\ \A v \in Workers \ {w} : work'[v] = work[v]
  BY <1>1, <1>3, <1>4, WorkUpdate
<1>6. HeapKept(heap) /\ DisabledKept(heap)
  BY <1>1, <1>2, HeapUntouched
<1>7. PoolKept
  BY <1>1, PoolUnchanged
<1>8. row' \in [Ids -> Rows \cup {None}] /\ \A i \in Ids \ aliased' : row'[i] = row[i]
  BY <1>2
<1>9. RestKept
  BY <1>1, <1>8, KnownObjects DEF RestKept, Types
<1>10. SavesDue(heap)
  BY <1>4, <1>5, <1>8 DEF SavesDue
<1> QED BY <1>5, <1>6, <1>7, <1>9, <1>10, QuietStep DEF Pooled

\* SaveAll: the rows are what the pool holds.
LEMMA AllSaved ==
  ASSUME AccountsInv, NEW w \in Workers, Done(w), work[w].pc = "saveAll", SaveAll,
         UNCHANGED <<pool, pending, round, backoff, issued, banned, aliased, lost>>
  PROVE  AccountsInv' /\ Sticks
<1>1. Types /\ Refs
  BY DEF AccountsInv
<1>2. /\ heap \in [Objs -> Cred \cup {None}] /\ Pooled \subseteq Ids
      /\ \A i \in Pooled : pool[i] \in Objs /\ heap[pool[i]] \in Cred
  BY <1>1, KnownObjects DEF Types, Pooled
<1> DEFINE inPool == {pool[i] : i \in Pooled}
           h == [o \in Objs |-> IF o \in inPool THEN [heap[o] EXCEPT !.dirty = FALSE] ELSE heap[o]]
<1>3. \A o \in Objs : /\ o \in inPool => heap[o] \in Cred
                      /\ o \in inPool => /\ h[o] = [heap[o] EXCEPT !.dirty = FALSE]
                                         /\ h[o] \in Cred /\ h[o].id = heap[o].id
                                         /\ h[o].tok = heap[o].tok
                                         /\ h[o].disabled = heap[o].disabled
                                         /\ RowOf(h[o]) = RowOf(heap[o])
                      /\ o \notin inPool => h[o] = heap[o]
  <2> SUFFICES ASSUME NEW o \in Objs, o \in inPool
               PROVE  /\ heap[o] \in Cred /\ h[o] = [heap[o] EXCEPT !.dirty = FALSE]
                      /\ h[o] \in Cred /\ h[o].id = heap[o].id
                      /\ h[o].tok = heap[o].tok /\ h[o].disabled = heap[o].disabled
                      /\ RowOf(h[o]) = RowOf(heap[o])
    OBVIOUS
  <2>1. heap[o] \in Cred
    BY <1>2
  <2>2. h[o] = [heap[o] EXCEPT !.dirty = FALSE]
    OBVIOUS
  <2> HIDE DEF h, inPool
  <2> QED BY <2>1, <2>2 DEF Cred, RowOf
<1>4. h \in [Objs -> Cred \cup {None}]
  <2>1. \A o \in Objs : h[o] \in Cred \cup {None}
    BY <1>2, <1>3
  <2>2. h = [o \in Objs |-> h[o]]
    OBVIOUS
  <2> HIDE DEF h
  <2> QED BY <2>1, <2>2
<1>5. Heap(h)
  BY DEF SaveAll
<1>6. \A i \in Pooled : pool[i] \in inPool
  OBVIOUS
<1> HIDE DEF h, inPool
<1>7. HeapKept(h) /\ DisabledKept(h)
  BY <1>2, <1>3, <1>4, <1>5, Constants DEF HeapKept, DisabledKept
<1> DEFINE g == Idle
<1>8. /\ g \in Goroutine /\ Equipped(g, aliased') /\ g.pc \notin {"sent", "answered"}
      /\ g.obj \in Live \cup {None} /\ g.prepared \subseteq Live
      /\ work' = [work EXCEPT ![w] = g]
  BY IdleGoroutine DEF Done
<1> HIDE DEF g
<1>9. WorkKept
  BY <1>1, <1>8, WorkUpdate
<1>10. PoolKept
  BY <1>1, PoolUnchanged
<1>11. /\ row' \in [Ids -> Rows \cup {None}]
       /\ \A i \in Pooled : row'[i] = RowOf(heap[pool[i]])
  BY <1>2, RowsAndCreds DEF SaveAll
<1>12. RestKept
  BY <1>1, <1>11, KnownObjects DEF RestKept, Types
<1>13. /\ Types' /\ Refs' /\ Goroutines' /\ OneObject' /\ NewestTracked'
       /\ \A i \in Ids : pool'[i] # None => heap'[pool'[i]] = h[pool'[i]]
       /\ DisabledKept(h) /\ (\A i \in Pooled : pool'[i] \in {pool[i], None}) => Sticks
  BY <1>7, <1>9, <1>10, <1>12, OrdinaryStep
<1>14. StoreSettles'
  <2> SUFFICES ASSUME NEW i \in Ids, pool'[i] # None
               PROVE  (row[i] = RowOf(heap[pool[i]]))'
    BY DEF StoreSettles, Pooled
  <2>1. i \in Pooled /\ pool[i] \in Objs
    BY <1>2 DEF Pooled
  <2>2. row'[i] = RowOf(heap[pool[i]]) /\ heap'[pool'[i]] = h[pool[i]]
    BY <1>11, <1>13, <2>1
  <2>3. RowOf(h[pool[i]]) = RowOf(heap[pool[i]])
    BY <1>3, <1>6, <2>1
  <2> QED BY <2>2, <2>3
<1> QED BY <1>7, <1>13, <1>14 DEF AccountsInv, Pooled
-----------------------------------------------------------------------------
(* Steps in which tokens are given out or objects appear.                  *)

\* What every step has to show of the types and of the pointers.
LEMMA BasicStep ==
  ASSUME NEW h \in [Objs -> Cred \cup {None}], Heap(h) \/ heap' = h,
         NEW L \in SUBSET Objs, \A o \in L : h[o] # None,
         pool' \in [Ids -> Objs \cup {None}],
         \A i \in Ids : pool'[i] # None => pool'[i] \in L /\ h[pool'[i]].id = i,
         round' \subseteq L,
         work' \in [Workers -> Goroutine],
         \A v \in Workers : /\ work'[v].obj \in L \cup {None} /\ work'[v].prepared \subseteq L
                            /\ Equipped(work'[v], aliased'),
         pending' \in [Objs -> 0..MaxSaves], \A o \in Objs : pending'[o] > 0 => o \in L,
         row' \in [Ids -> Rows \cup {None}],
         backoff' \subseteq Ids, banned' \subseteq Ids, issued' \in [Ids -> 0..MaxToken],
         aliased' \subseteq Ids
  PROVE  /\ Types' /\ Refs' /\ Goroutines'
         /\ \A o \in Objs : heap'[o] = None \/ heap'[o] = h[o]
         /\ \A i \in Ids : pool'[i] # None => heap'[pool'[i]] = h[pool'[i]]
<1>1. /\ heap' \in [Objs -> Cred \cup {None}]
      /\ Refs'
      /\ \A o \in Objs : heap'[o] = None \/ heap'[o] = h[o]
      /\ \A i \in Ids : pool'[i] # None => heap'[pool'[i]] = h[pool'[i]]
  BY RefsKept
<1>2. Types'
  BY <1>1 DEF Types
<1>3. Goroutines'
  BY DEF Goroutines
<1> QED BY <1>1, <1>2, <1>3

\* An object whose refreshes are not touched.
LEMMA TrackedSame ==
  ASSUME NEW o \in Objs, NEW n, NEW m, Tracked(o, n, m), heap'[o].tok = heap[o].tok,
         \A v \in Workers :
             \/ work'[v] = work[v]
             \/ ~Answered(v, o) /\ ~Asking(v, o) /\ ~Answered(v, o)' /\ ~Asking(v, o)'
  PROVE  Tracked(o, n, m)'
<1>1. \A v \in Workers : /\ Answered(v, o)' <=> Answered(v, o)
                         /\ Asking(v, o)' <=> Asking(v, o)
                         /\ Answered(v, o) \/ Asking(v, o) => work'[v].tok = work[v].tok
  BY DEF Answered, Asking
<1> QED BY <1>1 DEF Tracked

\* The provider's answer to its newest token: a newer one, or none.
LEMMA TrackedGranted ==
  ASSUME NEW w \in Workers, NEW o \in Objs, NEW n \in Nat, NEW m \in BOOLEAN, Tracked(o, n, m),
         Asking(w, o), work[w].tok = n, heap[o].tok \in Nat, heap' = heap,
         \A v \in Workers : work[v].tok \in Nat,
         NEW k \in Nat, k = IF m THEN n + 1 ELSE n, NEW m2, m2 => m,
         work'[w].obj = o, work'[w].pc = "answered", work'[w].tok = k,
         \A v \in Workers \ {w} : work'[v] = work[v]
  PROVE  Tracked(o, k, m2)'
<1>1. Answered(w, o)' /\ ~Asking(w, o)' /\ ~Answered(w, o)
  BY DEF Answered, Asking
<1>2. \A v \in Workers \ {w} : /\ Answered(v, o)' <=> Answered(v, o)
                               /\ Asking(v, o)' <=> Asking(v, o)
                               /\ work'[v].tok = work[v].tok
  BY DEF Answered, Asking
<1>3. m => \A v \in Workers : ~Answered(v, o)
  BY <1>1 DEF Tracked
<1>4. heap'[o].tok <= k /\ (heap'[o].tok = k \/ \E v \in Workers : Answered(v, o)')
  BY <1>1 DEF Tracked
<1>5. \A v \in Workers : Answered(v, o)' => work'[v].tok = k
  BY <1>1, <1>2, <1>3 DEF Tracked
<1>6. \A v \in Workers : Asking(v, o)' => work'[v].tok <= n /\ n <= k
  BY <1>1, <1>2 DEF Tracked
<1>7. \A v \in Workers : Asking(v, o)' => work'[v].tok <= k
  <2> SUFFICES ASSUME NEW v \in Workers, Asking(v, o)' PROVE work'[v].tok <= k
    OBVIOUS
  <2>1. work'[v].tok \in Nat
    BY <1>1, <1>2
  <2> QED BY <1>6, <2>1
<1>8. ASSUME m2, NEW v \in Workers, Answered(v, o)'
      PROVE  /\ heap'[o].tok # k
             /\ \A u \in Workers \ {v} : ~Answered(u, o)' /\ (Asking(u, o)' => work'[u].tok # k)
  <2>1. m /\ k = n + 1 /\ v = w
    BY <1>2, <1>3, <1>8
  <2>2. heap'[o].tok # k
    BY <2>1 DEF Tracked
  <2>3. \A u \in Workers \ {w} : ~Answered(u, o)'
    BY <1>2, <1>3, <2>1
  <2>4. ASSUME NEW u \in Workers \ {w}, Asking(u, o)' PROVE work'[u].tok # k
    <3>1. work[u].tok <= n /\ work'[u].tok = work[u].tok /\ work[u].tok \in Nat
      BY <1>2, <2>4 DEF Tracked
    <3> QED BY <2>1, <3>1
  <2> QED BY <2>1, <2>2, <2>3, <2>4
<1> QED BY <1>4, <1>5, <1>7, <1>8 DEF Tracked

\* The bookkeeping after a step, object by object.
LEMMA NewestByObject ==
  ASSUME \A p \in Objs : heap'[p] # None /\ heap'[p].id \notin aliased' \cup lost' =>
             \E i \in Ids, n \in Nat, m \in BOOLEAN :
                 /\ heap'[p].id = i /\ issued'[i] = n
                 /\ m <=> i \in Rotating /\ n < MaxToken
                 /\ Tracked(p, n, m)'
  PROVE  NewestTracked'
<1> SUFFICES ASSUME NEW p \in Objs, heap'[p] # None, heap'[p].id \notin aliased' \cup lost'
             PROVE  Tracked(p, issued[heap[p].id], MayRotate(heap[p].id))'
  BY DEF NewestTracked
<1>1. PICK i \in Ids, n \in Nat, m \in BOOLEAN :
         /\ heap'[p].id = i /\ issued'[i] = n
         /\ m <=> i \in Rotating /\ n < MaxToken
         /\ Tracked(p, n, m)'
  OBVIOUS
<1>2. MayRotate(heap[p].id)' <=> m
  BY <1>1 DEF MayRotate
<1> QED BY <1>1, <1>2 DEF Tracked

\* The other objects of such a step.
LEMMA TrackedElsewhere ==
  ASSUME Types, NewestTracked, NEW p \in Objs, heap[p] # None,
         heap[p].id \notin aliased \cup lost,
         heap'[p].id = heap[p].id, heap'[p].tok = heap[p].tok,
         issued'[heap[p].id] = issued[heap[p].id],
         \A v \in Workers :
             \/ work'[v] = work[v]
             \/ ~Answered(v, p) /\ ~Asking(v, p) /\ ~Answered(v, p)' /\ ~Asking(v, p)'
  PROVE  \E i \in Ids, n \in Nat, m \in BOOLEAN :
             /\ heap'[p].id = i /\ issued'[i] = n
             /\ m <=> i \in Rotating /\ n < MaxToken
             /\ Tracked(p, n, m)'
<1>1. PICK i \in Ids : i = heap[p].id
  BY RowsAndCreds DEF Types
<1>2. PICK n \in Nat : n = issued[i]
  BY DEF Types
<1>3. PICK m \in BOOLEAN : m = MayRotate(i)
  BY DEF MayRotate
<1>4. Tracked(p, n, m)
  BY <1>1, <1>2, <1>3 DEF NewestTracked
<1>5. Tracked(p, n, m)'
  BY <1>4, TrackedSame
<1> QED BY <1>1, <1>2, <1>3, <1>5 DEF MayRotate

\* The provider answers.  Other refreshes of the account had been given nothing
\* that this answer makes old: they would have the newest token alone.
LEMMA RefreshGranted ==
  ASSUME AccountsInv, NEW w \in Workers, work[w].pc = "sent", NEW i \in Ids,
         i = heap[work[w].obj].id, work[w].tok = issued[i],
         issued' = [issued EXCEPT ![i] = IF MayRotate(i) THEN @ + 1 ELSE @],
         work' = [work EXCEPT ![w].pc = "answered", ![w].tok = issued'[i]],
         UNCHANGED <<heap, pool, row, pending, round, backoff, banned, aliased, lost>>
  PROVE  AccountsInv' /\ Sticks
<1>1. Types /\ Refs /\ OneObject /\ Goroutines /\ NewestTracked /\ StoreSettles
  BY DEF AccountsInv
<1>2. PICK o \in Live : o = work[w].obj
  BY <1>1, KnownObjects DEF Goroutines, Equipped, Pointing
<1>3. /\ o \in Objs /\ heap[o] \in Cred /\ heap[o] # None /\ heap[o].id = i /\ heap[o].tok \in Nat
      /\ issued \in [Ids -> 0..MaxToken] /\ issued[i] \in 0..MaxToken
      /\ work \in [Workers -> Goroutine]
  BY <1>1, <1>2, KnownObjects, RowsAndCreds DEF Types
<1>4. /\ issued' \in [Ids -> 0..MaxToken]
      /\ issued'[i] = IF MayRotate(i) THEN issued[i] + 1 ELSE issued[i]
      /\ \A j \in Ids \ {i} : issued'[j] = issued[j]
  BY <1>3, Constants DEF MayRotate
<1>5. \A v \in Workers : work[v].tok \in Nat
  BY <1>3 DEF Goroutine
<1>0. PICK k \in Nat : k = issued'[i]
  BY <1>4
<1> DEFINE g == [work[w] EXCEPT !.pc = "answered", !.tok = k]
<1>6. k \in 0..MaxToken
  BY <1>0, <1>3, <1>4
<1>7. work' = [work EXCEPT ![w] = g]
  BY <1>0, <1>3
<1>8. /\ g \in Goroutine /\ g.pc = "answered" /\ g.tok = k /\ g.obj = o
      /\ g.prepared = work[w].prepared /\ g.for = work[w].for /\ g.before = work[w].before
      /\ g.entries = work[w].entries
  BY <1>2, <1>3, <1>6 DEF Goroutine, PCs
<1> HIDE DEF g
<1>9. /\ work' \in [Workers -> Goroutine] /\ work'[w] = g
      /\ \A v \in Workers \ {w} : work'[v] = work[v]
  BY <1>3, <1>7, <1>8
<1>10. Equipped(g, aliased')
  <2>1. Equipped(work[w], aliased) /\ o # None
    BY <1>1, <1>3, Constants DEF Goroutines
  <2> QED BY <1>8, <2>1 DEF Equipped, Pointing
<1>11. \A v \in Workers : /\ work'[v].obj \in Live \cup {None} /\ work'[v].prepared \subseteq Live
                          /\ Equipped(work'[v], aliased')
  BY <1>1, <1>8, <1>9, <1>10, KnownObjects DEF Goroutines
<1>12. Types' /\ Refs' /\ Goroutines'
  <2> DEFINE L == Live
             h == heap
  <2>1. /\ h \in [Objs -> Cred \cup {None}] /\ heap' = h
        /\ L \in SUBSET Objs /\ \A u \in L : h[u] # None
        /\ \A j \in Ids : pool'[j] # None => pool'[j] \in L /\ h[pool'[j]].id = j
        /\ round' \subseteq L /\ \A u \in Objs : pending'[u] > 0 => u \in L
    BY <1>1, KnownObjects DEF Types
  <2>2. \A v \in Workers : /\ work'[v].obj \in L \cup {None} /\ work'[v].prepared \subseteq L
                           /\ Equipped(work'[v], aliased')
    BY <1>11
  <2>3. /\ pool' \in [Ids -> Objs \cup {None}] /\ pending' \in [Objs -> 0..MaxSaves]
        /\ row' \in [Ids -> Rows \cup {None}]
        /\ backoff' \subseteq Ids /\ banned' \subseteq Ids /\ aliased' \subseteq Ids
    BY <1>1 DEF Types
  <2> HIDE DEF L, h
  <2> QED BY <1>4, <1>9, <2>1, <2>2, <2>3, BasicStep
<1>13. OneObject'
  BY <1>1 DEF OneObject
<1>14. NewestTracked'
  <2> SUFFICES ASSUME NEW p \in Objs, heap[p] # None, heap[p].id \notin aliased \cup lost
               PROVE  \E j \in Ids, n \in Nat, m \in BOOLEAN :
                          /\ heap'[p].id = j /\ issued'[j] = n
                          /\ m <=> j \in Rotating /\ n < MaxToken
                          /\ Tracked(p, n, m)'
    BY NewestByObject
  <2>1. CASE p = o
    <3>1. PICK n \in Nat : n = issued[i]
      BY <1>3
    <3>2. PICK m \in BOOLEAN : m = MayRotate(i)
      BY DEF MayRotate
    <3>3. PICK m2 \in BOOLEAN : m2 <=> i \in Rotating /\ k < MaxToken
      OBVIOUS
    <3>4. Tracked(o, n, m)
      BY <1>1, <1>3, <2>1, <3>1, <3>2 DEF NewestTracked
    <3>5. (m2 => m) /\ k = IF m THEN n + 1 ELSE n
      BY <1>0, <1>3, <1>4, <3>1, <3>2, <3>3, Constants DEF MayRotate
    <3>6. Asking(w, o) /\ work[w].tok = n
      BY <1>2, <3>1 DEF Asking
    <3>7. /\ work'[w].obj = o /\ work'[w].pc = "answered" /\ work'[w].tok = k
          /\ heap' = heap /\ heap[o].tok \in Nat /\ o \in Objs
      BY <1>3, <1>8, <1>9
    <3>8. Tracked(o, k, m2)'
      BY <1>5, <1>9, <3>4, <3>5, <3>6, <3>7, TrackedGranted
    <3> QED BY <1>0, <1>3, <2>1, <3>3, <3>8
  <2>2. CASE p # o
    <3>1. heap[p].id # i /\ heap[p].id \in Ids
      BY <1>1, <1>3, <2>2, RowsAndCreds DEF OneObject, Types
    <3>2. \A v \in Workers :
             \/ work'[v] = work[v]
             \/ ~Answered(v, p) /\ ~Asking(v, p) /\ ~Answered(v, p)' /\ ~Asking(v, p)'
      BY <1>2, <1>8, <1>9, <2>2 DEF Answered, Asking
    <3> QED BY <1>1, <1>4, <3>1, <3>2, TrackedElsewhere
  <2> QED BY <2>1, <2>2
<1>15. StoreSettles'
  <2>1. \A u \in Objs : Saving(u) => Saving(u)'
    BY <1>9 DEF Saving
  <2>2. \A j \in Pooled : pool[j] \in Objs
    BY <1>1, KnownObjects DEF Pooled
  <2> SUFFICES ASSUME NEW j \in Ids, pool[j] # None, j \notin aliased
               PROVE  (Saving(pool[j]) \/ heap[pool[j]].dirty \/ row[j] = RowOf(heap[pool[j]]))'
    BY DEF StoreSettles, Pooled
  <2>3. PICK u \in Objs : u = pool[j]
    BY <2>2 DEF Pooled
  <2>4. Saving(u) \/ heap[u].dirty \/ row[j] = RowOf(heap[u])
    BY <1>1, <2>3 DEF StoreSettles, Pooled
  <2>5. Saving(u)' \/ heap'[u].dirty \/ row'[j] = RowOf(heap'[u])
    BY <2>1, <2>4
  <2>6. pool'[j] = u
    BY <2>3
  <2> QED BY <2>5, <2>6 DEF Saving
<1>16. Sticks
  BY DEF Sticks
<1> QED BY <1>12, <1>13, <1>14, <1>15, <1>16 DEF AccountsInv
\* The store after a step that writes no row, account by account.
LEMMA SettlesByAccount ==
  ASSUME Types, StoreSettles, aliased \subseteq aliased', row' = row,
         \A u \in Objs : Saving(u) => Saving(u)',
         \A j \in Ids : pool'[j] # None /\ j \notin aliased' =>
             \E u \in Objs : /\ pool'[j] = u
                             /\ \/ Saving(u)'
                                \/ /\ pool[j] = u /\ RowOf(heap'[u]) = RowOf(heap[u])
                                   /\ heap'[u].dirty = heap[u].dirty
  PROVE  StoreSettles'
<1> SUFFICES ASSUME NEW j \in Ids, pool'[j] # None, j \notin aliased'
             PROVE  (Saving(pool[j]) \/ heap[pool[j]].dirty \/ row[j] = RowOf(heap[pool[j]]))'
  BY DEF StoreSettles, Pooled
<1>1. PICK u \in Objs : /\ pool'[j] = u
                        /\ \/ Saving(u)'
                           \/ /\ pool[j] = u /\ RowOf(heap'[u]) = RowOf(heap[u])
                              /\ heap'[u].dirty = heap[u].dirty
  OBVIOUS
<1>2. pool[j] = u => Saving(u) \/ heap[u].dirty \/ row[j] = RowOf(heap[u])
  <2> SUFFICES ASSUME pool[j] = u PROVE Saving(u) \/ heap[u].dirty \/ row[j] = RowOf(heap[u])
    OBVIOUS
  <2>1. j \in Pooled \ aliased
    BY Constants DEF Pooled
  <2>2. Saving(pool[j]) \/ heap[pool[j]].dirty \/ row[j] = RowOf(heap[pool[j]])
    BY <2>1 DEF StoreSettles
  <2> QED BY <2>2
<1>3. Saving(u)' \/ heap'[u].dirty \/ row'[j] = RowOf(heap'[u])
  BY <1>1, <1>2
<1> QED BY <1>1, <1>3 DEF Saving

\* A refresh comes back from the provider.
LEMMA RefreshTokensStep ==
  ASSUME AccountsInv, NEW w \in Workers, RefreshTokens(w)
  PROVE  AccountsInv' /\ Sticks
<1>1. Types /\ Refs /\ Equipped(work[w], aliased)
  BY DEF AccountsInv, Goroutines
<1>2. /\ work[w].pc = "sent"
      /\ UNCHANGED <<pool, row, pending, round, backoff, banned, aliased>>
      /\ issued \in [Ids -> 0..MaxToken]
  BY <1>1 DEF RefreshTokens, Types
<1>3. PICK i \in Ids : i = heap[work[w].obj].id
  <2>1. work[w].obj \in Live
    BY <1>1, <1>2, KnownObjects DEF Equipped, Pointing
  <2> QED BY <1>1, <2>1, KnownObjects, RowsAndCreds
<1>4. CASE /\ work[w].tok = issued[i]
           /\ issued' = [issued EXCEPT ![i] = IF MayRotate(i) THEN @ + 1 ELSE @]
           /\ work' = [work EXCEPT ![w].pc = "answered", ![w].tok = issued'[i]]
           /\ UNCHANGED <<heap, lost>>
  BY <1>2, <1>3, <1>4, RefreshGranted
<1>5. CASE Refused(w) /\ Collect /\ UNCHANGED <<issued, lost>>
  BY <1>2, <1>5, RefreshFails
<1>6. CASE /\ MayRotate(i) /\ issued' = [issued EXCEPT ![i] = @ + 1]
           /\ lost' = lost \cup {i}
           /\ Refused(w) /\ Collect
  <2>1. /\ issued' \in [Ids -> 0..MaxToken] /\ lost \subseteq lost'
        /\ \A j \in Ids : j \notin lost' => issued'[j] = issued[j]
    BY <1>2, <1>3, <1>6, Constants DEF MayRotate
  <2> QED BY <1>2, <1>6, <2>1, RefreshFails
<1> QED BY <1>3, <1>4, <1>5, <1>6 DEF RefreshTokens, MayRotate

\* A goroutine installs the token it was given, which is the newest.
LEMMA TrackedInstalled ==
  ASSUME NEW w \in Workers, NEW o \in Objs, NEW n \in Nat, NEW m \in BOOLEAN, Tracked(o, n, m),
         Answered(w, o), heap'[o].tok = work[w].tok,
         work'[w].pc \notin {"sent", "answered"},
         \A v \in Workers \ {w} : work'[v] = work[v]
  PROVE  Tracked(o, n, m)'
<1>1. ~Answered(w, o)' /\ ~Asking(w, o)'
  BY DEF Answered, Asking
<1>2. \A v \in Workers \ {w} : /\ Answered(v, o)' <=> Answered(v, o)
                               /\ Asking(v, o)' <=> Asking(v, o)
                               /\ work'[v].tok = work[v].tok
  BY DEF Answered, Asking
<1>3. heap'[o].tok = n
  BY DEF Tracked
<1>4. m => \A v \in Workers : ~Answered(v, o)'
  BY <1>1, <1>2 DEF Tracked
<1>5. \A v \in Workers : Answered(v, o)' => work'[v].tok = n
  BY <1>1, <1>2 DEF Tracked
<1>6. \A v \in Workers : Asking(v, o)' => work'[v].tok <= n
  BY <1>1, <1>2 DEF Tracked
<1> QED BY <1>3, <1>4, <1>5, <1>6 DEF Tracked

\* RefreshToken writes the answer into the object without looking.
LEMMA InstallTokensStep ==
  ASSUME AccountsInv, NEW w \in Workers, InstallTokens(w)
  PROVE  AccountsInv' /\ Sticks
<1>1. Types /\ Refs /\ OneObject /\ Goroutines /\ NewestTracked /\ StoreSettles
      /\ Equipped(work[w], aliased)
  BY DEF AccountsInv, Goroutines
<1>2. /\ work[w].pc = "answered" /\ Go(w, "save")
      /\ UNCHANGED <<pool, row, pending, round, backoff, issued, banned, aliased, lost>>
  BY DEF InstallTokens
<1>3. PICK o \in Live : o = work[w].obj
  BY <1>1, <1>2, KnownObjects DEF Equipped, Pointing
<1>4. /\ o \in Objs /\ heap[o] \in Cred /\ heap[o] # None /\ heap[o].id \in Ids
      /\ heap \in [Objs -> Cred \cup {None}] /\ issued \in [Ids -> 0..MaxToken]
      /\ work \in [Workers -> Goroutine] /\ work[w].tok \in 0..MaxToken
  BY <1>1, <1>3, KnownObjects, RowsAndCreds DEF Types, Goroutine
<1> DEFINE c == [heap[o] EXCEPT !.tok = work[w].tok]
           h == [heap EXCEPT ![o] = c]
<1>5. /\ c \in Cred /\ c.id = heap[o].id /\ c.tok = work[w].tok /\ c.disabled = heap[o].disabled
      /\ c # None
  BY <1>4, Constants DEF Cred
<1>6. Heap(h)
  BY <1>3 DEF InstallTokens
<1> HIDE DEF c
<1>7. /\ h \in [Objs -> Cred \cup {None}] /\ h[o] = c
      /\ \A u \in Objs \ {o} : h[u] = heap[u]
  BY <1>4, <1>5
<1> HIDE DEF h
<1>8. PICK g \in Goroutine : /\ work' = [work EXCEPT ![w] = g] /\ g.pc = "save"
                             /\ Equipped(g, aliased') /\ g.obj = o
                             /\ g.prepared = work[w].prepared
  <2> DEFINE g == [work[w] EXCEPT !.pc = "save", !.tok = 0]
  <2>0. work[w] \in Goroutine /\ 0 \in 0..MaxToken /\ "save" \in PCs
    BY <1>4, Constants DEF PCs
  <2>1. /\ g \in Goroutine /\ g.pc = "save" /\ g.obj = o /\ g.prepared = work[w].prepared
        /\ g.for = work[w].for /\ g.entries = work[w].entries /\ g.before = work[w].before
    BY <1>3, <2>0 DEF Goroutine
  <2>2. work' = [work EXCEPT ![w] = g]
    BY <1>2, <1>4 DEF Go
  <2> HIDE DEF g
  <2>3. o # None
    BY <1>4, Constants
  <2>4. Equipped(g, aliased')
    BY <1>1, <1>2, <2>1, <2>3 DEF Equipped, Pointing
  <2> QED BY <2>1, <2>2, <2>4
<1>9. /\ work' \in [Workers -> Goroutine] /\ work'[w] = g
      /\ \A v \in Workers \ {w} : work'[v] = work[v]
  BY <1>4, <1>8
<1>10. /\ Types' /\ Refs' /\ Goroutines'
       /\ \A u \in Objs : heap'[u] = None \/ heap'[u] = h[u]
       /\ \A i \in Ids : pool'[i] # None => heap'[pool'[i]] = h[pool'[i]]
  <2> DEFINE L == Live
  <2>1. /\ L \in SUBSET Objs /\ \A u \in L : h[u] # None
        /\ \A j \in Ids : pool'[j] # None => pool'[j] \in L /\ h[pool'[j]].id = j
        /\ round' \subseteq L /\ \A u \in Objs : pending'[u] > 0 => u \in L
    BY <1>1, <1>2, <1>4, <1>5, <1>7, KnownObjects
  <2>2. \A v \in Workers : /\ work'[v].obj \in L \cup {None} /\ work'[v].prepared \subseteq L
                           /\ Equipped(work'[v], aliased')
    BY <1>1, <1>2, <1>3, <1>8, <1>9, KnownObjects DEF Goroutines
  <2>3. /\ pool' \in [Ids -> Objs \cup {None}] /\ pending' \in [Objs -> 0..MaxSaves]
        /\ row' \in [Ids -> Rows \cup {None}] /\ issued' \in [Ids -> 0..MaxToken]
        /\ backoff' \subseteq Ids /\ banned' \subseteq Ids /\ aliased' \subseteq Ids
    BY <1>1, <1>2 DEF Types
  <2> HIDE DEF L
  <2> QED BY <1>6, <1>7, <1>9, <2>1, <2>2, <2>3, BasicStep
<1>11. \A p \in Objs : heap'[p] # None =>
          heap[p] # None /\ heap'[p] = h[p] /\ heap'[p].id = heap[p].id
  BY <1>4, <1>5, <1>7, <1>10
<1>12. OneObject'
  BY <1>1, <1>2, <1>11, OneObjectKept
<1>13. NewestTracked'
  <2> SUFFICES ASSUME NEW p \in Objs, heap'[p] # None, heap'[p].id \notin aliased' \cup lost'
               PROVE  \E j \in Ids, n \in Nat, m \in BOOLEAN :
                          /\ heap'[p].id = j /\ issued'[j] = n
                          /\ m <=> j \in Rotating /\ n < MaxToken
                          /\ Tracked(p, n, m)'
    BY NewestByObject
  <2>0. heap[p] # None /\ heap'[p].id = heap[p].id /\ heap[p].id \notin aliased \cup lost
        /\ heap'[p] = h[p] /\ heap[p].id \in Ids
    BY <1>1, <1>2, <1>11, RowsAndCreds DEF Types
  <2>1. CASE p = o
    <3>1. PICK j \in Ids : j = heap[o].id
      BY <1>4
    <3>2. PICK n \in Nat : n = issued[j]
      BY <1>4
    <3>3. PICK m \in BOOLEAN : m = MayRotate(j)
      BY DEF MayRotate
    <3>4. Tracked(o, n, m)
      BY <1>1, <1>4, <2>0, <2>1, <3>1, <3>2, <3>3 DEF NewestTracked
    <3>5. Answered(w, o) /\ heap'[o].tok = work[w].tok /\ o \in Objs
          /\ work'[w].pc \notin {"sent", "answered"}
      BY <1>2, <1>3, <1>4, <1>5, <1>7, <1>8, <1>9, <2>0, <2>1 DEF Answered
    <3>6. Tracked(o, n, m)'
      BY <1>9, <3>4, <3>5, TrackedInstalled
    <3> QED BY <1>2, <2>0, <2>1, <3>1, <3>2, <3>3, <3>6 DEF MayRotate
  <2>2. CASE p # o
    <3>1. \A v \in Workers :
             \/ work'[v] = work[v]
             \/ ~Answered(v, p) /\ ~Asking(v, p) /\ ~Answered(v, p)' /\ ~Asking(v, p)'
      BY <1>3, <1>8, <1>9, <2>2 DEF Answered, Asking
    <3>2. heap'[p].tok = heap[p].tok /\ issued'[heap[p].id] = issued[heap[p].id]
      BY <1>2, <1>7, <2>0, <2>2
    <3> QED BY <1>1, <2>0, <3>1, <3>2, TrackedElsewhere
  <2> QED BY <2>1, <2>2
<1>14. StoreSettles'
  <2>1. \A u \in Objs : Saving(u) => Saving(u)'
    BY <1>2, <1>9 DEF Saving
  <2>2. \A u \in Objs : u = o => Saving(u)'
    BY <1>8, <1>9 DEF Saving
  <2>3. ASSUME NEW j \in Ids, pool'[j] # None
        PROVE  \E u \in Objs : /\ pool'[j] = u
                               /\ \/ Saving(u)'
                                  \/ /\ pool[j] = u /\ RowOf(heap'[u]) = RowOf(heap[u])
                                     /\ heap'[u].dirty = heap[u].dirty
    <3>1. PICK u \in Objs : u = pool[j]
      BY <1>1, <1>2, <2>3, KnownObjects
    <3>2. CASE u = o
      BY <1>2, <2>2, <3>1, <3>2
    <3>3. CASE u # o
      BY <1>2, <1>7, <1>10, <2>3, <3>1, <3>3
    <3> QED BY <3>2, <3>3
  <2> QED BY <1>1, <1>2, <2>1, <2>3, SettlesByAccount
<1>15. Sticks
  <2>1. \A u \in Objs : h[u].disabled = heap[u].disabled
    BY <1>5, <1>7
  <2> QED BY <1>1, <1>2, <1>10, <2>1, KnownObjects DEF Sticks, Pooled
<1> QED BY <1>10, <1>12, <1>13, <1>14, <1>15 DEF AccountsInv
\* A new object for account i, in the pool or not yet: the account is aliased
\* when it has another one, or a row.
LEMMA AllocStep ==
  ASSUME AccountsInv, NEW n \in Free, NEW i \in Ids, NEW w \in Workers, NEW g \in Goroutine,
         work' = [work EXCEPT ![w] = g], work[w].pc \in {"idle", "import"},
         g.pc # "answered", g.pc = "sent" => g.tok = issued[i],
         Equipped(g, aliased'), g.obj \in {n, None}, g.prepared \subseteq work[w].prepared \cup {n},
         Heap([heap EXCEPT ![n] = NewCredential(i)]) \/ heap' = [heap EXCEPT ![n] = NewCredential(i)],
         \/ pool' = pool
         \/ /\ pool[i] = None /\ pool' = [pool EXCEPT ![i] = n]
            /\ g.pc = "createSave" /\ g.obj = n,
         aliased' = IF HasTwin(i) THEN aliased \cup {i} ELSE aliased,
         UNCHANGED <<row, pending, round, backoff, issued, banned, lost>>
  PROVE  AccountsInv' /\ Sticks
<1>1. Types /\ Refs /\ OneObject /\ Goroutines /\ NewestTracked /\ StoreSettles
  BY DEF AccountsInv
<1>2. /\ heap \in [Objs -> Cred \cup {None}] /\ issued \in [Ids -> 0..MaxToken]
      /\ work \in [Workers -> Goroutine] /\ pool \in [Ids -> Objs \cup {None}]
      /\ n \in Objs /\ heap[n] = None /\ issued[i] \in 0..MaxToken
  BY <1>1 DEF Types, Free
<1>3. n \notin Live
  BY <1>1, <1>2 DEF Refs
<1> DEFINE c == NewCredential(i)
           h == [heap EXCEPT ![n] = c]
<1>4. c \in Cred /\ c.id = i /\ c.tok = issued[i] /\ c # None
  <2>1. [tok |-> issued[i], label |-> 0, disabled |-> FALSE] \in Rows
    BY <1>2 DEF Rows
  <2>2. c \in Cred /\ c.id = i /\ c.tok = issued[i]
    BY <2>1, RowsAndCreds DEF NewCredential
  <2> QED BY <2>2, Constants
<1>5. Heap(h) \/ heap' = h
  OBVIOUS
<1> HIDE DEF c
<1>6. /\ h \in [Objs -> Cred \cup {None}] /\ h[n] = c
      /\ \A u \in Objs \ {n} : h[u] = heap[u]
  BY <1>2, <1>4
<1> HIDE DEF h
<1>7. /\ work' \in [Workers -> Goroutine] /\ work'[w] = g
      /\ \A v \in Workers \ {w} : work'[v] = work[v]
  BY <1>2
<1>8. /\ pool' \in [Ids -> Objs \cup {None}]
      /\ \A j \in Ids : \/ pool'[j] = pool[j]
                        \/ j = i /\ pool[j] = None /\ pool'[j] = n
  BY <1>2
<1>9. aliased \subseteq aliased' /\ aliased' \subseteq Ids
  BY <1>1 DEF Types
<1>10. /\ Types' /\ Refs' /\ Goroutines'
       /\ \A u \in Objs : heap'[u] = None \/ heap'[u] = h[u]
       /\ \A j \in Ids : pool'[j] # None => heap'[pool'[j]] = h[pool'[j]]
  <2> DEFINE L == Live \cup {n}
  <2>1. /\ L \in SUBSET Objs /\ \A u \in L : h[u] # None
        /\ \A j \in Ids : pool'[j] # None => pool'[j] \in L /\ h[pool'[j]].id = j
        /\ round' \subseteq L /\ \A u \in Objs : pending'[u] > 0 => u \in L
    BY <1>1, <1>2, <1>3, <1>4, <1>6, <1>8, KnownObjects
  <2>2. \A v \in Workers : /\ work'[v].obj \in L \cup {None} /\ work'[v].prepared \subseteq L
                           /\ Equipped(work'[v], aliased')
    <3>1. \A v \in Workers \ {w} : Equipped(work'[v], aliased')
      BY <1>1, <1>7, <1>9 DEF Goroutines, Equipped
    <3> QED BY <1>1, <1>7, <3>1, KnownObjects
  <2>3. /\ pending' \in [Objs -> 0..MaxSaves]
        /\ row' \in [Ids -> Rows \cup {None}] /\ issued' \in [Ids -> 0..MaxToken]
        /\ backoff' \subseteq Ids /\ banned' \subseteq Ids
    BY <1>1 DEF Types
  <2> HIDE DEF L
  <2> QED BY <1>5, <1>6, <1>7, <1>8, <1>9, <2>1, <2>2, <2>3, BasicStep
<1>11. \A p \in Objs : heap'[p] # None =>
          \/ p = n /\ heap'[p] = c
          \/ p # n /\ heap[p] # None /\ heap'[p] = heap[p]
  BY <1>6, <1>10
<1>12. OneObject'
  <2>1. \A p \in Objs : heap[p] # None /\ heap[p].id = i => i \in aliased'
    BY DEF HasTwin
  <2> SUFFICES ASSUME NEW o \in Objs, NEW p \in Objs, heap'[o] # None, heap'[p] # None,
                      heap'[o].id = heap'[p].id, heap'[o].id \notin aliased'
               PROVE  o = p
    BY DEF OneObject
  <2>2. CASE o # n /\ p # n
    BY <1>1, <1>9, <1>11, <2>2 DEF OneObject
  <2> QED BY <1>4, <1>11, <2>1, <2>2
<1>13. NewestTracked'
  <2> SUFFICES ASSUME NEW p \in Objs, heap'[p] # None, heap'[p].id \notin aliased' \cup lost'
               PROVE  \E j \in Ids, k \in Nat, m \in BOOLEAN :
                          /\ heap'[p].id = j /\ issued'[j] = k
                          /\ m <=> j \in Rotating /\ k < MaxToken
                          /\ Tracked(p, k, m)'
    BY NewestByObject
  <2>1. CASE p = n
    <3>1. PICK k \in Nat : k = issued[i]
      BY <1>2
    <3>2. PICK m \in BOOLEAN : m <=> i \in Rotating /\ k < MaxToken
      OBVIOUS
    <3>3. \A v \in Workers : ~Answered(v, n)'
      BY <1>1, <1>2, <1>3, <1>7, KnownObjects, Constants DEF Answered
    <3>4. \A v \in Workers : Asking(v, n)' => work'[v].tok = k
      BY <1>1, <1>2, <1>3, <1>7, <3>1, KnownObjects, Constants DEF Asking
    <3>5. heap'[n].tok = k /\ heap'[n].id = i
      BY <1>4, <1>11, <2>1, <3>1
    <3>6. Tracked(n, k, m)'
      BY <3>3, <3>4, <3>5 DEF Tracked
    <3> QED BY <2>1, <3>1, <3>2, <3>5, <3>6
  <2>2. CASE p # n
    <3>1. \A v \in Workers :
             \/ work'[v] = work[v]
             \/ ~Answered(v, p) /\ ~Asking(v, p) /\ ~Answered(v, p)' /\ ~Asking(v, p)'
      <4>1. g.obj # p
        BY <2>2, Constants
      <4> QED BY <1>7, <4>1 DEF Answered, Asking
    <3>2. /\ heap[p] # None /\ heap'[p].id = heap[p].id /\ heap'[p].tok = heap[p].tok
          /\ heap[p].id \notin aliased \cup lost /\ issued'[heap[p].id] = issued[heap[p].id]
      BY <1>9, <1>11, <2>2
    <3> QED BY <1>1, <3>1, <3>2, TrackedElsewhere
  <2> QED BY <2>1, <2>2
<1>14. StoreSettles'
  <2>1. \A u \in Objs : Saving(u) => Saving(u)'
    BY <1>7 DEF Saving
  <2>2. g.pc = "createSave" /\ g.obj = n => \A u \in Objs : u = n => Saving(u)'
    BY <1>7 DEF Saving
  <2>3. ASSUME NEW j \in Ids, pool'[j] # None
        PROVE  \E u \in Objs : /\ pool'[j] = u
                               /\ \/ Saving(u)'
                                  \/ /\ pool[j] = u /\ RowOf(heap'[u]) = RowOf(heap[u])
                                     /\ heap'[u].dirty = heap[u].dirty
    <3>1. CASE pool'[j] = pool[j]
      <4>1. pool[j] \in Objs /\ pool[j] # n
        BY <1>1, <1>2, <1>3, <2>3, <3>1, KnownObjects
      <4>2. heap'[pool[j]] = heap[pool[j]]
        BY <1>6, <1>10, <2>3, <3>1, <4>1
      <4> QED BY <3>1, <4>1, <4>2
    <3>2. CASE pool'[j] # pool[j]
      <4>1. pool'[j] = n /\ g.pc = "createSave" /\ g.obj = n
        BY <1>2, <1>8, <3>2
      <4> QED BY <1>2, <2>2, <4>1
    <3> QED BY <3>1, <3>2
  <2> QED BY <1>1, <1>9, <2>1, <2>3, SettlesByAccount
<1>15. Sticks
  <2> SUFFICES ASSUME NEW j \in Ids, pool[j] # None, heap[pool[j]].disabled, pool'[j] # None
               PROVE  heap'[pool'[j]].disabled
    BY DEF Sticks, Pooled
  <2>1. pool'[j] = pool[j] /\ pool[j] \in Objs /\ pool[j] # n
    BY <1>1, <1>2, <1>3, <1>8, KnownObjects
  <2> QED BY <1>6, <1>10, <2>1
<1> QED BY <1>10, <1>12, <1>13, <1>14, <1>15 DEF AccountsInv

\* handleAccountCreate puts its object into the pool at once.
LEMMA CreateStep ==
  ASSUME AccountsInv, NEW w \in Workers, NEW i \in Ids, handleAccountCreate(w, i)
  PROVE  AccountsInv' /\ Sticks
<1>1. PICK n \in Free : n = Fresh
  BY DEF handleAccountCreate, Fresh
<1> DEFINE g == [Idle EXCEPT !.pc = "createSave", !.obj = n]
<1>2. n \in Objs /\ n # None
  BY Constants DEF Free
<1>3. g \in Goroutine /\ g.pc = "createSave" /\ g.obj = n /\ g.prepared = {} /\ g.for = "none"
  BY <1>2, IdleGoroutine DEF Goroutine, PCs
<1>4. /\ work' = [work EXCEPT ![w] = g] /\ work[w] = Idle
      /\ pool[i] = None /\ pool' = [pool EXCEPT ![i] = n]
      /\ heap' = [heap EXCEPT ![n] = NewCredential(i)]
      /\ aliased' = IF HasTwin(i) THEN aliased \cup {i} ELSE aliased
      /\ UNCHANGED <<row, pending, round, backoff, issued, banned, lost>>
  BY <1>1 DEF handleAccountCreate, Begin
<1> HIDE DEF g
<1>5. Equipped(g, aliased')
  BY <1>2, <1>3 DEF Equipped, Pointing
<1>6. work[w].pc \in {"idle", "import"}
  BY <1>4, IdleGoroutine
<1> QED BY <1>3, <1>4, <1>5, <1>6, AllocStep

\* prepareImportedCredential makes an object for an entry that it does not refuse.
LEMMA PrepareStep ==
  ASSUME AccountsInv, NEW w \in Workers, prepareImportedCredential(w)
  PROVE  AccountsInv' /\ Sticks
<1>1. Types /\ Refs /\ Equipped(work[w], aliased)
  BY DEF AccountsInv, Goroutines
<1>2. /\ work[w].pc = "import" /\ work[w].entries # <<>>
      /\ UNCHANGED <<pool, row, pending, round, backoff, issued, banned, lost>>
      /\ work[w] \in Goroutine /\ work \in [Workers -> Goroutine] /\ aliased \subseteq Ids
      /\ issued \in [Ids -> 0..MaxToken]
  BY <1>1 DEF prepareImportedCredential, Types
<1>3. PICK e \in Entry : e = Head(work[w].entries)
  BY <1>2 DEF Goroutine
<1>4. PICK i \in Ids : i = e.id
  BY DEF Entry
<1>5. CASE ~validateImportBase(e)
  BY <1>3, <1>5, EntryRefused
<1>6. CASE validateImportBase(e)
  <2>1. PICK n \in Free : n = Fresh
    BY <1>3, <1>6 DEF prepareImportedCredential, Fresh
  <2>2. n \in Objs /\ n # None
    BY Constants DEF Free
  <2>3. /\ aliased' = IF HasTwin(i) THEN aliased \cup {i} ELSE aliased
        /\ Heap([heap EXCEPT ![n] = NewCredential(i)])
        /\ \/ work' = [work EXCEPT ![w] = RefreshToken([work[w] EXCEPT !.obj = n], NewCredential(i))]
           \/ Checked(w, n, e)
    BY <1>2, <1>3, <1>4, <1>6, <2>1 DEF prepareImportedCredential
  <2>4. CASE Checked(w, n, e)
    <3>1. work[w].for = "import"
      BY <1>1, <1>2 DEF Equipped
    <3>2. PICK g \in Goroutine : /\ work' = [work EXCEPT ![w] = g]
                                 /\ \A al : Equipped(g, al)
                                 /\ g.pc = "import" /\ g.obj = None
                                 /\ g.prepared \subseteq work[w].prepared \cup {n}
      BY <1>1, <1>2, <2>2, <2>4, <3>1, CheckedForms
    <3> QED BY <1>2, <2>3, <3>2, AllocStep
  <2>5. CASE work' = [work EXCEPT ![w] = RefreshToken([work[w] EXCEPT !.obj = n], NewCredential(i))]
    <3> DEFINE g == RefreshToken([work[w] EXCEPT !.obj = n], NewCredential(i))
    <3>1. NewCredential(i).tok = issued[i] /\ issued[i] \in 0..MaxToken
      BY <1>2 DEF NewCredential, FromRow
    <3>2. /\ g \in Goroutine /\ g.pc = "sent" /\ g.obj = n /\ g.tok = issued[i]
          /\ g.prepared = work[w].prepared /\ g.for = work[w].for
          /\ g.before = work[w].before /\ g.entries = work[w].entries
      BY <1>2, <2>2, <3>1 DEF RefreshToken, Goroutine, PCs
    <3>3. work' = [work EXCEPT ![w] = g]
      BY <2>5
    <3> HIDE DEF g
    <3>4. Equipped(g, aliased')
      BY <1>1, <1>2, <2>2, <3>2 DEF Equipped, Pointing
    <3> QED BY <1>2, <2>3, <3>2, <3>3, <3>4, AllocStep
  <2> QED BY <2>3, <2>4, <2>5
<1> QED BY <1>5, <1>6
-----------------------------------------------------------------------------
(* Undoing an edit: all accounts get new objects.                          *)

\* What Register(before) leaves: objs is where the clones go, and h the heap
\* with them.  Every account that is in the pool before or after is aliased,
\* and a clone is as disabled as the object it replaces.
Registered(before, objs, h) ==
    /\ objs \subseteq Free
    /\ h \in [Objs -> Cred \cup {None}] /\ Heap(h)
    /\ \A u \in Objs \ objs : h[u] = heap[u]
    /\ \A u \in objs : h[u] # None /\ h[u].id \in aliased'
    /\ pool' \in [Ids -> Objs \cup {None}]
    /\ \A i \in Ids : pool'[i] # None =>
          /\ i \in aliased' /\ pool'[i] \in objs /\ h[pool'[i]].id = i
          /\ pool[i] # None => h[pool'[i]].disabled = heap[pool[i]].disabled
    /\ aliased \subseteq aliased' /\ aliased' \subseteq Ids

LEMMA RegisterForms ==
  ASSUME Types, Refs, NEW before \in Snapshots, Register(before)
  PROVE  \E objs, h : Registered(before, objs, h)
<1> DEFINE ids == {i \in Ids : before[i] # None}
           new == CHOOSE f \in Injection(ids, Free) : TRUE
           objs == {new[i] : i \in ids}
           h == [o \in Objs |->
                    IF \E i \in ids : new[i] = o
                    THEN LET i == CHOOSE i \in ids : new[i] = o
                         IN  copyRuntimeState(pool[i], before[i])
                    ELSE heap[o]]
<1>1. new \in Injection(ids, Free)
  BY DEF Register, ExistsInjection
<1>2. /\ Heap(h) /\ pool' = [i \in Ids |-> IF i \in ids THEN new[i] ELSE None]
      /\ aliased' = aliased \cup ids \cup Pooled
  BY DEF Register
<1> HIDE DEF new
<1>3. /\ new \in [ids -> Free] /\ \A i, j \in ids : new[i] = new[j] => i = j
      /\ Free \subseteq Objs
  BY <1>1 DEF Injection, IsInjective, Free
<1>4. \A i \in ids : i \in Ids /\ before[i] \in Cred /\ before[i].id = i
  BY DEF Snapshots
<1>5. \A i \in Ids : pool[i] # None => heap[pool[i]].disabled \in BOOLEAN
  BY KnownObjects, RowsAndCreds
<1>6. ASSUME NEW i \in ids
      PROVE  LET c == copyRuntimeState(pool[i], before[i])
             IN  /\ c \in Cred /\ c.id = i
                 /\ pool[i] # None => c.disabled = heap[pool[i]].disabled
  <2> DEFINE d == heap[pool[i]].disabled
  <2>1. before[i] \in Cred /\ before[i].id = i /\ (pool[i] # None => d \in BOOLEAN)
    BY <1>4, <1>5
  <2> HIDE DEF d
  <2>2. copyRuntimeState(pool[i], before[i]) =
            IF pool[i] = None THEN before[i] ELSE [before[i] EXCEPT !.disabled = d]
    BY DEF copyRuntimeState, d
  <2>3. pool[i] # None => /\ [before[i] EXCEPT !.disabled = d] \in Cred
                          /\ [before[i] EXCEPT !.disabled = d].id = i
                          /\ [before[i] EXCEPT !.disabled = d].disabled = d
    BY <2>1 DEF Cred
  <2> QED BY <2>1, <2>2, <2>3 DEF d
<1>7. \A i \in ids : h[new[i]] = copyRuntimeState(pool[i], before[i])
  <2> SUFFICES ASSUME NEW i \in ids PROVE h[new[i]] = copyRuntimeState(pool[i], before[i])
    OBVIOUS
  <2>1. (CHOOSE j \in ids : new[j] = new[i]) = i /\ new[i] \in Objs
    BY <1>3
  <2> QED BY <2>1
<1>8. /\ \A u \in Objs \ objs : h[u] = heap[u]
      /\ h = [u \in Objs |-> h[u]] /\ objs \subseteq Free
  BY <1>3
<1> HIDE DEF h
<1>9. \A i \in ids : /\ h[new[i]] \in Cred /\ h[new[i]].id = i
                     /\ pool[i] # None => h[new[i]].disabled = heap[pool[i]].disabled
  BY <1>6, <1>7
<1>10. \A u \in objs : h[u] \in Cred /\ h[u] # None /\ h[u].id \in ids
  BY <1>9, Constants
<1>11. h \in [Objs -> Cred \cup {None}]
  BY <1>8, <1>10 DEF Types
<1>12. /\ pool' \in [Ids -> Objs \cup {None}]
       /\ \A i \in Ids : pool'[i] # None => i \in ids /\ pool'[i] = new[i] /\ pool'[i] \in objs
  BY <1>2, <1>3
<1>13. aliased \subseteq aliased' /\ aliased' \subseteq Ids /\ ids \subseteq aliased'
  BY <1>2 DEF Types, Pooled
<1>14. Registered(before, objs, h)
  BY <1>2, <1>8, <1>9, <1>10, <1>11, <1>12, <1>13 DEF Registered
<1> QED BY <1>14

\* The save of an edit fails and the edit is undone.
LEMMA UndoStep ==
  ASSUME AccountsInv, NEW w \in Workers, Done(w), Undo(w),
         work[w].pc \in {"patchSave", "deleteRow", "saveAll"},
         UNCHANGED <<pending, round, backoff, issued, banned, lost>>
  PROVE  AccountsInv' /\ Sticks
<1>1. Types /\ Refs /\ OneObject /\ Goroutines /\ NewestTracked /\ StoreSettles
      /\ Equipped(work[w], aliased)
  BY DEF AccountsInv, Goroutines
<1>2. PICK before \in Snapshots : before = work[w].before
  BY <1>1 DEF Equipped
<1>3. row' = row /\ Register(before)
  BY <1>2 DEF Undo
<1>4. PICK objs, h : Registered(before, objs, h)
  BY <1>1, <1>3, RegisterForms
<1>5. /\ work' = [work EXCEPT ![w] = Idle] /\ work \in [Workers -> Goroutine]
      /\ issued \in [Ids -> 0..MaxToken]
  BY <1>1 DEF Done, Types
<1>6. /\ work' \in [Workers -> Goroutine] /\ work'[w] = Idle
      /\ \A v \in Workers \ {w} : work'[v] = work[v]
  BY <1>5, IdleGoroutine
<1>7. /\ Types' /\ Refs' /\ Goroutines'
      /\ \A u \in Objs : heap'[u] = None \/ heap'[u] = h[u]
      /\ \A i \in Ids : pool'[i] # None => heap'[pool'[i]] = h[pool'[i]]
  <2> DEFINE L == Live \cup objs
  <2>1. objs \subseteq Objs /\ \A u \in Live : u \notin objs /\ u \in Objs /\ heap[u] # None
    BY <1>1, <1>4, KnownObjects DEF Registered, Free
  <2>2. /\ L \in SUBSET Objs /\ \A u \in L : h[u] # None
        /\ \A j \in Ids : pool'[j] # None => pool'[j] \in L /\ h[pool'[j]].id = j
    BY <1>4, <2>1 DEF Registered
  <2>3. round' \subseteq L /\ \A u \in Objs : pending'[u] > 0 => u \in L
    BY <1>1, KnownObjects
  <2>4. \A v \in Workers : /\ work'[v].obj \in L \cup {None} /\ work'[v].prepared \subseteq L
                           /\ Equipped(work'[v], aliased')
    <3>1. \A v \in Workers \ {w} : Equipped(work'[v], aliased')
      BY <1>1, <1>4, <1>6 DEF Goroutines, Equipped, Registered
    <3>2. /\ work'[w].obj = None /\ work'[w].prepared = {} /\ Equipped(work'[w], aliased')
      BY <1>6, IdleGoroutine
    <3> QED BY <1>1, <1>6, <3>1, <3>2, KnownObjects
  <2>5. /\ pool' \in [Ids -> Objs \cup {None}] /\ pending' \in [Objs -> 0..MaxSaves]
        /\ row' \in [Ids -> Rows \cup {None}] /\ issued' \in [Ids -> 0..MaxToken]
        /\ backoff' \subseteq Ids /\ banned' \subseteq Ids /\ aliased' \subseteq Ids
        /\ h \in [Objs -> Cred \cup {None}] /\ Heap(h)
    BY <1>1, <1>3, <1>4 DEF Types, Registered
  <2> HIDE DEF L
  <2> QED BY <1>6, <2>2, <2>3, <2>4, <2>5, BasicStep
<1>8. \A p \in Objs : heap'[p] # None /\ heap'[p].id \notin aliased' =>
          heap[p] # None /\ heap'[p] = heap[p] /\ heap[p].id \notin aliased
  BY <1>4, <1>7 DEF Registered
<1>9. OneObject'
  BY <1>1, <1>8 DEF OneObject
<1>10. NewestTracked'
  <2> SUFFICES ASSUME NEW p \in Objs, heap'[p] # None, heap'[p].id \notin aliased' \cup lost'
               PROVE  \E j \in Ids, k \in Nat, m \in BOOLEAN :
                          /\ heap'[p].id = j /\ issued'[j] = k
                          /\ m <=> j \in Rotating /\ k < MaxToken
                          /\ Tracked(p, k, m)'
    BY NewestByObject
  <2>1. \A v \in Workers :
           \/ work'[v] = work[v]
           \/ ~Answered(v, p) /\ ~Asking(v, p) /\ ~Answered(v, p)' /\ ~Asking(v, p)'
    BY <1>6, IdleGoroutine DEF Answered, Asking
  <2>2. /\ heap[p] # None /\ heap'[p].id = heap[p].id /\ heap'[p].tok = heap[p].tok
        /\ heap[p].id \notin aliased \cup lost /\ issued'[heap[p].id] = issued[heap[p].id]
    BY <1>8
  <2> QED BY <1>1, <2>1, <2>2, TrackedElsewhere
<1>11. StoreSettles'
  BY <1>4 DEF StoreSettles, Pooled, Registered
<1>12. Sticks
  BY <1>4, <1>7 DEF Sticks, Pooled, Registered
<1> QED BY <1>7, <1>9, <1>10, <1>11, <1>12 DEF AccountsInv
-----------------------------------------------------------------------------
(* Start-up.                                                               *)

\* The process has just loaded its accounts; those whose row has an outdated
\* token have lost the newest one.
FreshStart ==
    /\ row \in [Ids -> Rows \cup {None}]
    /\ issued \in [Ids -> 0..MaxToken]
    /\ banned \subseteq Ids
    /\ pool = Loaded(row) /\ heap = HeapOf(row)
    /\ pending = [o \in Objs |-> 0]
    /\ work = [w \in Workers |-> Idle]
    /\ round = {} /\ backoff = {} /\ aliased = {}
    /\ \A i \in Ids : row[i] # None => i \in lost \/ row[i].tok = issued[i]

\* buildPool gives every row an object of its own.
LEMMA LoadedForms ==
  ASSUME NEW r \in [Ids -> Rows \cup {None}]
  PROVE  /\ Loaded(r) \in [Ids -> Objs \cup {None}]
         /\ HeapOf(r) \in [Objs -> Cred \cup {None}]
         /\ \A i \in Ids : Loaded(r)[i] # None =>
               /\ r[i] \in Rows /\ r[i] # None
               /\ HeapOf(r)[Loaded(r)[i]] = FromRow(i, r[i])
               /\ HeapOf(r)[Loaded(r)[i]].id = i
         /\ \A o \in Objs : HeapOf(r)[o] # None =>
               \E i \in Ids : Loaded(r)[i] = o
<1> DEFINE new == CHOOSE f \in Injection(Ids, Objs) : TRUE
           P == Loaded(r)
           H == HeapOf(r)
<1>1. new \in Injection(Ids, Objs)
  BY AccountsAssumption DEF ExistsInjection
<1>2. P = [i \in Ids |-> IF r[i] = None THEN None ELSE new[i]]
  BY DEF Loaded
<1> HIDE DEF new
<1>3. new \in [Ids -> Objs] /\ \A i, j \in Ids : new[i] = new[j] => i = j
  BY <1>1 DEF Injection, IsInjective
<1>4. /\ P \in [Ids -> Objs \cup {None}]
      /\ \A i \in Ids : P[i] # None => r[i] \in Rows /\ r[i] # None /\ P[i] \in Objs
      /\ \A i, j \in Ids : P[i] # None /\ P[i] = P[j] => i = j
  BY <1>2, <1>3, Constants
<1>5. H = [o \in Objs |-> IF \E i \in Ids : P[i] = o
                          THEN LET i == CHOOSE i \in Ids : P[i] = o IN FromRow(i, r[i])
                          ELSE None]
  BY DEF HeapOf
<1> HIDE DEF P, H
<1>6. ASSUME NEW i \in Ids, P[i] # None
      PROVE  H[P[i]] = FromRow(i, r[i])
  <2>1. P[i] \in Objs /\ \E j \in Ids : P[j] = P[i]
    BY <1>4, <1>6
  <2>2. (CHOOSE j \in Ids : P[j] = P[i]) = i
    BY <1>4, <1>6
  <2> QED BY <1>5, <2>1, <2>2
<1>7. \A o \in Objs : H[o] # None => \E i \in Ids : P[i] = o
  BY <1>5
<1>8. \A i \in Ids : P[i] # None => H[P[i]] \in Cred /\ H[P[i]].id = i
  BY <1>4, <1>6, RowsAndCreds
<1>9. H \in [Objs -> Cred \cup {None}]
  <2>1. \A o \in Objs : H[o] \in Cred \cup {None}
    BY <1>7, <1>8, Constants
  <2>2. H = [o \in Objs |-> H[o]]
    BY <1>5
  <2> QED BY <2>1, <2>2
<1> QED BY <1>4, <1>6, <1>7, <1>8, <1>9 DEF P, H

LEMMA Starting ==
  FreshStart => AccountsInv
<1> SUFFICES ASSUME FreshStart PROVE AccountsInv
  OBVIOUS
<1>1. /\ pool \in [Ids -> Objs \cup {None}]
      /\ heap \in [Objs -> Cred \cup {None}]
      /\ \A i \in Ids : pool[i] # None =>
            /\ row[i] \in Rows /\ row[i] # None
            /\ heap[pool[i]] = FromRow(i, row[i]) /\ heap[pool[i]].id = i
      /\ \A o \in Objs : heap[o] # None => \E i \in Ids : pool[i] = o
  BY LoadedForms DEF FreshStart
<1>2. \A w \in Workers : work[w] = Idle
  BY DEF FreshStart
<1>3. Types
  BY <1>1, IdleGoroutine, Constants DEF FreshStart, Types
<1>4. \A o \in Live : \E i \in Ids : pool[i] = o
  BY <1>2, IdleGoroutine, Constants DEF FreshStart, Live
<1>5. \A i \in Ids : pool[i] # None => heap[pool[i]] \in Cred /\ heap[pool[i]].tok = row[i].tok
  BY <1>1, RowsAndCreds
<1>6. Refs
  <2>1. \A o \in Live : o \in Objs
    BY DEF Live
  <2> QED BY <1>1, <1>4, <1>5, <2>1, Constants DEF Refs
<1>7. Goroutines
  BY <1>2, IdleGoroutine DEF Goroutines
<1>8. OneObject
  BY <1>1, Constants DEF OneObject
<1>9. NewestTracked
  <2> SUFFICES ASSUME NEW o \in Objs, heap[o] # None, heap[o].id \notin lost
               PROVE  Tracked(o, issued[heap[o].id], MayRotate(heap[o].id))
    BY DEF NewestTracked
  <2>1. PICK i \in Ids : pool[i] = o
    BY <1>1
  <2>2. heap[o].id = i /\ heap[o].tok = row[i].tok /\ row[i] # None
    BY <1>1, <1>5, <2>1, Constants
  <2>3. heap[o].tok = issued[i] /\ issued[i] \in Nat
    BY <2>2 DEF FreshStart
  <2>4. \A w \in Workers : ~Answered(w, o) /\ ~Asking(w, o)
    BY <1>2, IdleGoroutine DEF Answered, Asking
  <2> QED BY <2>2, <2>3, <2>4 DEF Tracked
<1>10. StoreSettles
  BY <1>1, RowsAndCreds DEF StoreSettles, Pooled
<1> QED BY <1>3, <1>6, <1>7, <1>8, <1>9, <1>10 DEF AccountsInv
-----------------------------------------------------------------------------
(* The theorems.                                                           *)

\* A restart loads the rows as the start does.
LEMMA RestartStep ==
  ASSUME AccountsInv, Restart
  PROVE  FreshStart'
<1>1. /\ row \in [Ids -> Rows \cup {None}] /\ issued \in [Ids -> 0..MaxToken] /\ banned \subseteq Ids
  BY DEF AccountsInv, Types
<1>2. \A i \in Ids : row'[i] # None => i \in lost' \/ row'[i].tok = issued'[i]
  BY DEF Restart
<1> QED BY <1>1, <1>2 DEF Restart, FreshStart

\* The steps of a goroutine that has begun.
LEMMA RunningSteps ==
  ASSUME AccountsInv, NEW w \in Workers, Step(w)
  PROVE  AccountsInv' /\ Sticks
<1>1. CASE Refresh(w)
  BY <1>1, RefreshTokensStep, InstallTokensStep, SaveTokensStep DEF Refresh
<1>2. CASE Check(w)
  BY <1>2, FetchQuotaStep, QuotaFailedStep DEF Check
<1>3. CASE Upstream(w)
  BY <1>3, UpstreamStep
<1>4. CASE CreateSave(w)
  BY <1>4, HandlerSaves DEF CreateSave
<1>5. CASE PatchApply(w)
  BY <1>5, PatchApplyStep
<1>6. CASE PatchSave(w)
  <2>1. CASE UNCHANGED <<pool, aliased>> /\ SaveOne(work[w].obj)
    BY <1>6, <2>1, HandlerSaves DEF PatchSave
  <2>2. CASE Undo(w)
    BY <1>6, <2>2, UndoStep DEF PatchSave
  <2> QED BY <1>6, <2>1, <2>2 DEF PatchSave
<1>7. CASE DeleteRow(w)
  <2>1. CASE UNCHANGED <<pool, aliased, faults>> /\ Delete(work[w].id)
    BY <1>7, <2>1, RowDeleted DEF DeleteRow
  <2>2. CASE Undo(w)
    BY <1>7, <2>2, UndoStep DEF DeleteRow
  <2> QED BY <1>7, <2>1, <2>2 DEF DeleteRow
<1>8. CASE prepareImportedCredential(w)
  BY <1>8, PrepareStep
<1>9. CASE ImportApply(w)
  BY <1>9, ImportApplyStep
<1>10. CASE ImportSave(w)
  <2>1. CASE UNCHANGED <<pool, aliased, faults>> /\ SaveAll
    BY <1>10, <2>1, AllSaved DEF ImportSave
  <2>2. CASE Undo(w)
    BY <1>10, <2>2, UndoStep DEF ImportSave
  <2> QED BY <1>10, <2>1, <2>2 DEF ImportSave
<1> QED BY <1>1, <1>2, <1>3, <1>4, <1>5, <1>6, <1>7, <1>8, <1>9, <1>10 DEF Step

LEMMA StartSteps ==
  ASSUME AccountsInv, NEW w \in Workers, Start(w)
  PROVE  AccountsInv' /\ Sticks
<1>1. ASSUME NEW i \in Ids, \/ Acquire(w, i) \/ handleAccountRefresh(w, i)
                            \/ handleAccountCreate(w, i) \/ handleAccountPatch(w, i)
                            \/ handleAccountDelete(w, i)
      PROVE  AccountsInv' /\ Sticks
  BY <1>1, AcquireStep, CheckBegins, CreateStep, PatchBegins, DeleteBegins
<1>2. ASSUME NEW b \in Imports, handleAccountsImport(w, b)
      PROVE  AccountsInv' /\ Sticks
  BY <1>2, ImportBegins
<1> QED BY <1>1, <1>2 DEF Start

\* Every step of the system; Sticks but for the operator and for a restart.
LEMMA Stepwise ==
  ASSUME AccountsInv, Next
  PROVE  \/ AccountsInv' /\ Sticks
         \/ Restart /\ FreshStart'
         \/ /\ AccountsInv'
            /\ \E i \in Ids : /\ SetEnabled(i, TRUE)
                              /\ \A j \in Pooled \ {i} :
                                    heap[pool[j]].disabled => heap'[pool'[j]].disabled
<1>1. ASSUME NEW w \in Workers, Start(w) \/ Step(w)
      PROVE  AccountsInv' /\ Sticks
  BY <1>1, StartSteps, RunningSteps
<1>2. CASE Poll
  <2>1. ASSUME NEW o \in Objs, NEW w \in Workers, PollStart(w, o)
        PROVE  AccountsInv' /\ Sticks
    <3>1. PICK i \in Ids : TRUE
      <4>1. heap[o] \in Cred
        BY <2>1, KnownObjects DEF AccountsInv, PollStart
      <4> QED BY <4>1, RowsAndCreds
    <3> QED BY <2>1, CheckBegins
  <2> QED BY <1>2, <2>1, PollerSteps DEF Poll
<1>3. ASSUME NEW o \in Objs, AsyncSave(o)
      PROVE  AccountsInv' /\ Sticks
  BY <1>3, AsyncSaveStep
<1>4. ASSUME NEW i \in Ids, Ban(i) \/ BackoffExpires(i)
      PROVE  AccountsInv' /\ Sticks
  BY <1>4, PollerSteps
<1>5. ASSUME NEW i \in Ids, NEW b \in BOOLEAN, SetEnabled(i, b)
      PROVE  \/ AccountsInv' /\ Sticks
             \/ /\ AccountsInv'
                /\ \E k \in Ids : /\ SetEnabled(k, TRUE)
                                  /\ \A j \in Pooled \ {k} :
                                        heap[pool[j]].disabled => heap'[pool'[j]].disabled
  <2>1. /\ AccountsInv'
        /\ b = FALSE => Sticks
        /\ \A j \in Pooled \ {i} : heap[pool[j]].disabled => heap'[pool'[j]].disabled
    BY <1>5, SetEnabledStep
  <2>2. CASE b = TRUE
    BY <1>5, <2>1, <2>2
  <2> QED BY <2>1, <2>2
<1>6. CASE Restart
  BY <1>6, RestartStep
<1> QED BY <1>1, <1>2, <1>3, <1>4, <1>5, <1>6 DEF Next

\* A stuttering step.
LEMMA Stuttering ==
  ASSUME AccountsInv, UNCHANGED vars
  PROVE  AccountsInv'
<1>1. UNCHANGED <<heap, pool, row, pending, work, round, backoff, issued, banned, aliased, lost>>
  BY DEF vars
<1>2. Collect \/ UNCHANGED heap
  BY <1>1
<1>3. round' \subseteq Live /\ backoff' \subseteq Ids /\ banned' \subseteq Ids
  BY <1>1, KnownObjects DEF AccountsInv, Types
<1> QED BY <1>1, <1>2, <1>3, SystemStep

\* The inductive invariant: at most one object per account unless it is known to
\* have had more, goroutines that point at what exists, newest tokens tracked
\* through concurrent refreshes, and a store that catches up.
THEOREM AccountsInvariant == Spec => []AccountsInv
<1>1. Init => AccountsInv
  <2> SUFFICES ASSUME Init PROVE FreshStart
    BY Starting
  <2>1. [tok |-> 0, label |-> 0, disabled |-> FALSE] \in Rows
    BY Constants DEF Rows
  <2>2. row \in [Ids -> Rows \cup {None}] /\ \A i \in Ids : row[i] # None => row[i].tok = 0
    BY <2>1 DEF Init
  <2>3. issued \in [Ids -> 0..MaxToken] /\ \A i \in Ids : issued[i] = 0
    BY Constants DEF Init
  <2>4. \A i \in Ids : row[i] # None => i \in lost \/ row[i].tok = issued[i]
    BY <2>2, <2>3
  <2> QED BY <2>2, <2>3, <2>4 DEF Init, FreshStart
<1>2. FreshStart' => AccountsInv'
  BY Starting, PTL
<1>3. AccountsInv /\ [Next]_vars => AccountsInv'
  BY <1>2, Stepwise, Stuttering
<1> QED BY <1>1, <1>3, PTL DEF Spec

\* Types; and what the pool holds for an account is that account's object,
\* through creation, import, deletion and the undoing of failed edits.
THEOREM AccountsTypes == Spec => []TypeOK
<1>1. AccountsInv => TypeOK
  <2> SUFFICES ASSUME AccountsInv PROVE TypeOK
    OBVIOUS
  <2>1. \A i \in Pooled : heap[pool[i]] # None /\ heap[pool[i]].id = i
    BY KnownObjects DEF AccountsInv, Pooled
  <2> QED BY <2>1 DEF AccountsInv, Types, TypeOK, Rows
<1> QED BY <1>1, AccountsInvariant, PTL

\* However the saves of a process run, for any number of accounts and
\* goroutines: once they have ended, PostgreSQL holds what the pool holds.
THEOREM StoreCatchesUp == Spec => []StoreSettles
<1>1. AccountsInv => StoreSettles
  BY DEF AccountsInv
<1> QED BY <1>1, AccountsInvariant, PTL

\* However many goroutines refresh an account at once, the newest token is in
\* the pool or about to be put there.
THEOREM NewestTokenInPool == Spec => []NewestTokenKept
<1>1. AccountsInv => NewestTokenKept
  <2> SUFFICES ASSUME AccountsInv, NEW i \in Ids, pool[i] # None, i \notin aliased \cup lost
               PROVE  \/ heap[pool[i]].tok = issued[i]
                      \/ \E w \in Workers : /\ work[w].pc = "answered"
                                            /\ work[w].obj = pool[i] /\ work[w].tok = issued[i]
    BY DEF NewestTokenKept, Pooled
  <2>1. pool[i] \in Objs /\ heap[pool[i]] # None /\ heap[pool[i]].id = i
    BY KnownObjects DEF AccountsInv
  <2>2. Tracked(pool[i], issued[i], MayRotate(i))
    BY <2>1 DEF AccountsInv, NewestTracked
  <2> QED BY <2>2 DEF Tracked, Answered
<1> QED BY <1>1, AccountsInvariant, PTL

\* Only the operator, or a restart, lifts a disablement: no refresh, quota
\* result, save, import or undone edit does.
THEOREM DisablementSticks == Spec => DisabledSticks
<1>1. ASSUME AccountsInv, [Next]_vars
      PROVE  [\A i \in Pooled : /\ heap[pool[i]].disabled
                                /\ pool'[i] # None
                                /\ ~heap'[pool'[i]].disabled
                                => Restart \/ SetEnabled(i, TRUE)]_vars
  <2>1. CASE UNCHANGED vars
    BY <2>1
  <2>2. CASE Next
    <3>1. CASE Sticks
      BY <3>1 DEF Sticks
    <3>2. CASE Restart
      BY <3>2
    <3>3. CASE \E i \in Ids : /\ SetEnabled(i, TRUE)
                              /\ \A j \in Pooled \ {i} :
                                    heap[pool[j]].disabled => heap'[pool'[j]].disabled
      BY <3>3
    <3> QED BY <1>1, <2>2, <3>1, <3>2, <3>3, Stepwise
  <2> QED BY <1>1, <2>1, <2>2
<1> QED BY <1>1, AccountsInvariant, PTL DEF Spec, DisabledSticks
============================================================================
