--------------------------- MODULE HidMonitor_proof ---------------------------
(***************************************************************************)
(* Theorems about the Linux HAL under its monitor.  A slot is in one of    *)
(* four places (Place), which the two goroutines that fill slots and the   *)
(* one that frees them hand over without a lock; and every open descriptor *)
(* belongs to one slot or to one goroutine that is about to store it       *)
(* (Owned).                                                                *)
(***************************************************************************)
EXTENDS HidMonitor, FiniteSetTheorems, WellFoundedInduction, TLAPS

Conn == [device : Devices, file : Files, disconnected : BOOLEAN]
WorkerType(n) == [at : Stages, device : Devices \union {Nobody}, port : Ports \union {0}, conn : 0 .. n]

(* The types of what the argument is about.                                *)
Types ==
  /\ uevents \in Seq({"add", "remove"} \X Devices) /\ addCh \in Seq(Devices)
  /\ conns \in Seq(Conn)
  /\ slots \in [Ports -> 0 .. Len(conns)]
  /\ freeList \in Seq(Ports)
  /\ files \in [Files -> Devices \union {Nobody}]
  /\ worker \in [Workers -> WorkerType(Len(conns))]

(* What a goroutine carries from one stage to the next, and when they run. *)
Carried ==
  /\ \A w \in Workers :
       /\ worker[w].at \in {"alloc", "open", "store", "watch", "signal"} => worker[w].device \in Devices
       /\ worker[w].at \in {"open", "store", "watch", "signal", "free", "report"} => worker[w].port \in Ports
       /\ worker[w].at \in {"store", "watch"} => worker[w].conn \in DOMAIN conns
  /\ worker["scan"].at # "free"
  /\ worker["loop"].at = "free" => slots[worker["loop"].port] # 0
Phases ==
  /\ hal \in {"new", "ready"} => \A w \in Workers : worker[w].at = "none"
  /\ hal \in {"stopped", "closed"} => \A w \in Workers : worker[w].at = "ended"

(* A slot is in exactly one place.                                         *)
Once(s)      == \A i, j \in DOMAIN s : s[i] = s[j] => i = j
Within(p, s) == \E i \in DOMAIN s : s[i] = p
Fills(w, p)  == worker[w].at \in {"open", "store"} /\ worker[w].port = p
Place ==
  /\ Once(freeList)
  /\ \A p \in Ports : Within(p, freeList) \/ slots[p] # 0 \/ \E w \in Workers : Fills(w, p)
  /\ \A p \in Ports : Within(p, freeList) => slots[p] = 0 /\ \A w \in Workers : ~Fills(w, p)
  /\ \A p \in Ports, w \in Workers : Fills(w, p) => slots[p] = 0
  /\ \A p \in Ports, v, w \in Workers : Fills(v, p) /\ Fills(w, p) => v = w
  /\ count = MaxDevices - Len(freeList)

(* An open descriptor has exactly one owner.                               *)
Has(p, f)    == slots[p] # 0 /\ conns[slots[p]].file = f
Stores(w, f) == worker[w].at = "store" /\ conns[worker[w].conn].file = f
Owned ==
  /\ \A p \in Ports : slots[p] # 0 => files[conns[slots[p]].file] = conns[slots[p]].device
  /\ \A w \in Workers : worker[w].at = "store" => files[conns[worker[w].conn].file] = conns[worker[w].conn].device
  /\ \A f \in Files :
       /\ files[f] # Nobody => (\E p \in Ports : Has(p, f)) \/ \E w \in Workers : Stores(w, f)
       /\ \A p, q \in Ports : Has(p, f) /\ Has(q, f) => p = q
       /\ \A p \in Ports, w \in Workers : ~(Has(p, f) /\ Stores(w, f))
       /\ \A v, w \in Workers : Stores(v, f) /\ Stores(w, f) => v = w

Inv == Types /\ Carried /\ Phases /\ Place /\ Owned

-----------------------------------------------------------------------------
(* The kernel gives out a descriptor that is closed; a search of the pool  *)
(* ends with a slot of the device.                                         *)
LEMMA LowestIsOne == ASSUME NEW fs \in SUBSET Nat, fs # {} PROVE Lowest(fs) \in fs
<1>1. PICK f \in fs : \A g \in fs : <<g, f>> \notin OpToRel(<, Nat)
  BY NatLessThanWellFounded, WFMin
<1>2. \A g \in fs : ~(g < f)
  BY <1>1 DEF OpToRel
<1>3. \E h \in fs : \A g \in fs : h <= g
  BY <1>2
<1> QED BY <1>3 DEF Lowest

(* Close frees the slots in use from the first to the last, each once: a   *)
(* slot stands where as many slots in use are above it as places before.   *)
LEMMA DescendingOnce ==
  ASSUME NEW ps \in SUBSET Ports
  PROVE  /\ Cardinality(ps) \in Nat
         /\ Descending(ps) \in [1 .. Cardinality(ps) -> ps]
         /\ \A p \in ps : \E i \in 1 .. Cardinality(ps) : Descending(ps)[i] = p
         /\ \A i, j \in 1 .. Cardinality(ps) : Descending(ps)[i] = Descending(ps)[j] => i = j
<1> DEFINE n == Cardinality(ps)
           Above(p) == {q \in ps : q > p}
           rank == [p \in ps |-> Cardinality(Above(p)) + 1]
<1>1. MaxDevices \in Int /\ \A p \in ps : p \in Int
  BY LinuxHalAssumption DEF Ports
<1>2. IsFiniteSet(Ports)
  BY <1>1, FS_Interval DEF Ports
<1>3. IsFiniteSet(ps) /\ n \in Nat
  BY <1>2, FS_Subset, FS_CardinalityType
<1>4. \A p \in ps : Above(p) \in SUBSET (ps \ {p})
  BY <1>1
<1>5. \A p \in ps : IsFiniteSet(Above(p)) /\ Cardinality(Above(p)) \in 0 .. n - 1
  <2> SUFFICES ASSUME NEW p \in ps PROVE IsFiniteSet(Above(p)) /\ Cardinality(Above(p)) \in 0 .. n - 1
    OBVIOUS
  <2>1. IsFiniteSet(ps \ {p}) /\ Cardinality(ps \ {p}) = n - 1
    BY <1>3, FS_RemoveElement
  <2>2. IsFiniteSet(Above(p)) /\ Cardinality(Above(p)) <= n - 1
    BY <1>4, <2>1, FS_Subset
  <2>3. Cardinality(Above(p)) \in Nat
    BY <2>2, FS_CardinalityType
  <2> QED BY <1>3, <2>2, <2>3
<1>6. \A p, q \in ps : p < q => Cardinality(Above(q)) < Cardinality(Above(p))
  <2> SUFFICES ASSUME NEW p \in ps, NEW q \in ps, p < q PROVE Cardinality(Above(q)) < Cardinality(Above(p))
    OBVIOUS
  <2>1. q \in Above(p) /\ Above(q) \in SUBSET (Above(p) \ {q})
    BY <1>1
  <2>2. IsFiniteSet(Above(p) \ {q}) /\ Cardinality(Above(p) \ {q}) = Cardinality(Above(p)) - 1
    BY <1>5, <2>1, FS_RemoveElement
  <2>3. Cardinality(Above(q)) <= Cardinality(Above(p) \ {q})
    BY <2>1, <2>2, FS_Subset
  <2> HIDE DEF Above
  <2> QED BY <1>5, <2>2, <2>3
<1> HIDE DEF Above
<1>7. rank \in [ps -> 1 .. n]
  BY <1>3, <1>5
<1>8. \A p, q \in ps : rank[p] = rank[q] => p = q
  <2> SUFFICES ASSUME NEW p \in ps, NEW q \in ps, rank[p] = rank[q], p # q PROVE FALSE
    OBVIOUS
  <2>1. Cardinality(Above(p)) = Cardinality(Above(q))
    BY <1>5
  <2>2. p < q \/ q < p
    BY <1>1
  <2> QED BY <1>5, <1>6, <2>1, <2>2
<1>9. rank \in Surjection(ps, 1 .. n)
  <2>1. rank \in Injection(ps, 1 .. n)
    BY <1>7, <1>8 DEF Injection, IsInjective
  <2>2. IsFiniteSet(1 .. n) /\ Cardinality(1 .. n) = n
    BY <1>3, FS_Interval
  <2> HIDE DEF rank
  <2> QED BY <2>1, <2>2, FS_Injection
<1>10. \A i \in 1 .. n : \E p \in ps : rank[p] = i
  BY <1>9 DEF Surjection
<1>11. \A i \in 1 .. n : Descending(ps)[i] = CHOOSE p \in ps : Cardinality(Above(p)) = i - 1
  BY DEF Descending, Above
<1>12. \A i \in 1 .. n : Descending(ps)[i] \in ps /\ rank[Descending(ps)[i]] = i
  <2> SUFFICES ASSUME NEW i \in 1 .. n PROVE Descending(ps)[i] \in ps /\ rank[Descending(ps)[i]] = i
    OBVIOUS
  <2>1. PICK p \in ps : rank[p] = i
    BY <1>10
  <2>2. Cardinality(Above(p)) = i - 1
    BY <1>3, <1>5, <2>1
  <2>3. Descending(ps)[i] \in ps /\ Cardinality(Above(Descending(ps)[i])) = i - 1
    BY <1>11, <2>2
  <2> QED BY <1>3, <1>5, <2>3
<1>13. Descending(ps) \in [1 .. n -> ps]
  BY <1>12 DEF Descending
<1> QED BY <1>3, <1>7, <1>8, <1>12, <1>13

-----------------------------------------------------------------------------
(* Most of what the HAL does to a connection sets one of its flags.        *)
SameConns ==
  /\ conns' \in Seq(Conn) /\ Len(conns') = Len(conns)
  /\ \A c \in DOMAIN conns : conns'[c].device = conns[c].device /\ conns'[c].file = conns[c].file

LEMMA Flagged ==
  ASSUME Types, NEW c, NEW e, conns' = [conns EXCEPT ![c] = e],
         c \in DOMAIN conns => e \in Conn /\ e.device = conns[c].device /\ e.file = conns[c].file
  PROVE  SameConns
<1>1. conns \in Seq(Conn)
  BY DEF Types
<1>2. CASE c \in DOMAIN conns
  <2>1. conns' \in Seq(Conn) /\ Len(conns') = Len(conns)
    BY <1>1, <1>2
  <2>2. \A i \in DOMAIN conns : conns'[i] = IF i = c THEN e ELSE conns[i]
    BY <1>1
  <2> QED BY <1>2, <2>1, <2>2 DEF SameConns
<1>3. CASE c \notin DOMAIN conns
  <2>1. conns' = conns
    BY <1>1, <1>3
  <2> QED BY <1>1, <2>1 DEF SameConns
<1> QED BY <1>2, <1>3

LEMMA Marked == \A c : Types /\ (MarkDisconnected(c) \/ UNCHANGED conns) => SameConns
<1> SUFFICES ASSUME NEW c, Types, MarkDisconnected(c) \/ UNCHANGED conns PROVE SameConns
  OBVIOUS
<1>1. conns \in Seq(Conn)
  BY DEF Types
<1>2. CASE MarkDisconnected(c)
  <2> DEFINE e == [conns[c] EXCEPT !.disconnected = TRUE]
  <2>1. conns' = [conns EXCEPT ![c] = e]
    BY <1>2 DEF MarkDisconnected
  <2>2. c \in DOMAIN conns => conns[c] \in Conn
    BY <1>1
  <2>3. c \in DOMAIN conns => e \in Conn /\ e.device = conns[c].device /\ e.file = conns[c].file
    BY <2>2 DEF Conn
  <2> HIDE DEF e
  <2> QED BY <2>1, <2>3, Flagged
<1> QED BY <1>1, <1>2 DEF SameConns

LEMMA PlaceSame ==
  ASSUME Place, UNCHANGED <<slots, freeList, count>>,
         \A w \in Workers, p \in Ports : Fills(w, p)' <=> Fills(w, p)
  PROVE  Place'
<1>1. \A p \in Ports : Within(p, freeList)' <=> Within(p, freeList)
  BY DEF Within
<1> QED BY <1>1 DEF Place

LEMMA OwnedSame ==
  ASSUME Types, Carried, Owned, SameConns, UNCHANGED <<slots, files>>,
         \A w \in Workers : /\ worker'[w].at = "store" <=> worker[w].at = "store"
                            /\ worker[w].at = "store" => worker'[w].conn = worker[w].conn
  PROVE  Owned'
<1>1. \A p \in Ports : slots[p] # 0 => slots[p] \in DOMAIN conns
  BY DEF Types
<1>2. \A w \in Workers : worker[w].at = "store" => worker[w].conn \in DOMAIN conns
  BY DEF Carried
<1>3. \A p \in Ports : slots[p] # 0 => conns'[slots[p]].file = conns[slots[p]].file /\ conns'[slots[p]].device = conns[slots[p]].device
  BY <1>1 DEF SameConns
<1>4. \A w \in Workers : worker[w].at = "store" =>
        conns'[worker[w].conn].file = conns[worker[w].conn].file /\ conns'[worker[w].conn].device = conns[worker[w].conn].device
  BY <1>2 DEF SameConns
<1>5. \A p \in Ports, f \in Files : Has(p, f)' <=> Has(p, f)
  BY <1>3 DEF Has
<1>6. \A w \in Workers, f \in Files : Stores(w, f)' <=> Stores(w, f)
  BY <1>4 DEF Stores
<1>7. \A p \in Ports : slots'[p] # 0 => files'[conns'[slots'[p]].file] = conns'[slots'[p]].device
  BY <1>3 DEF Owned
<1>8. \A w \in Workers : worker'[w].at = "store" => files'[conns'[worker'[w].conn].file] = conns'[worker'[w].conn].device
  BY <1>4 DEF Owned
<1> QED BY <1>5, <1>6, <1>7, <1>8 DEF Owned

(* What a step leaves alone that neither fills nor frees a slot.           *)
Apart == /\ UNCHANGED <<slots, freeList, count, files>> /\ SameConns
         /\ uevents' \in Seq({"add", "remove"} \X Devices) /\ addCh' \in Seq(Devices)

LEMMA Quiet ==
  ASSUME Inv, Apart, UNCHANGED worker, UNCHANGED hal \/ Phases'
  PROVE  Inv'
<1>1. Types'
  BY DEF Inv, Types, Apart, SameConns
<1>2. Carried'
  BY DEF Inv, Types, Carried, Apart, SameConns
<1>3. Phases'
  BY DEF Inv, Phases
<1>4. Place'
  <2>1. \A w \in Workers, p \in Ports : Fills(w, p)' <=> Fills(w, p)
    BY DEF Fills
  <2> QED BY <2>1, PlaceSame DEF Inv, Apart
<1>5. Owned'
  BY OwnedSame DEF Inv, Apart
<1> QED BY <1>1, <1>2, <1>3, <1>4, <1>5 DEF Inv

(* A goroutine goes on, without filling a slot before or afterwards.       *)
LEMMA Aside ==
  ASSUME Inv, Apart, UNCHANGED hal, NEW w \in Workers, NEW r \in WorkerType(Len(conns)),
         worker' = [worker EXCEPT ![w] = r],
         worker[w].at \notin {"none", "open", "store", "ended"},
         r.at \notin {"none", "open", "store"},
         r.at \in {"alloc", "watch", "signal"} => r.device \in Devices,
         r.at \in {"watch", "signal", "free", "report"} => r.port \in Ports,
         r.at = "watch" => r.conn \in DOMAIN conns,
         r.at = "free" => w = "loop" /\ slots[r.port] # 0
  PROVE  Inv'
<1>1. worker'[w] = r /\ \A v \in Workers \ {w} : worker'[v] = worker[v]
  BY DEF Inv, Types
<1>2. Types'
  BY DEF Inv, Types, Apart, SameConns
<1>3. Carried'
  <2>1. DOMAIN conns' = DOMAIN conns
    BY DEF Inv, Types, Apart, SameConns
  <2>2. "scan" \in Workers /\ "loop" \in Workers
    BY DEF Workers
  <2> QED BY <1>1, <2>1, <2>2 DEF Inv, Carried, Apart
<1>4. Phases'
  <2>1. hal \notin {"new", "ready", "stopped", "closed"}
    BY DEF Inv, Phases
  <2> QED BY <2>1 DEF Phases
<1>5. Place'
  <2>1. \A v \in Workers, p \in Ports : Fills(v, p)' <=> Fills(v, p)
    BY <1>1 DEF Fills
  <2> QED BY <2>1, PlaceSame DEF Inv, Apart
<1>6. Owned'
  <2>1. \A v \in Workers : /\ worker'[v].at = "store" <=> worker[v].at = "store"
                           /\ worker[v].at = "store" => worker'[v].conn = worker[v].conn
    BY <1>1
  <2> QED BY <2>1, OwnedSame DEF Inv, Apart
<1> QED BY <1>2, <1>3, <1>4, <1>5, <1>6 DEF Inv

-----------------------------------------------------------------------------
(* The free list is a stack of slots.                                      *)

LEMMA Popped ==
  ASSUME NEW s \in Seq(Ports), s # <<>>, Once(s)
  PROVE  /\ Head(s) \in Ports /\ Tail(s) \in Seq(Ports) /\ Len(Tail(s)) = Len(s) - 1
         /\ Once(Tail(s)) /\ Within(Head(s), s)
         /\ \A p : Within(p, Tail(s)) <=> Within(p, s) /\ p # Head(s)
<1>1. Len(s) \in Nat \ {0} /\ DOMAIN s = 1 .. Len(s) /\ Head(s) = s[1]
  OBVIOUS
<1>2. Tail(s) \in Seq(Ports) /\ Len(Tail(s)) = Len(s) - 1 /\ \A i \in 1 .. Len(s) - 1 : Tail(s)[i] = s[i + 1]
  OBVIOUS
<1>3. DOMAIN Tail(s) = 1 .. Len(s) - 1
  BY <1>2
<1> DEFINE t == Tail(s)
<1> HIDE DEF t
<1>4. t \in Seq(Ports) /\ DOMAIN t = 1 .. Len(s) - 1 /\ \A i \in 1 .. Len(s) - 1 : t[i] = s[i + 1]
  BY <1>2, <1>3 DEF t
<1>5. Once(t)
  <2> SUFFICES ASSUME NEW i \in 1 .. Len(s) - 1, NEW j \in 1 .. Len(s) - 1, t[i] = t[j] PROVE i = j
    BY <1>4 DEF Once
  <2>1. i + 1 \in DOMAIN s /\ j + 1 \in DOMAIN s /\ s[i + 1] = s[j + 1]
    BY <1>1, <1>4
  <2>2. i + 1 = j + 1
    BY <2>1 DEF Once
  <2> QED BY <1>1, <2>2
<1>6. \A p : Within(p, t) => Within(p, s) /\ p # Head(s)
  BY <1>1, <1>4 DEF Once, Within
<1>7. \A p : Within(p, s) /\ p # Head(s) => Within(p, t)
  <2> SUFFICES ASSUME NEW p, NEW i \in DOMAIN s, s[i] = p, p # Head(s) PROVE Within(p, t)
    BY DEF Within
  <2>1. i - 1 \in 1 .. Len(s) - 1 /\ t[i - 1] = p
    BY <1>1, <1>4
  <2> QED BY <1>4, <2>1 DEF Within
<1>8. Head(s) \in Ports /\ Within(Head(s), s)
  BY <1>1 DEF Within
<1> QED BY <1>2, <1>5, <1>6, <1>7, <1>8 DEF t

LEMMA Joined ==
  ASSUME NEW a \in Seq(Ports), NEW s \in Seq(Ports), Once(a), Once(s), \A p : ~(Within(p, a) /\ Within(p, s))
  PROVE  /\ a \o s \in Seq(Ports) /\ Len(a \o s) = Len(a) + Len(s)
         /\ Once(a \o s)
         /\ \A p : Within(p, a \o s) <=> Within(p, a) \/ Within(p, s)
<1> DEFINE t == a \o s
<1>1. /\ t \in Seq(Ports) /\ Len(t) = Len(a) + Len(s)
      /\ Len(a) \in Nat /\ Len(s) \in Nat
      /\ \A i \in 1 .. Len(t) : t[i] = IF i <= Len(a) THEN a[i] ELSE s[i - Len(a)]
  OBVIOUS
<1>2. DOMAIN t = 1 .. Len(t) /\ DOMAIN a = 1 .. Len(a) /\ DOMAIN s = 1 .. Len(s)
  OBVIOUS
<1> HIDE DEF t
<1>3. \A i \in 1 .. Len(t) : \/ i \in DOMAIN a /\ t[i] = a[i]
                             \/ i \notin DOMAIN a /\ i - Len(a) \in DOMAIN s /\ t[i] = s[i - Len(a)]
  BY <1>1, <1>2
<1>4. \A p : Within(p, t) => Within(p, a) \/ Within(p, s)
  BY <1>2, <1>3 DEF Within
<1>5. \A p : Within(p, a) => Within(p, t)
  BY <1>1, <1>2 DEF Within
<1>6. \A p : Within(p, s) => Within(p, t)
  <2> SUFFICES ASSUME NEW p, NEW i \in DOMAIN s, s[i] = p PROVE Within(p, t)
    BY DEF Within
  <2>1. i + Len(a) \in 1 .. Len(t) /\ t[i + Len(a)] = p
    BY <1>1, <1>2
  <2> QED BY <1>2, <2>1 DEF Within
<1>7. Once(t)
  <2> SUFFICES ASSUME NEW i \in 1 .. Len(t), NEW j \in 1 .. Len(t), t[i] = t[j] PROVE i = j
    BY <1>2 DEF Once
  <2>1. CASE i \in DOMAIN a /\ j \in DOMAIN a
    BY <1>3, <2>1 DEF Once
  <2>2. CASE i \notin DOMAIN a /\ j \notin DOMAIN a
    <3>1. i - Len(a) = j - Len(a)
      BY <1>3, <2>2 DEF Once
    <3> QED BY <1>1, <3>1
  <2>3. CASE i \in DOMAIN a /\ j \notin DOMAIN a
    BY <1>3, <2>3 DEF Within
  <2>4. CASE i \notin DOMAIN a /\ j \in DOMAIN a
    BY <1>3, <2>4 DEF Within
  <2> QED BY <2>1, <2>2, <2>3, <2>4
<1> QED BY <1>1, <1>4, <1>5, <1>6, <1>7 DEF t

LEMMA Pushed ==
  ASSUME NEW p \in Ports, NEW s \in Seq(Ports), Once(s), ~Within(p, s)
  PROVE  /\ <<p>> \o s \in Seq(Ports) /\ Len(<<p>> \o s) = Len(s) + 1
         /\ Once(<<p>> \o s)
         /\ \A q : Within(q, <<p>> \o s) <=> q = p \/ Within(q, s)
<1> DEFINE a == <<p>>
<1>1. a \in Seq(Ports) /\ Len(<<p>> \o s) = Len(s) + 1
  OBVIOUS
<1>2. Once(a)
  BY DEF Once
<1>3. \A q : Within(q, a) <=> q = p
  BY DEF Within
<1> HIDE DEF a
<1>4. \A q : ~(Within(q, a) /\ Within(q, s))
  BY <1>3
<1>5. /\ a \o s \in Seq(Ports) /\ Once(a \o s)
      /\ \A q : Within(q, a \o s) <=> Within(q, a) \/ Within(q, s)
  BY <1>1, <1>2, <1>4, Joined
<1>6. \A q : Within(q, a \o s) <=> q = p \/ Within(q, s)
  BY <1>3, <1>5
<1> QED BY <1>1, <1>5, <1>6 DEF a

-----------------------------------------------------------------------------
(* A goroutine at another stage, with what it has in hand.                 *)
LEMMA Moved ==
  ASSUME Types, NEW w \in Workers, NEW stage \in Stages, At(w, stage)
  PROVE  /\ worker'[w] \in WorkerType(Len(conns))
         /\ worker' = [worker EXCEPT ![w] = worker'[w]]
         /\ \A v \in Workers \ {w} : worker'[v] = worker[v]
         /\ worker'[w].at = stage
         /\ stage \notin {"next", "ended"} => /\ worker'[w].device = worker[w].device
                                              /\ worker'[w].port = worker[w].port
                                              /\ worker'[w].conn = worker[w].conn
<1> DEFINE r == IF stage \in {"next", "ended"} THEN AtRest(stage) ELSE [worker[w] EXCEPT !.at = stage]
<1>1. worker' = [worker EXCEPT ![w] = r]
  BY DEF At
<1>2. worker[w] \in WorkerType(Len(conns)) /\ Len(conns) \in Nat
  BY DEF Types
<1>3. /\ r \in WorkerType(Len(conns)) /\ r.at = stage
      /\ stage \notin {"next", "ended"} => r.device = worker[w].device /\ r.port = worker[w].port /\ r.conn = worker[w].conn
  BY <1>2 DEF WorkerType, AtRest
<1> HIDE DEF r
<1>4. worker'[w] = r /\ \A v \in Workers \ {w} : worker'[v] = worker[v]
  BY <1>1 DEF Types
<1> QED BY <1>1, <1>3, <1>4

-----------------------------------------------------------------------------
(* Goroutines only go on while the HAL runs or is being stopped.           *)
LEMMA Busy ==
  ASSUME Inv, NEW w \in Workers, worker[w].at \notin {"none", "ended"}
  PROVE  hal \notin {"new", "ready", "stopped", "closed"}
  BY DEF Inv, Phases

LEMMA allocInv == \A w \in Workers : Inv /\ alloc(w) => Inv'
<1> SUFFICES ASSUME NEW w \in Workers, Inv, alloc(w) PROVE Inv'
  OBVIOUS
<1>1. /\ worker[w].at = "alloc" /\ worker[w].device \in Devices
      /\ UNCHANGED <<hal, slots, conns, files, uevents, addCh>>
  BY DEF alloc, AddStep, Inv, Carried, kernelVars, queueVars, lifeVars, poolVars
<1>2. SameConns
  BY <1>1, Marked DEF Inv
<1>3. CASE freeList = <<>>
  <2>1. At(w, "next") /\ UNCHANGED <<freeList, count>>
    BY <1>3 DEF alloc, poolVars
  <2>2. Apart
    BY <1>1, <1>2, <2>1 DEF Apart, Inv, Types
  <2>3. worker'[w] \in WorkerType(Len(conns)) /\ worker' = [worker EXCEPT ![w] = worker'[w]] /\ worker'[w].at = "next"
    BY <2>1, Moved DEF Inv, Stages
  <2> QED BY <1>1, <2>2, <2>3, Aside
<1>4. CASE freeList # <<>>
  <2> DEFINE p == Head(freeList)
             r == [worker[w] EXCEPT !.at = "open", !.port = p]
  <2>1. worker' = [worker EXCEPT ![w] = r] /\ freeList' = Tail(freeList) /\ count' = count + 1
    BY <1>4 DEF alloc
  <2>2. /\ p \in Ports /\ freeList' \in Seq(Ports) /\ Len(freeList') = Len(freeList) - 1
        /\ Once(freeList') /\ Within(p, freeList)
        /\ \A q : Within(q, freeList') <=> Within(q, freeList) /\ q # p
    BY <1>4, <2>1, Popped DEF Inv, Types, Place
  <2> HIDE DEF p
  <2>3. worker[w] \in WorkerType(Len(conns))
    BY DEF Inv, Types
  <2>4. /\ r \in WorkerType(Len(conns)) /\ r.at = "open" /\ r.port = p /\ r.device = worker[w].device
    BY <2>2, <2>3 DEF WorkerType, Stages
  <2> HIDE DEF r
  <2>5. worker'[w] = r /\ \A v \in Workers \ {w} : worker'[v] = worker[v]
    BY <2>1 DEF Inv, Types
  <2>6. Types'
    BY <1>1, <2>1, <2>2, <2>4 DEF Inv, Types
  <2>7. Carried'
    <3>1. "scan" \in Workers /\ "loop" \in Workers
      BY DEF Workers
    <3> QED BY <1>1, <2>2, <2>4, <2>5, <3>1 DEF Inv, Carried
  <2>8. Phases'
    BY <1>1, Busy DEF Phases
  <2>9. Place'
    <3>1. \A q \in Ports : Fills(w, q)' <=> q = p
      BY <2>4, <2>5 DEF Fills
    <3>2. \A q \in Ports, v \in Workers \ {w} : Fills(v, q)' <=> Fills(v, q)
      BY <2>5 DEF Fills
    <3>3. \A q \in Ports : ~Fills(w, q)
      BY <1>1 DEF Fills
    <3>4. count' = MaxDevices - Len(freeList')
      BY <2>1, <2>2, LinuxHalAssumption DEF Inv, Place, Types
    <3>5. \A q \in Ports : Within(q, freeList)' <=> Within(q, freeList) /\ q # p
      BY <2>2 DEF Within
    <3>6. Once(freeList)'
      BY <2>2 DEF Once
    <3> QED BY <1>1, <2>2, <3>1, <3>2, <3>3, <3>4, <3>5, <3>6 DEF Inv, Place
  <2>10. Owned'
    <3>1. \A v \in Workers : /\ worker'[v].at = "store" <=> worker[v].at = "store"
                             /\ worker[v].at = "store" => worker'[v].conn = worker[v].conn
      BY <1>1, <2>4, <2>5
    <3> QED BY <1>1, <1>2, <3>1, OwnedSame DEF Inv
  <2> QED BY <2>6, <2>7, <2>8, <2>9, <2>10 DEF Inv
<1> QED BY <1>3, <1>4

LEMMA OpenFailsInv == \A w \in Workers : Inv /\ OpenFails(w) => Inv'
<1> SUFFICES ASSUME NEW w \in Workers, Inv, OpenFails(w) PROVE Inv'
  OBVIOUS
<1> DEFINE p == worker[w].port
<1>1. /\ worker[w].at = "open" /\ p \in Ports /\ Fills(w, p)
      /\ UNCHANGED <<hal, slots, conns, files, uevents, addCh>>
      /\ freeList' = <<p>> \o freeList /\ count' = count - 1
  BY DEF OpenFails, AddStep, Inv, Carried, Fills, kernelVars, queueVars, lifeVars
<1>2. SameConns
  BY <1>1, Marked DEF Inv
<1>3. ~Within(p, freeList) /\ slots[p] = 0
  BY <1>1 DEF Inv, Place
<1>4. /\ freeList' \in Seq(Ports) /\ Len(freeList') = Len(freeList) + 1 /\ Once(freeList')
      /\ \A q : Within(q, freeList') <=> q = p \/ Within(q, freeList)
  BY <1>1, <1>3, Pushed DEF Inv, Types, Place
<1>5. /\ worker'[w] \in WorkerType(Len(conns)) /\ worker'[w].at = "next"
      /\ worker' = [worker EXCEPT ![w] = worker'[w]]
      /\ \A v \in Workers \ {w} : worker'[v] = worker[v]
  BY Moved DEF OpenFails, Inv, Stages
<1>6. Types'
  BY <1>1, <1>4, <1>5 DEF Inv, Types
<1>7. Carried'
  <2>1. "scan" \in Workers /\ "loop" \in Workers
    BY DEF Workers
  <2> QED BY <1>1, <1>5, <2>1 DEF Inv, Carried
<1>8. Phases'
  BY <1>1, Busy DEF Phases
<1>9. Place'
  <2>1. \A q \in Ports : ~Fills(w, q)' /\ (Fills(w, q) <=> q = p)
    BY <1>1, <1>5 DEF Fills
  <2>2. \A q \in Ports, v \in Workers \ {w} : Fills(v, q)' <=> Fills(v, q)
    BY <1>5 DEF Fills
  <2>3. count' = MaxDevices - Len(freeList')
    BY <1>1, <1>4, LinuxHalAssumption DEF Inv, Place, Types
  <2>4. \A q \in Ports : Within(q, freeList)' <=> q = p \/ Within(q, freeList)
    BY <1>4 DEF Within
  <2>5. Once(freeList)'
    BY <1>4 DEF Once
  <2>6. /\ \A q \in Ports : Within(q, freeList) \/ slots'[q] # 0 \/ \E v \in Workers : Fills(v, q)
        /\ \A q \in Ports : Within(q, freeList) => slots'[q] = 0 /\ \A v \in Workers : ~Fills(v, q)
        /\ \A q \in Ports, v \in Workers : Fills(v, q) => slots'[q] = 0
        /\ \A q \in Ports, u, v \in Workers : Fills(u, q) /\ Fills(v, q) => u = v
    BY <1>1 DEF Inv, Place
  <2>7. Fills(w, p) /\ slots'[p] = 0 /\ ~Within(p, freeList) /\ p \in Ports
    BY <1>1, <1>3
  <2> HIDE DEF p
  <2>8. /\ \A q \in Ports, v \in Workers : q # p => (Fills(v, q)' <=> Fills(v, q))
        /\ \A q \in Ports, v \in Workers : q = p => ~Fills(v, q)'
    BY <2>1, <2>2, <2>6, <2>7
  <2>9. \A q \in Ports : Within(q, freeList)' \/ slots'[q] # 0 \/ \E v \in Workers : Fills(v, q)'
    BY <2>4, <2>6, <2>8
  <2>10. \A q \in Ports : Within(q, freeList)' => slots'[q] = 0 /\ \A v \in Workers : ~Fills(v, q)'
    BY <2>4, <2>6, <2>7, <2>8
  <2>11. \A q \in Ports, u, v \in Workers : Fills(v, q)' => slots'[q] = 0 /\ (Fills(u, q)' => u = v)
    BY <2>6, <2>8
  <2> QED BY <2>3, <2>5, <2>9, <2>10, <2>11 DEF Place
<1>10. Owned'
  <2>1. \A v \in Workers : /\ worker'[v].at = "store" <=> worker[v].at = "store"
                           /\ worker[v].at = "store" => worker'[v].conn = worker[v].conn
    BY <1>1, <1>5
  <2> QED BY <1>1, <1>2, <2>1, OwnedSame DEF Inv
<1> QED BY <1>6, <1>7, <1>8, <1>9, <1>10 DEF Inv

(* A descriptor that is given out is nobody's.                             *)
LEMMA newDeviceConnInv == \A w \in Workers : Inv /\ newDeviceConn(w) => Inv'
<1> SUFFICES ASSUME NEW w \in Workers, Inv, newDeviceConn(w) PROVE Inv'
  OBVIOUS
<1> DEFINE d == worker[w].device
           g == Lowest(ClosedFiles)
           e == [device |-> d, file |-> g, disconnected |-> FALSE]
           c == Len(conns) + 1
           r == [worker[w] EXCEPT !.at = "store", !.conn = c]
<1>1. /\ worker[w].at = "open" /\ d \in Devices /\ worker[w].port \in Ports
      /\ UNCHANGED <<hal, slots, freeList, count, uevents, addCh>>
  BY DEF newDeviceConn, AddStep, Inv, Carried, kernelVars, queueVars, lifeVars, poolVars
<1>2. g \in Files /\ files[g] = Nobody
  <2>1. ClosedFiles # {} /\ ClosedFiles \in SUBSET Nat
    BY LinuxHalAssumption DEF newDeviceConn, ClosedFiles, Files
  <2>2. g \in ClosedFiles
    BY <2>1, LowestIsOne
  <2> QED BY <2>2 DEF ClosedFiles
<1>3. files' = [files EXCEPT ![g] = d] /\ conns' = Append(conns, e)
  BY DEF newDeviceConn
<1> HIDE DEF g
<1>4. conns \in Seq(Conn) /\ Len(conns) \in Nat /\ DOMAIN conns = 1 .. Len(conns)
  BY DEF Inv, Types
<1>5. e \in Conn
  BY <1>1, <1>2 DEF Conn
<1>6. /\ conns' \in Seq(Conn) /\ Len(conns') = c /\ DOMAIN conns' = 1 .. c /\ conns'[c] = e
      /\ \A i \in DOMAIN conns : conns'[i] = conns[i]
  <2> HIDE DEF e
  <2> QED BY <1>3, <1>4, <1>5
<1>7. worker' = [worker EXCEPT ![w] = r]
  BY <1>6 DEF newDeviceConn
<1>8. /\ r \in WorkerType(c) /\ r.at = "store" /\ r.device = d /\ r.port = worker[w].port /\ r.conn = c
  <2>1. worker[w] \in WorkerType(Len(conns))
    BY DEF Inv, Types
  <2> DEFINE s == [worker[w] EXCEPT !.at = "store"]
  <2>2. s \in WorkerType(Len(conns)) /\ s.at = "store" /\ s.device = d /\ s.port = worker[w].port
    BY <2>1 DEF WorkerType, Stages
  <2>3. c \in 0 .. c /\ 0 .. Len(conns) \subseteq 0 .. c
    BY <1>4
  <2>4. r = [s EXCEPT !.conn = c]
    OBVIOUS
  <2> HIDE DEF c, s, r
  <2>5. s \in WorkerType(c)
    BY <2>2, <2>3 DEF WorkerType
  <2> QED BY <2>2, <2>3, <2>4, <2>5 DEF WorkerType
<1> HIDE DEF r
<1>9. worker'[w] = r /\ \A v \in Workers \ {w} : worker'[v] = worker[v]
  BY <1>7 DEF Inv, Types
<1>10. Types'
  <2>1. files' \in [Files -> Devices \union {Nobody}]
    BY <1>1, <1>3 DEF Inv, Types
  <2>2. slots' \in [Ports -> 0 .. Len(conns')]
    BY <1>1, <1>4, <1>6 DEF Inv, Types
  <2>3. worker' \in [Workers -> WorkerType(Len(conns'))]
    <3>1. \A v \in Workers : worker[v] \in WorkerType(Len(conns'))
      BY <1>4, <1>6 DEF Inv, Types, WorkerType
    <3> QED BY <1>6, <1>7, <1>8, <3>1 DEF Inv, Types
  <2> QED BY <1>1, <1>6, <2>1, <2>2, <2>3 DEF Inv, Types
<1>11. Carried'
  <2>1. "scan" \in Workers /\ "loop" \in Workers
    BY DEF Workers
  <2>2. \A i \in DOMAIN conns : i \in DOMAIN conns'
    BY <1>4, <1>6
  <2>3. c \in DOMAIN conns'
    BY <1>4, <1>6
  <2> QED BY <1>1, <1>8, <1>9, <2>1, <2>2, <2>3 DEF Inv, Carried
<1>12. Phases'
  BY <1>1, Busy DEF Phases
<1>13. Place'
  <2>1. \A v \in Workers, q \in Ports : Fills(v, q)' <=> Fills(v, q)
    BY <1>1, <1>8, <1>9 DEF Fills
  <2> QED BY <1>1, <2>1, PlaceSame DEF Inv
<1>14. Owned'
  <2>1. \A p \in Ports : slots[p] # 0 => slots[p] \in DOMAIN conns
    BY <1>4 DEF Inv, Types
  <2>2. \A v \in Workers : worker[v].at = "store" => worker[v].conn \in DOMAIN conns
    BY DEF Inv, Carried
  <2>3. \A i \in DOMAIN conns : conns[i].device # Nobody /\ conns[i].file \in Files
    <3>1. \A i \in DOMAIN conns : conns[i] \in Conn
      BY <1>4
    <3> QED BY <3>1, LinuxHalAssumption DEF Conn
  <2>4. \A p \in Ports, f \in Files : Has(p, f)' <=> Has(p, f)
    BY <1>1, <1>6, <2>1 DEF Has
  <2>5. \A p \in Ports : ~Has(p, g)
    BY <1>2, <2>1, <2>3 DEF Has, Inv, Owned
  <2>6. \A v \in Workers : ~Stores(v, g)
    BY <1>2, <2>2, <2>3 DEF Stores, Inv, Owned
  <2>7. \A f \in Files : Stores(w, f)' <=> f = g
    BY <1>6, <1>8, <1>9 DEF Stores
  <2>8. \A v \in Workers \ {w}, f \in Files : Stores(v, f)' <=> Stores(v, f)
    BY <1>6, <1>9, <2>2 DEF Stores
  <2>9. \A f \in Files : files'[f] = IF f = g THEN d ELSE files[f]
    BY <1>3 DEF Inv, Types
  <2>10. \A p \in Ports : slots'[p] # 0 => files'[conns'[slots'[p]].file] = conns'[slots'[p]].device
    <3> SUFFICES ASSUME NEW p \in Ports, slots[p] # 0 PROVE files'[conns'[slots[p]].file] = conns'[slots[p]].device
      BY <1>1
    <3>1. conns'[slots[p]] = conns[slots[p]] /\ conns[slots[p]].file \in Files
      BY <1>6, <2>1, <2>3
    <3>2. conns[slots[p]].file # g
      BY <2>5 DEF Has
    <3> QED BY <2>9, <3>1, <3>2 DEF Inv, Owned
  <2>11. \A v \in Workers : worker'[v].at = "store" => files'[conns'[worker'[v].conn].file] = conns'[worker'[v].conn].device
    <3> SUFFICES ASSUME NEW v \in Workers, worker'[v].at = "store"
                 PROVE  files'[conns'[worker'[v].conn].file] = conns'[worker'[v].conn].device
      OBVIOUS
    <3>1. CASE v = w
      BY <1>2, <1>6, <1>8, <1>9, <2>9, <3>1
    <3>2. CASE v # w
      <4>1. worker'[v] = worker[v] /\ conns'[worker[v].conn] = conns[worker[v].conn] /\ conns[worker[v].conn].file \in Files
        BY <1>6, <1>9, <2>2, <2>3, <3>2
      <4>2. conns[worker[v].conn].file # g
        BY <2>6, <4>1 DEF Stores
      <4> QED BY <2>9, <4>1, <4>2 DEF Inv, Owned
    <3> QED BY <3>1, <3>2
  <2>12. \A f \in Files : files'[f] # Nobody => (\E p \in Ports : Has(p, f)') \/ \E v \in Workers : Stores(v, f)'
    <3>1. \A f \in Files, v \in Workers : Stores(v, f) => v # w
      BY <1>1 DEF Stores
    <3> QED BY <2>4, <2>7, <2>8, <2>9, <3>1 DEF Inv, Owned
  <2>13. \A f \in Files, p, q \in Ports : Has(p, f)' /\ Has(q, f)' => p = q
    BY <2>4 DEF Inv, Owned
  <2>14. \A f \in Files, p \in Ports, v \in Workers : ~(Has(p, f)' /\ Stores(v, f)')
    BY <2>4, <2>5, <2>7, <2>8 DEF Inv, Owned
  <2>15. \A f \in Files, u, v \in Workers : Stores(u, f)' /\ Stores(v, f)' => u = v
    BY <2>6, <2>7, <2>8 DEF Inv, Owned
  <2> QED BY <2>10, <2>11, <2>12, <2>13, <2>14, <2>15 DEF Owned
<1> QED BY <1>10, <1>11, <1>12, <1>13, <1>14 DEF Inv

LEMMA StoreInv == \A w \in Workers : Inv /\ Store(w) => Inv'
<1> SUFFICES ASSUME NEW w \in Workers, Inv, Store(w) PROVE Inv'
  OBVIOUS
<1> DEFINE p == worker[w].port
           c == worker[w].conn
<1>1. /\ worker[w].at = "store" /\ p \in Ports /\ c \in DOMAIN conns /\ Fills(w, p)
      /\ UNCHANGED <<hal, freeList, count, conns, files, uevents, addCh>>
      /\ slots' = [slots EXCEPT ![p] = c]
  BY DEF Store, AddStep, Inv, Carried, Fills, kernelVars, queueVars, lifeVars
<1>2. /\ worker'[w] \in WorkerType(Len(conns)) /\ worker'[w].at = "watch"
      /\ worker'[w].device = worker[w].device /\ worker'[w].port = p /\ worker'[w].conn = c
      /\ worker' = [worker EXCEPT ![w] = worker'[w]]
      /\ \A v \in Workers \ {w} : worker'[v] = worker[v]
  BY Moved DEF Store, Inv, Stages
<1>3. conns \in Seq(Conn) /\ Len(conns) \in Nat /\ DOMAIN conns = 1 .. Len(conns)
  BY DEF Inv, Types
<1>4. c # 0 /\ \A q \in Ports : slots'[q] = IF q = p THEN c ELSE slots[q]
  BY <1>1, <1>3 DEF Inv, Types
<1>5. Types'
  <2>1. slots' \in [Ports -> 0 .. Len(conns)]
    BY <1>1, <1>3 DEF Inv, Types
  <2>2. worker' \in [Workers -> WorkerType(Len(conns))]
    BY <1>2 DEF Inv, Types
  <2> QED BY <1>1, <2>1, <2>2 DEF Inv, Types
<1>6. Carried'
  <2>1. "scan" \in Workers /\ "loop" \in Workers
    BY DEF Workers
  <2> QED BY <1>1, <1>2, <1>4, <2>1 DEF Inv, Carried
<1>7. Phases'
  BY <1>1, Busy DEF Phases
<1>8. slots[p] = 0 /\ ~Within(p, freeList) /\ \A v \in Workers \ {w} : ~Fills(v, p)
  BY <1>1 DEF Inv, Place
<1>9. Place'
  <2>1. \A q \in Ports : ~Fills(w, q)' /\ (Fills(w, q) <=> q = p)
    BY <1>1, <1>2 DEF Fills
  <2>2. \A q \in Ports, v \in Workers \ {w} : Fills(v, q)' <=> Fills(v, q)
    BY <1>2 DEF Fills
  <2>3. \A q \in Ports : Within(q, freeList)' <=> Within(q, freeList)
    BY <1>1 DEF Within
  <2> QED BY <1>1, <1>4, <1>8, <2>1, <2>2, <2>3 DEF Inv, Place
<1>10. Owned'
  <2>1. \A q \in Ports, f \in Files : Has(q, f)' <=> Has(q, f) \/ (q = p /\ Stores(w, f))
    BY <1>1, <1>4, <1>8 DEF Has, Stores
  <2>2. \A f \in Files : ~Stores(w, f)'
    BY <1>2 DEF Stores
  <2>3. \A v \in Workers \ {w}, f \in Files : Stores(v, f)' <=> Stores(v, f)
    BY <1>1, <1>2 DEF Stores
  <2>4. \A q \in Ports : slots'[q] # 0 => files'[conns'[slots'[q]].file] = conns'[slots'[q]].device
    BY <1>1, <1>4 DEF Inv, Owned
  <2>5. \A v \in Workers : worker'[v].at = "store" => files'[conns'[worker'[v].conn].file] = conns'[worker'[v].conn].device
    BY <1>1, <1>2 DEF Inv, Owned
  <2>6. \A f \in Files : files'[f] # Nobody => (\E q \in Ports : Has(q, f)') \/ \E v \in Workers : Stores(v, f)'
    BY <1>1, <2>1, <2>3 DEF Inv, Owned
  <2>7. \A f \in Files, q, t \in Ports : Has(q, f)' /\ Has(t, f)' => q = t
    BY <2>1 DEF Inv, Owned
  <2>8. \A f \in Files, q \in Ports, v \in Workers : ~(Has(q, f)' /\ Stores(v, f)')
    BY <2>1, <2>2, <2>3 DEF Inv, Owned
  <2>9. \A f \in Files, u, v \in Workers : Stores(u, f)' /\ Stores(v, f)' => u = v
    BY <2>2, <2>3 DEF Inv, Owned
  <2> QED BY <2>4, <2>5, <2>6, <2>7, <2>8, <2>9 DEF Owned
<1> QED BY <1>5, <1>6, <1>7, <1>9, <1>10 DEF Inv

-----------------------------------------------------------------------------
(* The rest of what the goroutines do fills no slot.                       *)
LEMMA OfferTyped == ASSUME NEW T, NEW ch \in Seq(T), NEW x \in T PROVE Offer(ch, x) \in Seq(T)
  BY DEF Offer

LEMMA WatchInv == \A w \in Workers : Inv /\ (Watch(w) \/ SignalConnect(w)) => Inv'
<1> SUFFICES ASSUME NEW w \in Workers, Inv, Watch(w) \/ SignalConnect(w) PROVE Inv'
  OBVIOUS
<1>1. /\ worker[w].at \in {"watch", "signal"} /\ UNCHANGED <<hal, slots, freeList, count, conns, files, uevents, addCh>>
      /\ worker[w].device \in Devices /\ worker[w].port \in Ports
  BY DEF Watch, SignalConnect, AddStep, Inv, Carried, kernelVars, queueVars, lifeVars, poolVars
<1>2. Apart
  BY <1>1, Marked DEF Apart, Inv, Types
<1>3. /\ worker'[w] \in WorkerType(Len(conns)) /\ worker' = [worker EXCEPT ![w] = worker'[w]]
      /\ \/ worker'[w].at = "signal" /\ worker'[w].device = worker[w].device /\ worker'[w].port = worker[w].port
         \/ worker'[w].at = "next"
  <2>1. CASE Watch(w)
    BY <2>1, Moved DEF Watch, Inv, Stages
  <2>2. CASE SignalConnect(w)
    BY <2>2, Moved DEF SignalConnect, Inv, Stages
  <2> QED BY <2>1, <2>2
<1> QED BY <1>1, <1>2, <1>3, Aside

LEMMA EndsInv == Inv /\ (scanUSBDevices \/ ScanFails \/ ScanEnds \/ LoopEnds \/ SignalDisconnect) => Inv'
<1> SUFFICES ASSUME Inv, scanUSBDevices \/ ScanFails \/ ScanEnds \/ LoopEnds \/ SignalDisconnect PROVE Inv'
  OBVIOUS
<1>1. UNCHANGED <<hal, slots, freeList, count, conns, files, uevents, addCh>>
  BY DEF scanUSBDevices, ScanFails, ScanEnds, LoopEnds, SignalDisconnect, kernelVars, queueVars, lifeVars, poolVars
<1>2. Apart
  BY <1>1, Marked DEF Apart, Inv, Types
<1>3. PICK w \in Workers : /\ worker[w].at \in {"start", "next", "report"}
                           /\ At(w, "next") \/ At(w, "ended")
  BY DEF scanUSBDevices, ScanFails, ScanEnds, LoopEnds, SignalDisconnect, Workers
<1>4. /\ worker'[w] \in WorkerType(Len(conns)) /\ worker' = [worker EXCEPT ![w] = worker'[w]]
      /\ worker'[w].at \in {"next", "ended"}
  BY <1>3, Moved DEF Inv, Stages
<1> QED BY <1>1, <1>2, <1>3, <1>4, Aside

LEMMA AddingInv ==
  ASSUME Inv, NEW w \in Workers, worker[w].at = "next", NEW d \in Devices, Adding(w, d), Apart, UNCHANGED hal
  PROVE  Inv'
<1>1. CASE Tracked(d)
  <2>1. UNCHANGED worker
    BY <1>1 DEF Adding
  <2> QED BY <2>1, Quiet
<1>2. CASE ~Tracked(d)
  <2> DEFINE r == [worker[w] EXCEPT !.at = "alloc", !.device = d]
  <2>1. worker' = [worker EXCEPT ![w] = r]
    BY <1>2 DEF Adding
  <2>2. worker[w] \in WorkerType(Len(conns))
    BY DEF Inv, Types
  <2>3. r \in WorkerType(Len(conns)) /\ r.at = "alloc" /\ r.device = d
    BY <2>2 DEF WorkerType, Stages
  <2> HIDE DEF r
  <2> QED BY <2>1, <2>3, Aside
<1> QED BY <1>1, <1>2

LEMMA AddsInv == Inv /\ (LoopAdds \/ \E d \in Devices : ScanNext(d)) => Inv'
<1> SUFFICES ASSUME Inv, LoopAdds \/ \E d \in Devices : ScanNext(d) PROVE Inv'
  OBVIOUS
<1>1. CASE LoopAdds
  <2>1. /\ worker["loop"].at = "next" /\ addCh' = Tail(addCh) /\ Adding("loop", Head(addCh)) /\ "loop" \in Workers
        /\ UNCHANGED <<hal, slots, freeList, count, conns, files, uevents>>
    BY <1>1 DEF LoopAdds, Workers, kernelVars, lifeVars, poolVars
  <2>2. Head(addCh) \in Devices /\ addCh' \in Seq(Devices)
    BY <1>1 DEF LoopAdds, Inv, Types
  <2>3. Apart
    BY <2>1, <2>2, Marked DEF Apart, Inv, Types
  <2> QED BY <2>1, <2>2, <2>3, AddingInv
<1>2. CASE \E d \in Devices : ScanNext(d)
  <2>1. PICK d \in Devices : ScanNext(d)
    BY <1>2
  <2>2. /\ worker["scan"].at = "next" /\ Adding("scan", d) /\ "scan" \in Workers
        /\ UNCHANGED <<hal, slots, freeList, count, conns, files, uevents, addCh>>
    BY <2>1 DEF ScanNext, Workers, kernelVars, queueVars, lifeVars, poolVars
  <2>3. Apart
    BY <2>2, Marked DEF Apart, Inv, Types
  <2> QED BY <2>2, <2>3, AddingInv
<1> QED BY <1>1, <1>2

LEMMA LoopRemovesInv == Inv /\ LoopRemoves => Inv'
<1> SUFFICES ASSUME Inv, LoopRemoves PROVE Inv'
  OBVIOUS
<1>1. /\ worker["loop"].at = "next" /\ "loop" \in Workers
      /\ UNCHANGED <<hal, slots, freeList, count, files, uevents, addCh>>
  BY DEF LoopRemoves, Workers, kernelVars, lifeVars, poolVars
<1> DEFINE d == Head(removeCh)
           p == Lowest(PortsOf(d))
<1>2. CASE Tracked(d)
  <2> DEFINE r == [worker["loop"] EXCEPT !.at = "free", !.port = p]
  <2>1. MarkDisconnected(slots[p]) /\ worker' = [worker EXCEPT !["loop"] = r]
    BY <1>2 DEF LoopRemoves
  <2>2. p \in Ports /\ slots[p] # 0
    <3>1. PortsOf(d) # {} /\ PortsOf(d) \in SUBSET Nat
      BY <1>2, LinuxHalAssumption DEF Tracked, PortsOf, Held, Ports
    <3>2. p \in PortsOf(d)
      BY <3>1, LowestIsOne
    <3> QED BY <3>2 DEF PortsOf, Held
  <2> HIDE DEF p
  <2>3. worker["loop"] \in WorkerType(Len(conns))
    BY <1>1 DEF Inv, Types
  <2>4. r \in WorkerType(Len(conns)) /\ r.at = "free" /\ r.port = p
    BY <2>2, <2>3 DEF WorkerType, Stages
  <2> HIDE DEF r
  <2>5. Apart
    BY <1>1, <2>1, Marked DEF Apart, Inv, Types
  <2> QED BY <1>1, <2>1, <2>2, <2>4, <2>5, Aside
<1>3. CASE ~Tracked(d)
  <2>1. UNCHANGED <<conns, worker>>
    BY <1>3 DEF LoopRemoves
  <2>2. Apart
    BY <1>1, <2>1, Marked DEF Apart, Inv, Types
  <2> QED BY <1>1, <2>1, <2>2, Quiet
<1> QED BY <1>2, <1>3

-----------------------------------------------------------------------------
(* Slots are freed with their connections: their descriptors are closed,   *)
(* and nobody else's.                                                      *)
LEMMA ConnsClosed ==
  ASSUME Inv, NEW ps \in SUBSET Held, CloseConns(ps)
  PROVE  /\ SameConns
         /\ files' \in [Files -> Devices \union {Nobody}]
         /\ \A f \in Files : files'[f] = IF \E p \in ps : Has(p, f) THEN Nobody ELSE files[f]
<1>1. conns \in Seq(Conn) /\ Len(conns) \in Nat /\ DOMAIN conns = 1 .. Len(conns)
  BY DEF Inv, Types
<1> DEFINE e(c) == [conns[c] EXCEPT !.disconnected = TRUE]
<1>2. \A c \in DOMAIN conns : e(c) \in Conn /\ e(c).device = conns[c].device /\ e(c).file = conns[c].file
  <2> SUFFICES ASSUME NEW c \in DOMAIN conns
               PROVE  e(c) \in Conn /\ e(c).device = conns[c].device /\ e(c).file = conns[c].file
    OBVIOUS
  <2>1. conns[c] \in Conn
    BY <1>1
  <2> QED BY <2>1 DEF Conn
<1>3. conns' = [c \in DOMAIN conns |-> IF c \in ConnsOf(ps) THEN e(c) ELSE conns[c]]
  BY DEF CloseConns
<1> HIDE DEF e
<1>4. conns' \in [1 .. Len(conns) -> Conn]
  BY <1>1, <1>2, <1>3
<1>5. conns' \in Seq(Conn) /\ Len(conns') = Len(conns)
  BY <1>1, <1>4
<1>6. SameConns
  BY <1>1, <1>2, <1>3, <1>5 DEF SameConns
<1>7. \A f \in Files : f \in FilesOf(ps) <=> \E p \in ps : Has(p, f)
  BY DEF FilesOf, Has, Held
<1>8. files' = [f \in Files |-> IF f \in FilesOf(ps) THEN Nobody ELSE files[f]]
  BY DEF CloseConns
<1> QED BY <1>6, <1>7, <1>8 DEF Inv, Types

LEMMA freeInv == Inv /\ free => Inv'
<1> SUFFICES ASSUME Inv, free PROVE Inv'
  OBVIOUS
<1> DEFINE p == worker["loop"].port
<1>1. /\ worker["loop"].at = "free" /\ "loop" \in Workers /\ p \in Ports /\ slots[p] # 0
      /\ UNCHANGED <<hal, uevents, addCh>>
      /\ slots' = [slots EXCEPT ![p] = 0] /\ freeList' = <<p>> \o freeList /\ count' = count - 1
  BY DEF free, Inv, Carried, Workers, kernelVars, queueVars, lifeVars
<1>2. {p} \intersect Held = {p} /\ {p} \in SUBSET Held
  BY <1>1 DEF Held
<1>3. /\ SameConns
      /\ files' \in [Files -> Devices \union {Nobody}]
      /\ \A f \in Files : files'[f] = IF Has(p, f) THEN Nobody ELSE files[f]
  <2>1. CloseConns({p})
    BY <1>2 DEF free
  <2> QED BY <1>2, <2>1, ConnsClosed
<1>4. ~Within(p, freeList) /\ \A w \in Workers : ~Fills(w, p)
  BY <1>1 DEF Inv, Place
<1>5. /\ freeList' \in Seq(Ports) /\ Len(freeList') = Len(freeList) + 1 /\ Once(freeList')
      /\ \A q : Within(q, freeList') <=> q = p \/ Within(q, freeList)
  BY <1>1, <1>4, Pushed DEF Inv, Types, Place
<1>6. /\ worker'["loop"] \in WorkerType(Len(conns)) /\ worker'["loop"].at = "report" /\ worker'["loop"].port = p
      /\ worker' = [worker EXCEPT !["loop"] = worker'["loop"]]
      /\ \A v \in Workers \ {"loop"} : worker'[v] = worker[v]
  BY <1>1, Moved DEF free, Inv, Stages
<1>7. \A q \in Ports : slots'[q] = IF q = p THEN 0 ELSE slots[q]
  BY <1>1 DEF Inv, Types
<1>8. conns \in Seq(Conn) /\ Len(conns) \in Nat /\ DOMAIN conns = 1 .. Len(conns) /\ DOMAIN conns' = DOMAIN conns /\ Len(conns') = Len(conns)
  BY <1>3 DEF Inv, Types, SameConns
<1>9. Types'
  <2>1. slots' \in [Ports -> 0 .. Len(conns')]
    BY <1>1, <1>8 DEF Inv, Types
  <2>2. worker' \in [Workers -> WorkerType(Len(conns'))]
    BY <1>6, <1>8 DEF Inv, Types
  <2> QED BY <1>1, <1>3, <1>5, <2>1, <2>2 DEF Inv, Types, SameConns
<1>10. Carried'
  <2>1. "scan" \in Workers
    BY DEF Workers
  <2> QED BY <1>1, <1>6, <1>8, <2>1 DEF Inv, Carried
<1>11. Phases'
  BY <1>1, Busy DEF Phases
<1>12. Place'
  <2>1. \A w \in Workers, q \in Ports : Fills(w, q)' <=> Fills(w, q)
    BY <1>1, <1>6 DEF Fills
  <2>2. count' = MaxDevices - Len(freeList')
    BY <1>1, <1>5, LinuxHalAssumption DEF Inv, Place, Types
  <2>3. \A q \in Ports : Within(q, freeList)' <=> q = p \/ Within(q, freeList)
    BY <1>5 DEF Within
  <2>4. Once(freeList)'
    BY <1>5 DEF Once
  <2>5. \A q \in Ports : (slots'[q] # 0 <=> slots[q] # 0 /\ q # p) /\ slots'[p] = 0
    BY <1>1, <1>7
  <2>6. \A q \in Ports : Within(q, freeList)' \/ slots'[q] # 0 \/ \E w \in Workers : Fills(w, q)'
    BY <2>1, <2>3, <2>5 DEF Inv, Place
  <2>7. \A q \in Ports : Within(q, freeList)' => slots'[q] = 0 /\ \A w \in Workers : ~Fills(w, q)'
    BY <1>4, <2>1, <2>3, <2>5 DEF Inv, Place
  <2>8. \A q \in Ports, v, w \in Workers : Fills(w, q)' => slots'[q] = 0 /\ (Fills(v, q)' => v = w)
    BY <1>4, <2>1, <2>5 DEF Inv, Place
  <2> QED BY <2>2, <2>4, <2>6, <2>7, <2>8 DEF Place
<1>13. Owned'
  <2>1. \A i \in DOMAIN conns : conns'[i].file = conns[i].file /\ conns'[i].device = conns[i].device /\ conns[i].file \in Files
    <3>1. \A i \in DOMAIN conns : conns[i] \in Conn
      BY <1>8
    <3> QED BY <1>3, <3>1 DEF SameConns, Conn
  <2>2. \A q \in Ports : slots[q] # 0 => slots[q] \in DOMAIN conns
    BY <1>8 DEF Inv, Types
  <2>3. \A w \in Workers : worker[w].at = "store" => worker[w].conn \in DOMAIN conns
    BY DEF Inv, Carried
  <2>4. \A q \in Ports, f \in Files : Has(q, f)' <=> Has(q, f) /\ q # p
    BY <1>7, <2>1, <2>2 DEF Has
  <2>5. \A w \in Workers : /\ worker'[w].at = "store" <=> worker[w].at = "store"
                           /\ worker[w].at = "store" => worker'[w].conn = worker[w].conn
    BY <1>1, <1>6
  <2>6. \A w \in Workers, f \in Files : Stores(w, f)' <=> Stores(w, f)
    BY <2>1, <2>3, <2>5 DEF Stores
  <2>7. \A f \in Files : files'[f] # Nobody => (\E q \in Ports : Has(q, f)') \/ \E w \in Workers : Stores(w, f)'
    BY <1>3, <2>4, <2>6 DEF Inv, Owned
  <2>8. \A q \in Ports : slots'[q] # 0 => files'[conns'[slots'[q]].file] = conns'[slots'[q]].device
    <3> SUFFICES ASSUME NEW q \in Ports, slots'[q] # 0 PROVE files'[conns'[slots'[q]].file] = conns'[slots'[q]].device
      OBVIOUS
    <3> DEFINE f == conns[slots[q]].file
    <3>1. q # p /\ slots'[q] = slots[q] /\ slots[q] # 0
      BY <1>7
    <3>2. f \in Files /\ conns'[slots[q]].file = f /\ conns'[slots[q]].device = conns[slots[q]].device
      BY <2>1, <2>2, <3>1
    <3>3. Has(q, f)
      BY <3>1 DEF Has
    <3>4. ~Has(p, f)
      BY <1>1, <3>1, <3>2, <3>3 DEF Inv, Owned
    <3>5. files'[f] = files[f]
      BY <1>3, <3>2, <3>4
    <3> QED BY <3>1, <3>2, <3>5 DEF Inv, Owned
  <2>9. \A w \in Workers : worker'[w].at = "store" => files'[conns'[worker'[w].conn].file] = conns'[worker'[w].conn].device
    <3> SUFFICES ASSUME NEW w \in Workers, worker'[w].at = "store"
                 PROVE  files'[conns'[worker'[w].conn].file] = conns'[worker'[w].conn].device
      OBVIOUS
    <3> DEFINE f == conns[worker[w].conn].file
    <3>1. worker[w].at = "store" /\ worker'[w].conn = worker[w].conn
      BY <2>5
    <3>2. f \in Files /\ conns'[worker[w].conn].file = f /\ conns'[worker[w].conn].device = conns[worker[w].conn].device
      BY <2>1, <2>3, <3>1
    <3>3. Stores(w, f)
      BY <3>1 DEF Stores
    <3>4. ~Has(p, f)
      BY <1>1, <3>2, <3>3 DEF Inv, Owned
    <3>5. files'[f] = files[f]
      BY <1>3, <3>2, <3>4
    <3> QED BY <3>1, <3>2, <3>5 DEF Inv, Owned
  <2>10. \A f \in Files, q, t \in Ports : Has(q, f)' /\ Has(t, f)' => q = t
    BY <2>4 DEF Inv, Owned
  <2>11. \A f \in Files, q \in Ports, w \in Workers : ~(Has(q, f)' /\ Stores(w, f)')
    BY <2>4, <2>6 DEF Inv, Owned
  <2>12. \A f \in Files, v, w \in Workers : Stores(v, f)' /\ Stores(w, f)' => v = w
    BY <2>6 DEF Inv, Owned
  <2> QED BY <2>7, <2>8, <2>9, <2>10, <2>11, <2>12 DEF Owned
<1> QED BY <1>9, <1>10, <1>11, <1>12, <1>13 DEF Inv

LEMMA CloseInv == Inv /\ Close => Inv'
<1> SUFFICES ASSUME Inv, Close PROVE Inv'
  OBVIOUS
<1> DEFINE a == Descending(Held)
<1>1. /\ hal = "stopped" /\ hal' = "closed" /\ CloseConns(Held) /\ UNCHANGED <<worker, addCh>> /\ uevents' = <<>>
      /\ slots' = [p \in Ports |-> 0] /\ freeList' = a \o freeList /\ count' = count - Cardinality(Held)
  BY DEF Close, queueVars, workVars
<1>2. \A w \in Workers : worker[w].at = "ended"
  BY <1>1 DEF Inv, Phases
<1>3. /\ SameConns /\ files' \in [Files -> Devices \union {Nobody}]
      /\ \A f \in Files : files'[f] = IF \E p \in Held : Has(p, f) THEN Nobody ELSE files[f]
  BY <1>1, ConnsClosed
<1>4. /\ Cardinality(Held) \in Nat /\ a \in [1 .. Cardinality(Held) -> Held]
      /\ \A p \in Held : \E i \in 1 .. Cardinality(Held) : a[i] = p
      /\ \A i, j \in 1 .. Cardinality(Held) : a[i] = a[j] => i = j
  BY DescendingOnce DEF Held
<1> HIDE DEF a
<1>5. a \in Seq(Ports) /\ Len(a) = Cardinality(Held) /\ DOMAIN a = 1 .. Cardinality(Held)
  <2>1. Held \in SUBSET Ports
    BY DEF Held
  <2>2. a \in [1 .. Cardinality(Held) -> Ports]
    BY <1>4, <2>1
  <2> QED BY <1>4, <2>2
<1>6. Once(a) /\ \A p : Within(p, a) <=> p \in Held
  BY <1>4, <1>5 DEF Once, Within
<1>7. \A p : ~(Within(p, a) /\ Within(p, freeList))
  BY <1>6 DEF Inv, Place, Held
<1>8. /\ freeList' \in Seq(Ports) /\ Len(freeList') = Len(a) + Len(freeList) /\ Once(freeList')
      /\ \A p : Within(p, freeList') <=> Within(p, a) \/ Within(p, freeList)
  BY <1>1, <1>5, <1>6, <1>7, Joined DEF Inv, Types, Place
<1>9. Types'
  <2>1. Len(conns) \in Nat /\ Len(conns') = Len(conns)
    BY <1>3 DEF Inv, Types, SameConns
  <2>2. slots' \in [Ports -> 0 .. Len(conns')] /\ worker' \in [Workers -> WorkerType(Len(conns'))]
    BY <1>1, <2>1 DEF Inv, Types
  <2>3. uevents' \in Seq({"add", "remove"} \X Devices)
    BY <1>1
  <2> QED BY <1>1, <1>3, <1>8, <2>2, <2>3 DEF Inv, Types, SameConns
<1>10. Carried'
  <2>1. "scan" \in Workers /\ "loop" \in Workers
    BY DEF Workers
  <2> QED BY <1>1, <1>2, <2>1 DEF Carried
<1>11. Phases'
  BY <1>1, <1>2 DEF Phases
<1>12. Place'
  <2>1. \A w \in Workers, p \in Ports : ~Fills(w, p) /\ ~Fills(w, p)'
    BY <1>1, <1>2 DEF Fills
  <2>2. count' = MaxDevices - Len(freeList')
    BY <1>1, <1>4, <1>5, <1>8, LinuxHalAssumption DEF Inv, Place, Types
  <2>3. \A p \in Ports : Within(p, freeList)'
    <3>1. \A p \in Ports : Within(p, freeList')
      BY <1>6, <1>8, <2>1 DEF Inv, Place, Held
    <3> QED BY <3>1 DEF Within
  <2>4. Once(freeList)'
    BY <1>8 DEF Once
  <2>5. \A p \in Ports : slots'[p] = 0
    BY <1>1
  <2> QED BY <2>1, <2>2, <2>3, <2>4, <2>5 DEF Place
<1>13. Owned'
  <2>1. \A p \in Ports : slots'[p] = 0
    BY <1>1
  <2>2. \A w \in Workers : worker'[w].at # "store"
    BY <1>1, <1>2
  <2>3. /\ \A f \in Files, p \in Ports : ~Has(p, f)'
        /\ \A f \in Files, w \in Workers : ~Stores(w, f) /\ ~Stores(w, f)'
    BY <1>2, <2>1, <2>2 DEF Has, Stores
  <2>4. \A f \in Files : files'[f] = Nobody
    <3>1. \A f \in Files : files[f] # Nobody => \E p \in Held : Has(p, f)
      BY <2>3 DEF Inv, Owned, Has, Held
    <3> QED BY <1>3, <3>1
  <2> QED BY <2>1, <2>2, <2>3, <2>4 DEF Owned
<1> QED BY <1>9, <1>10, <1>11, <1>12, <1>13 DEF Inv

LEMMA StartInv == Inv /\ Start => Inv'
<1> SUFFICES ASSUME Inv, Start PROVE Inv'
  OBVIOUS
<1>1. /\ hal = "ready" /\ hal' = "running"
      /\ UNCHANGED <<slots, freeList, count, conns, files, uevents, addCh>>
      /\ worker' = [worker EXCEPT !["scan"].at = "start", !["loop"].at = "next"]
  BY DEF Start, kernelVars, queueVars, poolVars
<1>2. \A w \in Workers : worker[w].at = "none"
  BY <1>1 DEF Inv, Phases
<1> DEFINE s == [worker["scan"] EXCEPT !.at = "start"]
           l == [worker["loop"] EXCEPT !.at = "next"]
<1>3. "scan" \in Workers /\ "loop" \in Workers /\ \A w \in Workers : w \in {"scan", "loop"}
  BY DEF Workers
<1>4. worker' = [worker EXCEPT !["scan"] = s, !["loop"] = l]
  BY <1>1, <1>3 DEF Inv, Types
<1>5. s \in WorkerType(Len(conns)) /\ s.at = "start"
  BY <1>3 DEF Inv, Types, WorkerType, Stages
<1>6. l \in WorkerType(Len(conns)) /\ l.at = "next"
  BY <1>3 DEF Inv, Types, WorkerType, Stages
<1> HIDE DEF s, l
<1>7. worker'["scan"] = s /\ worker'["loop"] = l /\ worker' \in [Workers -> WorkerType(Len(conns))]
  BY <1>3, <1>4, <1>5, <1>6 DEF Inv, Types
<1>8. \A w \in Workers : worker'[w].at \in {"start", "next"}
  BY <1>3, <1>5, <1>6, <1>7
<1>9. Types'
  BY <1>1, <1>7 DEF Inv, Types
<1>10. Carried'
  BY <1>3, <1>8 DEF Carried
<1>11. Phases'
  BY <1>1 DEF Phases
<1>12. Place'
  <2>1. \A w \in Workers, p \in Ports : Fills(w, p)' <=> Fills(w, p)
    BY <1>2, <1>8 DEF Fills
  <2> QED BY <1>1, <2>1, PlaceSame DEF Inv
<1>13. Owned'
  <2>1. \A w \in Workers : worker'[w].at # "store" /\ worker[w].at # "store"
    BY <1>2, <1>8
  <2>2. SameConns
    BY <1>1, Marked DEF Inv
  <2> QED BY <1>1, <2>1, <2>2, OwnedSame DEF Inv
<1> QED BY <1>9, <1>10, <1>11, <1>12, <1>13 DEF Inv

-----------------------------------------------------------------------------
(* The kernel, the poll loop and the life of the HAL leave the pool alone. *)
LEMMA KernelInv == Inv /\ KernelStep => Inv'
<1> SUFFICES ASSUME Inv, NEW d \in Devices, Plug(d) \/ Unplug(d) PROVE Inv'
  BY DEF KernelStep
<1>1. UNCHANGED <<hal, worker, slots, freeList, count, conns, files, addCh>>
  BY DEF Plug, Unplug, queueVars, lifeVars, poolVars, workVars
<1>2. uevents' \in Seq({"add", "remove"} \X Devices)
  <2>1. PICK action \in {"add", "remove"} : Announce(action, d)
    BY DEF Plug, Unplug
  <2>2. uevents \in Seq({"add", "remove"} \X Devices) /\ <<action, d>> \in {"add", "remove"} \X Devices
    BY DEF Inv, Types
  <2> QED BY <2>1, <2>2 DEF Announce
<1>3. Apart
  BY <1>1, <1>2, Marked DEF Apart, Inv, Types
<1> QED BY <1>1, <1>3, Quiet

LEMMA LifeInv == Inv /\ (Initialise \/ EndContext \/ StopCancel \/ StopWaits) => Inv'
<1> SUFFICES ASSUME Inv, Initialise \/ EndContext \/ StopCancel \/ StopWaits PROVE Inv'
  OBVIOUS
<1>1. UNCHANGED <<worker, slots, freeList, count, conns, files, addCh, uevents>>
  BY DEF Initialise, EndContext, StopCancel, StopWaits, kernelVars, queueVars, poolVars, workVars
<1>2. Apart
  BY <1>1, Marked DEF Apart, Inv, Types
<1>3. Phases'
  BY <1>1 DEF Inv, Phases, Initialise, EndContext, StopCancel, StopWaits
<1> QED BY <1>1, <1>2, <1>3, Quiet

LEMMA PollInv == Inv /\ PollStep => Inv'
<1> SUFFICES ASSUME Inv, PollStep PROVE Inv'
  OBVIOUS
<1>1. UNCHANGED <<hal, worker, slots, freeList, count, files>>
  BY DEF PollStep, PollOnce, PollEnds, onDeviceEvent, processEvent, onHotplugEvent, lifeVars, poolVars, workVars
<1>2. SameConns
  <2>1. \E c : MarkDisconnected(c) \/ UNCHANGED conns
    BY DEF PollStep, PollOnce, PollEnds, onDeviceEvent, processEvent, onHotplugEvent
  <2> QED BY <2>1, Marked DEF Inv
<1>3. uevents' \in Seq({"add", "remove"} \X Devices) /\ addCh' \in Seq(Devices)
  <2>1. CASE processEvent
    <3>1. uevents \in Seq({"add", "remove"} \X Devices) /\ uevents # <<>> /\ uevents' = Tail(uevents)
      BY <2>1 DEF processEvent, Inv, Types
    <3>2. Head(uevents)[2] \in Devices /\ uevents' \in Seq({"add", "remove"} \X Devices)
      BY <3>1
    <3>3. addCh' = Offer(addCh, Head(uevents)[2]) \/ addCh' = addCh
      BY <2>1 DEF processEvent
    <3>4. addCh \in Seq(Devices)
      BY DEF Inv, Types
    <3> QED BY <3>2, <3>3, <3>4, OfferTyped
  <2>2. CASE ~processEvent
    BY <2>2 DEF PollStep, PollOnce, PollEnds, onDeviceEvent, onHotplugEvent, kernelVars, queueVars, Inv, Types
  <2> QED BY <2>1, <2>2
<1>4. Apart
  BY <1>1, <1>2, <1>3 DEF Apart
<1> QED BY <1>1, <1>4, Quiet

LEMMA HalInv == Inv /\ HalStep => Inv'
<1> SUFFICES ASSUME Inv, HalStep PROVE Inv'
  OBVIOUS
<1>1. CASE ScanStep \/ LoopStep
  <2>1. "scan" \in Workers /\ "loop" \in Workers
    BY DEF Workers
  <2>2. CASE \E w \in Workers : AddSteps(w)
    BY <2>2, allocInv, newDeviceConnInv, OpenFailsInv, StoreInv, WatchInv DEF AddSteps
  <2>3. CASE ~\E w \in Workers : AddSteps(w)
    BY <1>1, <2>1, <2>3, EndsInv, AddsInv, LoopRemovesInv, freeInv DEF ScanStep, LoopStep
  <2> QED BY <2>2, <2>3
<1> QED BY <1>1, KernelInv, LifeInv, StartInv, CloseInv, PollInv DEF HalStep, LifeStep

(* What the monitor does to a connection is a flag.                        *)
LEMMA MonitorInv ==
  Inv /\ (ConnectStep \/ WaitForDisconnection \/ \E h \in Handlers : HandlerStep(h)) => Inv'
<1> SUFFICES ASSUME Inv, ConnectStep \/ WaitForDisconnection \/ \E h \in Handlers : HandlerStep(h) PROVE Inv'
  OBVIOUS
<1>1. UNCHANGED <<hal, worker, slots, freeList, count, files, uevents, addCh>>
  BY DEF ConnectStep, WaitForConnection, GetPortStatus, WaitForDisconnection, HandlerStep, Lookup,
         TransferDone, TransferFails, ReportsEnd, halVars, kernelVars, queueVars, lifeVars, poolVars, workVars
<1>2. \E c : MarkDisconnected(c) \/ UNCHANGED conns
  BY DEF ConnectStep, WaitForConnection, GetPortStatus, WaitForDisconnection, HandlerStep, Lookup,
         TransferDone, TransferFails, ReportsEnd, halVars
<1>3. Apart
  BY <1>1, <1>2, Marked DEF Apart, Inv, Types
<1> QED BY <1>1, <1>3, Quiet

LEMMA InitInv == Init => Inv
<1> SUFFICES ASSUME Init PROVE Inv
  OBVIOUS
<1>1. MaxDevices \in Nat \ {0}
  BY LinuxHalAssumption
<1>2. /\ uevents = <<>> /\ addCh = <<>> /\ hal = "new" /\ slots = [p \in Ports |-> 0] /\ freeList = [p \in Ports |-> p]
      /\ count = 0 /\ conns = <<>> /\ files = [f \in Files |-> Nobody] /\ worker = [w \in Workers |-> AtRest("none")]
  BY DEF Init, HalInit
<1>3. freeList \in Seq(Ports) /\ Len(freeList) = MaxDevices /\ DOMAIN freeList = Ports
  <2>1. freeList \in [1 .. MaxDevices -> Ports]
    BY <1>2 DEF Ports
  <2> QED BY <1>1, <1>2, <2>1 DEF Ports
<1>4. \A w \in Workers : worker[w] = AtRest("none")
  BY <1>2
<1>5. Types
  <2>1. AtRest("none") \in WorkerType(0)
    BY DEF AtRest, WorkerType, Stages
  <2>2. conns \in Seq(Conn) /\ Len(conns) = 0
    BY <1>2
  <2>3. slots \in [Ports -> 0 .. 0] /\ files \in [Files -> Devices \union {Nobody}] /\ worker \in [Workers -> WorkerType(0)]
    BY <1>2, <2>1
  <2>4. uevents \in Seq({"add", "remove"} \X Devices) /\ addCh \in Seq(Devices)
    BY <1>2
  <2> QED BY <1>3, <2>2, <2>3, <2>4 DEF Types
<1>6. Carried
  <2>1. "scan" \in Workers /\ "loop" \in Workers
    BY DEF Workers
  <2> QED BY <1>4, <2>1 DEF Carried, AtRest
<1>7. Phases
  BY <1>2, <1>4 DEF Phases, AtRest
<1>8. Place
  <2>1. \A p \in Ports : freeList[p] = p /\ Within(p, freeList) /\ slots[p] = 0
    BY <1>2, <1>3 DEF Within
  <2>2. \A w \in Workers, p \in Ports : ~Fills(w, p)
    BY <1>4 DEF Fills, AtRest
  <2>3. Once(freeList)
    BY <1>3, <2>1 DEF Once
  <2>4. count = MaxDevices - Len(freeList)
    BY <1>1, <1>2, <1>3
  <2> QED BY <2>1, <2>2, <2>3, <2>4 DEF Place
<1>9. Owned
  <2>1. \A p \in Ports : slots[p] = 0
    BY <1>2
  <2>2. \A w \in Workers : worker[w].at # "store"
    BY <1>4 DEF AtRest
  <2>3. \A f \in Files : files[f] = Nobody
    BY <1>2
  <2> QED BY <2>1, <2>2, <2>3 DEF Owned, Has, Stores
<1> QED BY <1>5, <1>6, <1>7, <1>8, <1>9 DEF Inv

LEMMA NextInv == Inv /\ [Next]_vars => Inv'
<1> SUFFICES ASSUME Inv, [Next]_vars PROVE Inv'
  OBVIOUS
<1>1. CASE UNCHANGED vars
  <2>1. UNCHANGED <<hal, worker, slots, freeList, count, conns, files, uevents, addCh>>
    BY <1>1 DEF vars, halVars, kernelVars, queueVars, lifeVars, poolVars, workVars
  <2>2. Apart
    BY <2>1, Marked DEF Apart, Inv, Types
  <2> QED BY <2>1, <2>2, Quiet
<1>2. CASE Next
  BY <1>2, HalInv, MonitorInv DEF Next
<1> QED BY <1>1, <1>2

LEMMA InvHolds == Spec => []Inv
<1> QED BY InitInv, NextInv, PTL DEF Spec

-----------------------------------------------------------------------------
(* Whatever comes, goes and comes back while the scan and the hot-plug loop *)
(* share the pool without a lock, no slot is lost or given out twice, and   *)
(* count is what the free list says (alloc, set and free of the device      *)
(* pool, under handleDeviceAdd, handleDeviceRemove and Close).              *)
THEOREM SlotsAreAccounted == Spec => []SlotsAccounted
<1>1. Inv => SlotsAccounted
  <2> SUFFICES ASSUME Inv PROVE SlotsAccounted
    OBVIOUS
  <2>1. \A i, j \in DOMAIN freeList : i # j => freeList[i] # freeList[j]
    BY DEF Inv, Place, Once
  <2>2. ASSUME NEW p \in Ports
        PROVE  (IF \E i \in DOMAIN freeList : freeList[i] = p THEN 1 ELSE 0) + (IF slots[p] # 0 THEN 1 ELSE 0)
                 + Cardinality({w \in Filling : worker[w].port = p}) = 1
    <3> DEFINE F == {w \in Filling : worker[w].port = p}
               listed == \E i \in DOMAIN freeList : freeList[i] = p
    <3>1. \A w : w \in F <=> w \in Workers /\ Fills(w, p)
      BY DEF Filling, Fills
    <3>2. listed <=> Within(p, freeList)
      BY DEF Within
    <3> HIDE DEF F, listed
    <3>3. CASE listed
      <4>1. slots[p] = 0 /\ F = {}
        BY <3>1, <3>2, <3>3 DEF Inv, Place
      <4>2. Cardinality(F) = 0
        BY <4>1, FS_EmptySet
      <4> QED BY <3>3, <4>1, <4>2 DEF F, listed
    <3>4. CASE slots[p] # 0
      <4>1. ~listed /\ F = {}
        BY <3>1, <3>2, <3>4 DEF Inv, Place
      <4>2. Cardinality(F) = 0
        BY <4>1, FS_EmptySet
      <4> QED BY <3>4, <4>1, <4>2 DEF F, listed
    <3>5. CASE ~listed /\ slots[p] = 0
      <4>1. PICK w \in Workers : Fills(w, p)
        BY <3>2, <3>5 DEF Inv, Place
      <4>2. F = {w}
        BY <3>1, <4>1 DEF Inv, Place
      <4>3. Cardinality(F) = 1
        BY <4>2, FS_Singleton
      <4> QED BY <3>5, <4>3 DEF F, listed
    <3> QED BY <3>3, <3>4, <3>5
  <2> QED BY <2>1, <2>2 DEF SlotsAccounted, Inv, Place
<1> QED BY <1>1, InvHolds, PTL

(* A connection of the pool has a descriptor of its own, open on its        *)
(* device, although the kernel gives a number out again as soon as it is    *)
(* closed; and no descriptor stays open that nobody will close (openDevice  *)
(* and close of deviceConn, under the same handlers).                       *)
THEOREM StoredAreOpen == Spec => []StoredIsOpen
<1>1. Inv => StoredIsOpen
  <2> SUFFICES ASSUME Inv PROVE StoredIsOpen
    OBVIOUS
  <2>1. \A p \in Held : p \in Ports /\ slots[p] # 0 /\ conns[slots[p]].file \in Files
    <3>1. \A p \in Held : p \in Ports /\ slots[p] # 0 /\ slots[p] \in DOMAIN conns
      BY DEF Inv, Types, Held
    <3>2. \A c \in DOMAIN conns : conns[c] \in Conn
      BY DEF Inv, Types
    <3> QED BY <3>1, <3>2 DEF Conn
  <2>2. \A p \in Held : files[conns[slots[p]].file] = conns[slots[p]].device
    BY <2>1 DEF Inv, Owned
  <2>3. \A p, q \in Held : p # q => conns[slots[p]].file # conns[slots[q]].file
    BY <2>1 DEF Inv, Owned, Has
  <2>4. ASSUME NEW f \in Files, files[f] # Nobody
        PROVE  f \in FilesOf(Held) \union {conns[worker[w].conn].file : w \in {v \in Workers : worker[v].at = "store"}}
    <3>1. (\E p \in Ports : Has(p, f)) \/ \E w \in Workers : Stores(w, f)
      BY <2>4 DEF Inv, Owned
    <3> QED BY <3>1 DEF Has, Stores, FilesOf, Held
  <2> QED BY <2>2, <2>3, <2>4 DEF StoredIsOpen
<1> QED BY <1>1, InvHolds, PTL
=============================================================================
