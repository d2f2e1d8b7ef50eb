---------------------------- MODULE Daemon_proofs ----------------------------
(***************************************************************************)
(* Proofs about a grossd process and the processes that come after it, for *)
(* any configuration files, any number of filters, workers and processes,  *)
(* and wherever the state file is mapped.                                  *)
(*                                                                         *)
(* The list that read_config() makes of a file holds of every option what  *)
(* a reader of the file expects: this is an induction over the lines       *)
(* (ReadConfig).  The state file holds a ring whose pointers all agree, or *)
(* one that the running process moves or writes, pointer by pointer in a   *)
(* fixed order (RingInv); in that order every pointer comes after the one  *)
(* through which it is reached.  The reasons in effect are those of the    *)
(* file from a reload on until the flag is toggled (ReasonsInv).  Queries  *)
(* that are counted in the period and not yet in the total are those of    *)
(* workers between the two (AddUp).                                        *)
(***************************************************************************)
EXTENDS Daemon, FiniteSetTheorems, SequenceTheorems, WellFoundedInduction, TLAPS

----------------------------------------------------------------------------
(* The inductive invariant. *)

(* Lookups under way may still count the tolerance down. *)
ListInv == \A l \in DnsLists : tolerance[l] >= flight[l] + 1 - MaxFlight

(* What is left to store is the end of an order. *)
Left(order)  == Len(order) - Len(stores)
Suffix(order) ==
    /\ Left(order) \in Nat
    /\ \A i \in 1..Len(stores) : stores[i] = order[Left(order) + i]

Agree(n) == file.group_size = n /\ \A p \in Ptrs(n) : file.ptr[p] = file.ptr[Ptr("group", 0)]

RingInv ==
    /\ file.magic => file.size \in Sizes
    /\ doing = "none" /\ file.magic /\ ~cut => Agree(file.size)
    /\ doing # "none" => num \in Sizes /\ file.size = num /\ file.magic
    /\ doing = "init" =>
          /\ Suffix(InitOrder(num))
          /\ \A i \in 1..Left(InitOrder(num)) : file.ptr[InitOrder(num)[i]] = base
          /\ Left(InitOrder(num)) > 0 => file.group_size = num
    /\ doing = "walk" /\ ~cut =>
          /\ file.group_size = num
          /\ Suffix(WalkOrder(num))
          /\ \A i \in 1..Len(WalkOrder(num)) :
                file.ptr[WalkOrder(num)[i]] = IF i <= Left(WalkOrder(num)) THEN base
                                                                        ELSE base - offset
    /\ doing = "ready" /\ ~cut => Whole

OptionsInv ==
    phase # "down" =>
        /\ \A k \in ListKinds : options[k] = WrittenAll(started, k)
        /\ options["stat_type"] = {"full"} \/ options["stat_type"] \subseteq WrittenAll(started, "stat_type")

ReasonsInv ==
    /\ phase # "serving" => mpc = "stats" /\ ~pending /\ ~missed
    /\ mpc \in {"read", "toggle"} => pending
    /\ /\ phase # "down" /\ announced /\ ~missed /\ conffile \in ReadableFiles
       /\ pending => mpc = "toggle"
       => \A r \in Reasons : reasons[r] = Written(conffile, r)

(* It serves once everything is stored. *)
ServeInv == phase = "serving" => doing = "ready"

IInv ==
    TypeOK /\ ListInv /\ RingInv /\ ServeInv /\ OptionsInv /\ ReasonsInv /\ StatsConsistent

----------------------------------------------------------------------------
(* Numbers. *)

LEMMA Least ==
  ASSUME NEW T, T \subseteq Nat, T # {}
  PROVE  \E x \in T : \A y \in T : x <= y
  <1>1. PICK x \in T : \A y \in T : ~(<<y, x>> \in OpToRel(<, Nat))
    BY WFMin, NatLessThanWellFounded, Zenon
  <1>2. \A y \in T : ~(y < x)
    BY <1>1 DEF OpToRel
  <1> QED
    BY <1>2

LEMMA Induction ==
  ASSUME NEW T, 0 \in T, \A n \in Nat : n \in T => n + 1 \in T
  PROVE  \A n \in Nat : n \in T
  <1> SUFFICES ASSUME NEW k \in Nat, k \notin T PROVE FALSE
    OBVIOUS
  <1> DEFINE R == {n \in Nat : n \notin T}
  <1>1. R \subseteq Nat /\ R # {}
    OBVIOUS
  <1>2. PICK x \in R : \A y \in R : x <= y
    BY <1>1, Least
  <1>3. x # 0 /\ x - 1 \in Nat /\ x - 1 \notin R
    BY <1>2
  <1> QED
    BY <1>3

LEMMA MinOf ==
  ASSUME NEW S, S \subseteq Nat, S # {}
  PROVE  Min(S) \in S /\ \A y \in S : Min(S) <= y
  BY Least DEF Min

LEMMA Greatest ==
  ASSUME NEW S, NEW n \in Nat, S \subseteq 0..n, S # {}
  PROVE  \E x \in S : \A y \in S : x >= y
  <1> DEFINE T == {k \in Nat : \A y \in S : y <= k}
  <1>1. T \subseteq Nat /\ n \in T
    OBVIOUS
  <1>2. PICK x \in T : \A y \in T : x <= y
    BY <1>1, Least
  <1>3. x \in S
    <2> SUFFICES ASSUME x \notin S PROVE FALSE
      OBVIOUS
    <2>1. \A y \in S : y <= x - 1
      BY <1>2
    <2>2. PICK y \in S : y \in 0..n
      OBVIOUS
    <2>3. x - 1 \in T
      BY <2>1, <2>2
    <2> QED
      BY <1>2, <2>3
  <1> QED
    BY <1>2, <1>3

LEMMA MaxOf ==
  ASSUME NEW S, NEW n \in Nat, S \subseteq 0..n, S # {}
  PROVE  Max(S) \in S /\ \A y \in S : Max(S) >= y
  BY Greatest DEF Max

----------------------------------------------------------------------------
(* The configuration. *)

Items == [name : Valid, value : Texts, params : Nat, is_default : BOOLEAN]

Once(s, name) == \A i, j \in 1..Len(s) : s[i].name = name /\ s[j].name = name => i = j

(* The loop of record_config_item() over the list, as a function. *)
RemoveStep(f, config, name, i) ==
    IF i = 0 THEN <<>>
    ELSE IF IsDefaultOf(config[i], name) THEN f[i - 1]
    ELSE Append(f[i - 1], config[i])

Removes(f, config, name, n) ==
    f = [i \in 0..n |-> RemoveStep(f, config, name, i)]

LEMMA RemoveExists ==
  ASSUME NEW config, NEW name, Len(config) \in Nat
  PROVE  \E f : Removes(f, config, name, Len(config)) /\ RemoveDefaults(config, name) = f[Len(config)]
  <1> DEFINE T == {n \in Nat : \E f : Removes(f, config, name, n)}
  <1>1. 0 \in T
    <2>1. PICK f : f = [i \in 0..0 |-> <<>>]
      OBVIOUS
    <2>2. Removes(f, config, name, 0)
      BY <2>1 DEF Removes, RemoveStep
    <2> QED
      BY <2>2
  <1>2. ASSUME NEW n \in Nat, n \in T
        PROVE  n + 1 \in T
    <2>1. PICK f : Removes(f, config, name, n)
      BY <1>2
    <2>2. PICK g : g = [i \in 0..(n + 1) |-> IF i = n + 1 THEN RemoveStep(f, config, name, i) ELSE f[i]]
      OBVIOUS
    <2>3. \A i \in 0..n : g[i] = f[i]
      BY <2>2
    <2>4. ASSUME NEW i \in 0..(n + 1)
          PROVE  g[i] = RemoveStep(g, config, name, i)
      <3>1. CASE i = 0
        BY <2>1, <2>3, <3>1 DEF Removes, RemoveStep
      <3>2. CASE i \in 1..(n + 1)
        <4>1. i - 1 \in 0..n /\ g[i - 1] = f[i - 1]
          BY <2>3, <3>2
        <4>2. RemoveStep(g, config, name, i) = RemoveStep(f, config, name, i)
          BY <4>1 DEF RemoveStep
        <4>3. g[i] = RemoveStep(f, config, name, i)
          BY <2>1, <2>2, <3>2 DEF Removes
        <4> QED
          BY <4>2, <4>3
      <3> QED
        BY <3>1, <3>2
    <2>5. Removes(g, config, name, n + 1)
      BY <2>2, <2>4 DEF Removes
    <2> QED
      BY <2>5
  <1> HIDE DEF T
  <1>3. Len(config) \in T
    BY <1>1, <1>2, Induction
  <1>4. \E f : Removes(f, config, name, Len(config))
    BY <1>3 DEF T
  <1> QED
    BY <1>4 DEF RemoveDefaults, Removes, RemoveStep

(* What the first k items leave. *)
Kept(s, config, name, k) ==
    /\ s \in Seq(Items)
    /\ \A i \in 1..Len(s) : \E j \in 1..k : s[i] = config[j] /\ ~IsDefaultOf(config[j], name)
    /\ \A j \in 1..k : ~IsDefaultOf(config[j], name) => \E i \in 1..Len(s) : s[i] = config[j]
    /\ \A n \in Valid : Once(config, n) => Once(s, n)

LEMMA KeptDefault ==
  ASSUME NEW config \in Seq(Items), NEW name, NEW k \in 0..(Len(config) - 1), NEW s,
         Kept(s, config, name, k), IsDefaultOf(config[k + 1], name)
  PROVE  Kept(s, config, name, k + 1)
  <1>1. 1..(k + 1) = (1..k) \cup {k + 1}
    BY LenProperties
  <1> QED
    BY <1>1 DEF Kept

LEMMA KeptItem ==
  ASSUME NEW config \in Seq(Items), NEW name, NEW k \in 0..(Len(config) - 1), NEW s,
         Kept(s, config, name, k), ~IsDefaultOf(config[k + 1], name)
  PROVE  Kept(Append(s, config[k + 1]), config, name, k + 1)
  <1>1. s \in Seq(Items) /\ Len(s) \in Nat /\ Len(config) \in Nat
    BY LenProperties DEF Kept
  <1>2. k + 1 \in 1..Len(config) /\ config[k + 1] \in Items
    BY <1>1, ElementOfSeq
  <1>3. PICK r : r = Append(s, config[k + 1])
    OBVIOUS
  <1>4. /\ r \in Seq(Items) /\ Len(r) = Len(s) + 1
        /\ \A i \in 1..Len(s) : r[i] = s[i]
        /\ r[Len(s) + 1] = config[k + 1]
    BY <1>1, <1>2, <1>3, AppendProperties
  <1>5. 1..(k + 1) = (1..k) \cup {k + 1} /\ 1..Len(r) = (1..Len(s)) \cup {Len(s) + 1}
    BY <1>1, <1>4
  <1>6. ASSUME NEW i \in 1..Len(r)
        PROVE  \E j \in 1..(k + 1) : r[i] = config[j] /\ ~IsDefaultOf(config[j], name)
    <2>1. CASE i = Len(s) + 1
      <3>1. r[i] = config[k + 1] /\ k + 1 \in 1..(k + 1)
        BY <1>4, <2>1
      <3> QED
        BY <3>1
    <2>2. CASE i \in 1..Len(s)
      <3>1. PICK j \in 1..k : s[i] = config[j] /\ ~IsDefaultOf(config[j], name)
        BY <2>2 DEF Kept
      <3>2. j \in 1..(k + 1) /\ r[i] = config[j]
        BY <1>4, <2>2, <3>1
      <3> QED
        BY <3>1, <3>2
    <2> QED
      BY <1>5, <2>1, <2>2
  <1>7. \A j \in 1..(k + 1) : ~IsDefaultOf(config[j], name) => \E i \in 1..Len(r) : r[i] = config[j]
    BY <1>4, <1>5 DEF Kept
  <1>8. ASSUME NEW n \in Valid, Once(config, n)
        PROVE  Once(r, n)
    <2>1. Once(s, n)
      BY <1>8 DEF Kept
    <2>2. ASSUME NEW i \in 1..Len(s), s[i].name = n
          PROVE  config[k + 1].name # n
      <3>1. PICK j \in 1..k : s[i] = config[j]
        BY <2>2 DEF Kept
      <3>2. j \in 1..Len(config) /\ j # k + 1
        BY <1>1
      <3> QED
        BY <1>2, <1>8, <2>2, <3>1, <3>2 DEF Once
    <2> QED
      BY <1>4, <1>5, <2>1, <2>2 DEF Once
  <1> QED
    BY <1>3, <1>4, <1>6, <1>7, <1>8 DEF Kept

LEMMA Removed ==
  ASSUME NEW config \in Seq(Items), NEW name
  PROVE  Kept(RemoveDefaults(config, name), config, name, Len(config))
  <1>1. Len(config) \in Nat
    BY LenProperties
  <1>2. PICK f : /\ Removes(f, config, name, Len(config))
                 /\ RemoveDefaults(config, name) = f[Len(config)]
    BY <1>1, RemoveExists
  <1>3. \A i \in 0..Len(config) : f[i] = RemoveStep(f, config, name, i)
    BY <1>2 DEF Removes
  <1> DEFINE T == {n \in Nat : n <= Len(config) => Kept(f[n], config, name, n)}
  <1>4. 0 \in T
    <2>1. f[0] = <<>>
      BY <1>1, <1>3 DEF RemoveStep
    <2>2. <<>> \in Seq(Items) /\ Len(<<>>) = 0
      BY EmptySeq
    <2>3. Kept(<<>>, config, name, 0)
      BY <2>2 DEF Kept, Once
    <2> QED
      BY <2>1, <2>3
  <1>5. ASSUME NEW n \in Nat, n \in T
        PROVE  n + 1 \in T
    <2> SUFFICES ASSUME n + 1 <= Len(config)
                 PROVE  Kept(f[n + 1], config, name, n + 1)
      OBVIOUS
    <2>1. Kept(f[n], config, name, n) /\ n \in 0..(Len(config) - 1)
      BY <1>1, <1>5
    <2>2. f[n + 1] = RemoveStep(f, config, name, n + 1) /\ n + 1 # 0 /\ (n + 1) - 1 = n
      BY <1>3, <2>1
    <2>3. CASE IsDefaultOf(config[n + 1], name)
      <3>1. f[n + 1] = f[n]
        BY <2>2, <2>3 DEF RemoveStep
      <3> QED
        BY <2>1, <2>3, <3>1, KeptDefault
    <2>4. CASE ~IsDefaultOf(config[n + 1], name)
      <3>1. f[n + 1] = Append(f[n], config[n + 1])
        BY <2>2, <2>4 DEF RemoveStep
      <3> QED
        BY <2>1, <2>4, <3>1, KeptItem
    <2> QED
      BY <2>3, <2>4
  <1> HIDE DEF T
  <1>6. Len(config) \in T
    BY <1>1, <1>4, <1>5, Induction
  <1> QED
    BY <1>1, <1>2, <1>6 DEF T

(* The items of an option. *)
Entries(config, name) == {config[i] : i \in Places(config, name)}

LEMMA EntriesMember ==
  ASSUME NEW config \in Seq(Items), NEW name
  PROVE  /\ Places(config, name) = {i \in 1..Len(config) : config[i].name = name}
         /\ Places(config, name) \subseteq Nat
         /\ \A e : e \in Entries(config, name) <=>
                      \E i \in 1..Len(config) : config[i] = e /\ e.name = name
         /\ Entries(config, name) \subseteq Items
  <1>1. Len(config) \in Nat /\ DOMAIN config = 1..Len(config)
    BY LenProperties
  <1>2. \A i \in 1..Len(config) : config[i] \in Items
    BY ElementOfSeq
  <1>3. Places(config, name) = {i \in 1..Len(config) : config[i].name = name}
    BY <1>1 DEF Places
  <1> QED
    BY <1>1, <1>2, <1>3 DEF Entries

(* An item added to the front of a list. *)
AddedOK(config, line, r) ==
    /\ r \in Seq(Items) /\ Len(r) = Len(config) + 1 /\ r[1] = Item(line, FALSE)
    /\ Entries(r, line.name) = Entries(config, line.name) \cup {Item(line, FALSE)}
    /\ \A n : n # line.name => Entries(r, n) = Entries(config, n)
    /\ \A n : n # line.name /\ Once(config, n) => Once(r, n)

LEMMA Added ==
  ASSUME NEW config \in Seq(Items), NEW line, Item(line, FALSE) \in Items
  PROVE  AddedOK(config, line, add_config_item(config, line, FALSE))
  <1>1. PICK x : x = Item(line, FALSE)
    OBVIOUS
  <1>2. x \in Items /\ x.name = line.name
    BY <1>1 DEF Item
  <1>3. PICK s : s = <<x>> \o config
    OBVIOUS
  <1>4. Len(config) \in Nat
    BY LenProperties
  <1>5. <<x>> \in Seq(Items) /\ Len(<<x>>) = 1 /\ <<x>>[1] = x
    BY <1>2
  <1>6. /\ s \in Seq(Items) /\ Len(s) = Len(config) + 1
        /\ \A i \in 1..Len(s) : s[i] = IF i <= 1 THEN <<x>>[i] ELSE config[i - 1]
    BY <1>3, <1>4, <1>5, ConcatProperties
  <1>7. s[1] = x
    BY <1>4, <1>5, <1>6
  <1>8. \A i \in 1..Len(config) : i + 1 \in 1..Len(s) /\ s[i + 1] = config[i]
    BY <1>4, <1>6
  <1>9. \A i \in 1..Len(s) : i = 1 \/ (i - 1 \in 1..Len(config) /\ s[i] = config[i - 1])
    BY <1>4, <1>6
  <1>10. ASSUME NEW n, NEW e
         PROVE  e \in Entries(s, n) <=> (e \in Entries(config, n) \/ (e = x /\ n = line.name))
    <2>0. s \in Seq(Items)
      BY <1>6
    <2>1. e \in Entries(s, n) <=> \E i \in 1..Len(s) : s[i] = e /\ e.name = n
      BY <2>0, EntriesMember, Zenon
    <2>2. e \in Entries(config, n) <=> \E i \in 1..Len(config) : config[i] = e /\ e.name = n
      BY EntriesMember
    <2>3. 1 \in 1..Len(s)
      BY <1>4, <1>6
    <2>4. ASSUME e \in Entries(s, n)
          PROVE  e \in Entries(config, n) \/ (e = x /\ n = line.name)
      <3>1. PICK i \in 1..Len(s) : s[i] = e /\ e.name = n
        BY <2>1, <2>4
      <3> QED
        BY <1>2, <1>7, <1>9, <2>2, <3>1
    <2>5. ASSUME e \in Entries(config, n)
          PROVE  e \in Entries(s, n)
      <3>1. PICK i \in 1..Len(config) : config[i] = e /\ e.name = n
        BY <2>2, <2>5
      <3> QED
        BY <1>8, <2>1, <3>1
    <2>6. ASSUME e = x, n = line.name
          PROVE  e \in Entries(s, n)
      BY <1>2, <1>7, <2>1, <2>3, <2>6
    <2> QED
      BY <2>4, <2>5, <2>6
  <1>11. ASSUME NEW n, n # line.name, Once(config, n)
         PROVE  Once(s, n)
    <2> SUFFICES ASSUME NEW i \in 1..Len(s), NEW j \in 1..Len(s), s[i].name = n, s[j].name = n
                 PROVE  i = j
      BY DEF Once
    <2>1. i - 1 \in 1..Len(config) /\ s[i] = config[i - 1] /\ j - 1 \in 1..Len(config) /\ s[j] = config[j - 1]
      BY <1>2, <1>7, <1>9, <1>11
    <2>2. i - 1 = j - 1
      BY <1>11, <2>1 DEF Once
    <2> QED
      BY <2>2
  <1>12. /\ Entries(s, line.name) = Entries(config, line.name) \cup {x}
         /\ \A n : n # line.name => Entries(s, n) = Entries(config, n)
    <2>1. Entries(s, line.name) = Entries(config, line.name) \cup {x}
      BY <1>10
    <2>2. ASSUME NEW n, n # line.name
          PROVE  Entries(s, n) = Entries(config, n)
      <3>1. \A e : e \in Entries(s, n) <=> e \in Entries(config, n)
        BY <1>10, <2>2, Zenon
      <3> QED
        BY <3>1, Zenon
    <2> QED
      BY <2>1, <2>2
  <1>13. AddedOK(config, line, s)
    BY <1>1, <1>6, <1>7, <1>11, <1>12 DEF AddedOK
  <1> QED
    BY <1>1, <1>3, <1>13 DEF add_config_item

(* The defaults of an option removed. *)
LEMMA RemovedEntries ==
  ASSUME NEW config \in Seq(Items), NEW name
  PROVE  /\ RemoveDefaults(config, name) \in Seq(Items)
         /\ Entries(RemoveDefaults(config, name), name) = {e \in Entries(config, name) : ~e.is_default}
         /\ \A n : n # name => Entries(RemoveDefaults(config, name), n) = Entries(config, n)
         /\ \A n \in Valid : Once(config, n) => Once(RemoveDefaults(config, name), n)
  <1>1. PICK r : r = RemoveDefaults(config, name)
    OBVIOUS
  <1>2. Kept(r, config, name, Len(config))
    BY <1>1, Removed
  <1>3. r \in Seq(Items) /\ \A n \in Valid : Once(config, n) => Once(r, n)
    BY <1>2 DEF Kept
  <1>4. ASSUME NEW n, NEW e
        PROVE  e \in Entries(r, n) <=> e \in Entries(config, n) /\ ~IsDefaultOf(e, name)
    <2>1. e \in Entries(r, n) <=> \E i \in 1..Len(r) : r[i] = e /\ e.name = n
      BY <1>3, EntriesMember, Zenon
    <2>2. e \in Entries(config, n) <=> \E i \in 1..Len(config) : config[i] = e /\ e.name = n
      BY EntriesMember, Zenon
    <2> QED
      BY <1>2, <2>1, <2>2 DEF Kept
  <1>5. \A e : e \in Entries(r, name) <=> e \in Entries(config, name) /\ ~e.is_default
    <2>1. \A e \in Entries(config, name) : e.name = name
      BY EntriesMember
    <2> QED
      BY <1>4, <2>1 DEF IsDefaultOf
  <1>6. ASSUME NEW n, n # name
        PROVE  Entries(r, n) = Entries(config, n)
    <2>1. \A e \in Entries(config, n) : e.name = n
      BY EntriesMember
    <2>2. \A e : e \in Entries(r, n) <=> e \in Entries(config, n)
      BY <1>4, <1>6, <2>1 DEF IsDefaultOf
    <2> QED
      BY <2>2, Zenon
  <1>7. Entries(r, name) = {e \in Entries(config, name) : ~e.is_default}
    BY <1>5, Zenon
  <1> QED
    BY <1>1, <1>3, <1>6, <1>7, Zenon

(* The value of an item replaced. *)
ReplacedOK(config, line, p, r) ==
    /\ r \in Seq(Items) /\ Len(r) = Len(config)
    /\ \A i \in 1..Len(config) : r[i].name = config[i].name /\ r[i].is_default = config[i].is_default
    /\ r[p].value = line.value
    /\ \A n : n # line.name => Entries(r, n) = Entries(config, n)
    /\ \A n : Once(config, n) => Once(r, n)

LEMMA Replaced ==
  ASSUME NEW config \in Seq(Items), NEW line, Item(line, FALSE) \in Items, NEW p \in 1..Len(config),
         config[p].name = line.name
  PROVE  ReplacedOK(config, line, p, [config EXCEPT ![p].value = line.value])
  <1>1. PICK s : s = [config EXCEPT ![p].value = line.value]
    OBVIOUS
  <1>2. Len(config) \in Nat /\ config \in [1..Len(config) -> Items]
    BY LenProperties
  <1>3. PICK x : x = [config[p] EXCEPT !.value = line.value]
    OBVIOUS
  <1>4. config[p] \in Items
    BY <1>2
  <1>5. x \in Items /\ x.name = line.name /\ x.value = line.value /\ x.is_default = config[p].is_default
    BY <1>3, <1>4 DEF Item, Items
  <1>6. s = [config EXCEPT ![p] = x]
    BY <1>1, <1>2, <1>3
  <1>7. s \in Seq(Items) /\ Len(s) = Len(config) /\ \A i \in 1..Len(config) : s[i] = IF i = p THEN x ELSE config[i]
    BY <1>2, <1>5, <1>6, ExceptSeq
  <1>8. \A i \in 1..Len(config) : s[i].name = config[i].name /\ s[i].is_default = config[i].is_default
    BY <1>5, <1>7
  <1>9. ASSUME NEW n, n # line.name
        PROVE  Entries(s, n) = Entries(config, n)
    <2>1. \A e : e \in Entries(s, n) <=> \E i \in 1..Len(s) : s[i] = e /\ e.name = n
      BY <1>7, EntriesMember, Zenon
    <2>2. \A e : e \in Entries(config, n) <=> \E i \in 1..Len(config) : config[i] = e /\ e.name = n
      BY EntriesMember, Zenon
    <2>3. \A e : e \in Entries(s, n) <=> e \in Entries(config, n)
      BY <1>5, <1>7, <1>9, <2>1, <2>2
    <2> QED
      BY <2>3, Zenon
  <1>10. \A n : Once(config, n) => Once(s, n)
    BY <1>7, <1>8 DEF Once
  <1>11. s[p].value = line.value
    BY <1>5, <1>7
  <1>12. s \in Seq(Items) /\ Len(s) = Len(config)
    BY <1>7
  <1>13. ReplacedOK(config, line, p, s)
    BY <1>8, <1>9, <1>10, <1>11, <1>12, Zenon DEF ReplacedOK
  <1> QED
    BY <1>1, <1>13

(* What the list holds of an option after the first k lines of a file: of  *)
(* one with many values all that were written, or its defaults, and of the *)
(* reasons the last one.  The head of the list, which the loop of          *)
(* record_config_item() could not take out, is never to be taken out.      *)
Seen(f, k, name) == {i \in 1..k : f[i].name = name}

ManyOK(config, f, k, name) ==
    /\ Seen(f, k, name) = {} => Entries(config, name) = Entries(default_config, name)
    /\ Seen(f, k, name) # {} =>
          /\ {e.value : e \in Entries(config, name)} = {f[i].value : i \in Seen(f, k, name)}
          /\ \A e \in Entries(config, name) : ~e.is_default

OneOK(config, f, k, name) ==
    /\ Once(config, name)
    /\ \E e \in Entries(config, name) :
          /\ Seen(f, k, name) = {} => e \in Entries(default_config, name)
          /\ \A j \in Seen(f, k, name) :
                (\A h \in Seen(f, k, name) : h <= j) => e.value = f[j].value

HeadOK(config) == Len(config) > 0 /\ ~(config[1].is_default /\ config[1].name \in Multivalues)

ReadOK(config, f, k) ==
    /\ config \in Seq(Items)
    /\ HeadOK(config)
    /\ \A name \in Multivalues : ManyOK(config, f, k, name)
    /\ \A name \in Reasons : OneOK(config, f, k, name)

LEMMA SeenNext ==
  ASSUME NEW f \in Seq(Lines), NEW k \in Nat, NEW name
  PROVE  /\ f[k + 1].name # name => Seen(f, k + 1, name) = Seen(f, k, name)
         /\ f[k + 1].name = name => Seen(f, k + 1, name) = Seen(f, k, name) \cup {k + 1}
         /\ Seen(f, k, name) \subseteq 1..k
  <1>1. 1..(k + 1) = (1..k) \cup {k + 1}
    OBVIOUS
  <1> QED
    BY <1>1 DEF Seen

LEMMA DefaultEntries ==
  /\ default_config \in Seq(Items) /\ HeadOK(default_config)
  /\ \A i \in 1..5 : default_config[i].is_default
  /\ Len(default_config) = 5
  /\ default_config[1].name = "block_reason" /\ default_config[1].value = "bad"
  /\ default_config[2].name = "grey_reason" /\ default_config[2].value = "later"
  /\ default_config[3].name = "stat_type" /\ default_config[3].value = "status"
  /\ default_config[4].name = "stat_type" /\ default_config[4].value = "delay"
  /\ default_config[5].name = "log_method" /\ default_config[5].value = "syslog"
  <1>1. Len(Defaults) = 5 /\ DOMAIN Defaults = 1..5
    BY DEF Defaults
  <1>2. default_config = [i \in 1..5 |-> Item(Defaults[6 - i], TRUE)]
    BY <1>1 DEF default_config
  <1>3. \A i \in 1..5 : /\ Defaults[i].name \in Valid /\ Defaults[i].value \in Texts
                         /\ Defaults[i].params \in Nat
    <2>1. \A i \in 1..5 : Defaults[i].value \in Texts
      <3>1. \A i \in 1..5 : Defaults[i].value \in LineValues(Defaults)
        BY <1>1 DEF LineValues
      <3> QED
        BY <3>1 DEF Texts
    <2>2. \A i \in 1..5 : Defaults[i].name \in Valid /\ Defaults[i].params \in Nat
      <3>1. /\ Defaults[1] = Line("log_method", "syslog", 0) /\ Defaults[2] = Line("stat_type", "delay", 0)
            /\ Defaults[3] = Line("stat_type", "status", 0) /\ Defaults[4] = Line("grey_reason", "later", 0)
            /\ Defaults[5] = Line("block_reason", "bad", 0)
        BY DEF Defaults
      <3>2. \A n, v : Line(n, v, 0).name = n /\ Line(n, v, 0).params = 0
        BY DEF Line
      <3>3. {"log_method", "stat_type", "grey_reason", "block_reason"} \subseteq Valid
        BY DEF Valid, Multivalues, Reasons
      <3>4. 1..5 = {1, 2, 3, 4, 5}
        OBVIOUS
      <3> QED
        BY <3>1, <3>2, <3>3, <3>4
    <2> QED
      BY <2>1, <2>2
  <1>4. \A i \in 1..5 : default_config[i] \in Items /\ default_config[i].is_default
    BY <1>2, <1>3 DEF Item, Items
  <1>5. default_config \in [1..5 -> Items]
    BY <1>2, <1>4
  <1>6. default_config \in Seq(Items) /\ Len(default_config) = 5
    <2>1. default_config \in Seq(Items)
      BY <1>5, SeqDef
    <2>2. Len(default_config) \in Nat /\ DOMAIN default_config = 1..Len(default_config)
      BY <2>1, LenProperties
    <2>3. 1..Len(default_config) = 1..5
      BY <1>2, <2>2
    <2> QED
      BY <2>1, <2>2, <2>3
  <1>7. /\ default_config[1].name = "block_reason" /\ default_config[1].value = "bad"
        /\ default_config[2].name = "grey_reason" /\ default_config[2].value = "later"
        /\ default_config[3].name = "stat_type" /\ default_config[3].value = "status"
        /\ default_config[4].name = "stat_type" /\ default_config[4].value = "delay"
        /\ default_config[5].name = "log_method" /\ default_config[5].value = "syslog"
    BY <1>2 DEF Defaults, Line, Item
  <1> QED
    BY <1>4, <1>6, <1>7 DEF HeadOK, Multivalues

LEMMA ReadNothing ==
  ASSUME NEW f \in Seq(Lines)
  PROVE  ReadOK(default_config, f, 0)
  <1>1. \A name : Seen(f, 0, name) = {}
    BY DEF Seen
  <1>2. \A name \in Multivalues : ManyOK(default_config, f, 0, name)
    BY <1>1 DEF ManyOK
  <1>3. ASSUME NEW name \in Reasons
        PROVE  OneOK(default_config, f, 0, name)
    <2>1. Once(default_config, name)
      <3>1. 1..Len(default_config) = {1, 2, 3, 4, 5}
        BY DefaultEntries
      <3> QED
        BY <3>1, DefaultEntries DEF Once, Reasons
    <2>2. \E e : e \in Entries(default_config, name)
      <3>1. \A e : e \in Entries(default_config, name) <=>
                      \E i \in 1..Len(default_config) : default_config[i] = e /\ e.name = name
        BY DefaultEntries, EntriesMember, Zenon
      <3> QED
        BY <3>1, DefaultEntries DEF Reasons
    <2> QED
      BY <1>1, <2>1, <2>2 DEF OneOK
  <1> QED
    BY <1>2, <1>3, DefaultEntries DEF ReadOK

(* An option that a line is not about. *)
LEMMA OthersStay ==
  ASSUME NEW f \in Seq(Lines), NEW k \in Nat, NEW c, NEW d, NEW name, f[k + 1].name # name,
         Entries(d, name) = Entries(c, name)
  PROVE  /\ ManyOK(c, f, k, name) => ManyOK(d, f, k + 1, name)
         /\ OneOK(c, f, k, name) /\ Once(d, name) => OneOK(d, f, k + 1, name)
  <1>1. Seen(f, k + 1, name) = Seen(f, k, name)
    BY SeenNext, Zenon
  <1>2. ManyOK(c, f, k, name) => ManyOK(d, f, k + 1, name)
    BY <1>1 DEF ManyOK
  <1>3. OneOK(c, f, k, name) /\ Once(d, name) => OneOK(d, f, k + 1, name)
    BY <1>1 DEF OneOK
  <1> QED
    BY <1>2, <1>3

LEMMA ReadMultivalue ==
  ASSUME NEW f \in Seq(Lines), NEW k \in Nat, NEW c, ReadOK(c, f, k),
         Item(f[k + 1], FALSE) \in Items, f[k + 1].name \in Multivalues
  PROVE  ReadOK(record_config_item(c, f[k + 1]), f, k + 1)
  <1>1. PICK line : line = f[k + 1]
    OBVIOUS
  <1>2. PICK x : x = Item(line, FALSE)
    OBVIOUS
  <1>3. /\ line.name \in Multivalues /\ Item(line, FALSE) \in Items
        /\ x.name = line.name /\ x.value = line.value /\ x.is_default = FALSE
    BY <1>1, <1>2 DEF Item
  <1>4. c \in Seq(Items)
    BY DEF ReadOK
  <1>5. PICK r : r = RemoveDefaults(c, line.name)
    OBVIOUS
  <1>6. /\ r \in Seq(Items)
        /\ Entries(r, line.name) = {e \in Entries(c, line.name) : ~e.is_default}
        /\ \A n : n # line.name => Entries(r, n) = Entries(c, n)
        /\ \A n \in Valid : Once(c, n) => Once(r, n)
    BY <1>4, <1>5, RemovedEntries
  <1>7. PICK d : d = add_config_item(r, line, FALSE)
    OBVIOUS
  <1>8. /\ d \in Seq(Items) /\ Len(d) = Len(r) + 1 /\ d[1] = x
        /\ Entries(d, line.name) = Entries(r, line.name) \cup {x}
        /\ \A n : n # line.name => Entries(d, n) = Entries(r, n)
        /\ \A n : n # line.name /\ Once(r, n) => Once(d, n)
    <2>1. AddedOK(r, line, d)
      BY <1>3, <1>6, <1>7, Added, Zenon
    <2> QED
      BY <1>2, <2>1 DEF AddedOK
  <1>9. record_config_item(c, line) = d
    BY <1>3, <1>5, <1>7 DEF record_config_item
  <1>10. HeadOK(d)
    <2>1. Len(r) \in Nat
      BY <1>6, LenProperties
    <2> QED
      BY <1>3, <1>8, <2>1 DEF HeadOK
  <1>11. ASSUME NEW name \in Multivalues, name # line.name
         PROVE  ManyOK(d, f, k + 1, name)
    <2>1. ManyOK(c, f, k, name)
      BY DEF ReadOK
    <2>2. Entries(d, name) = Entries(c, name) /\ f[k + 1].name # name
      BY <1>1, <1>6, <1>8, <1>11
    <2> QED
      BY <2>1, <2>2, OthersStay
  <1>12. ASSUME NEW name \in Reasons
         PROVE  OneOK(d, f, k + 1, name)
    <2>1. OneOK(c, f, k, name)
      BY DEF ReadOK
    <2>2. name # line.name /\ name \in Valid
      BY <1>3 DEF Reasons, Multivalues, Valid
    <2>3. Entries(d, name) = Entries(c, name) /\ f[k + 1].name # name
      BY <1>1, <1>6, <1>8, <2>2
    <2>4. Once(d, name)
      BY <1>6, <1>8, <2>1, <2>2 DEF OneOK
    <2> QED
      BY <2>1, <2>3, <2>4, OthersStay
  <1>13. ManyOK(d, f, k + 1, line.name)
    <2>1. Seen(f, k + 1, line.name) = Seen(f, k, line.name) \cup {k + 1}
      BY <1>1, SeenNext, Zenon
    <2>2. ManyOK(c, f, k, line.name)
      BY <1>3 DEF ReadOK
    <2>3. \A e \in Entries(d, line.name) : ~e.is_default
      BY <1>3, <1>6, <1>8
    <2>4. CASE Seen(f, k, line.name) = {}
      <3>1. \A e \in Entries(c, line.name) : e.is_default
        <4>1. \A e : e \in Entries(default_config, line.name) <=>
                  \E i \in 1..Len(default_config) : default_config[i] = e /\ e.name = line.name
          BY DefaultEntries, EntriesMember, Zenon
        <4> QED
          BY <2>2, <2>4, <4>1, DefaultEntries DEF ManyOK
      <3>2. Entries(d, line.name) = {x}
        BY <1>6, <1>8, <3>1
      <3>3. {e.value : e \in Entries(d, line.name)} = {line.value}
        BY <1>3, <3>2
      <3>4. {f[i].value : i \in Seen(f, k + 1, line.name)} = {line.value}
        BY <1>1, <2>1, <2>4
      <3> QED
        BY <2>1, <2>3, <3>3, <3>4 DEF ManyOK
    <2>5. CASE Seen(f, k, line.name) # {}
      <3>1. /\ {e.value : e \in Entries(c, line.name)} = {f[i].value : i \in Seen(f, k, line.name)}
            /\ Entries(r, line.name) = Entries(c, line.name)
        BY <1>6, <2>2, <2>5 DEF ManyOK
      <3>2. {e.value : e \in Entries(d, line.name)} = {e.value : e \in Entries(c, line.name)} \cup {line.value}
        BY <1>3, <1>8, <3>1
      <3>3. {f[i].value : i \in Seen(f, k + 1, line.name)}
              = {f[i].value : i \in Seen(f, k, line.name)} \cup {line.value}
        BY <1>1, <2>1
      <3> QED
        BY <2>1, <2>3, <3>1, <3>2, <3>3 DEF ManyOK
    <2> QED
      BY <2>4, <2>5
  <1>14. ReadOK(d, f, k + 1)
    BY <1>8, <1>10, <1>11, <1>12, <1>13 DEF ReadOK
  <1> QED
    BY <1>1, <1>9, <1>14

(* Options that have one value. *)
LEMMA FindFirst ==
  ASSUME NEW c \in Seq(Items), NEW name
  PROVE  /\ Find(c, name) # 0 => Find(c, name) \in 1..Len(c) /\ c[Find(c, name)].name = name
         /\ Entries(c, name) # {} => Find(c, name) # 0
  <1>1. /\ Places(c, name) = {i \in 1..Len(c) : c[i].name = name}
        /\ Places(c, name) \subseteq Nat
    BY EntriesMember
  <1>2. ASSUME Places(c, name) # {}
        PROVE  Min(Places(c, name)) \in Places(c, name)
    BY <1>1, <1>2, MinOf
  <1>3. Entries(c, name) # {} => Places(c, name) # {}
    BY DEF Entries
  <1>4. 0 \notin Places(c, name)
    BY <1>1
  <1> QED
    BY <1>1, <1>2, <1>3, <1>4 DEF Find

LEMMA ReadSingle ==
  ASSUME NEW f \in Seq(Lines), NEW k \in Nat, NEW c, ReadOK(c, f, k),
         Item(f[k + 1], FALSE) \in Items, f[k + 1].name \notin Multivalues
  PROVE  ReadOK(record_config_item(c, f[k + 1]), f, k + 1)
  <1>1. PICK line : line = f[k + 1]
    OBVIOUS
  <1>2. PICK d : d = record_config_item(c, line)
    OBVIOUS
  <1>3. line.name \notin Multivalues /\ Item(line, FALSE) \in Items /\ c \in Seq(Items)
    BY <1>1 DEF ReadOK
  <1>4. PICK p : p = Find(c, line.name)
    OBVIOUS
  <1>5. /\ p # 0 => p \in 1..Len(c) /\ c[p].name = line.name
        /\ Entries(c, line.name) # {} => p # 0
    BY <1>3, <1>4, FindFirst, Zenon
  <1>6. /\ p # 0 => d = [c EXCEPT ![p].value = line.value]
        /\ p = 0 => d = add_config_item(c, line, FALSE)
    BY <1>2, <1>3, <1>4 DEF record_config_item
  <1>7. /\ d \in Seq(Items)
        /\ HeadOK(d)
        /\ \A n : n # line.name => Entries(d, n) = Entries(c, n)
        /\ \A n : n # line.name /\ Once(c, n) => Once(d, n)
    <2>1. CASE p # 0
      <3>1. p \in 1..Len(c) /\ c[p].name = line.name
        BY <1>5, <2>1
      <3>2. /\ d \in Seq(Items) /\ Len(d) = Len(c)
            /\ \A i \in 1..Len(c) : d[i].name = c[i].name /\ d[i].is_default = c[i].is_default
            /\ \A n : n # line.name => Entries(d, n) = Entries(c, n)
            /\ \A n : Once(c, n) => Once(d, n)
        <4>1. ReplacedOK(c, line, p, d)
          BY <1>3, <1>6, <2>1, <3>1, Replaced, Zenon
        <4> QED
          BY <4>1 DEF ReplacedOK
      <3>3. HeadOK(d)
        BY <1>3, <3>2, LenProperties DEF HeadOK, ReadOK
      <3> QED
        BY <3>2, <3>3
    <2>2. CASE p = 0
      <3>1. /\ d \in Seq(Items) /\ Len(d) = Len(c) + 1 /\ d[1] = Item(line, FALSE)
            /\ \A n : n # line.name => Entries(d, n) = Entries(c, n)
            /\ \A n : n # line.name /\ Once(c, n) => Once(d, n)
        <4>1. AddedOK(c, line, d)
          BY <1>3, <1>6, <2>2, Added, Zenon
        <4> QED
          BY <4>1 DEF AddedOK
      <3>2. HeadOK(d)
        BY <1>3, <3>1, LenProperties DEF HeadOK, Item
      <3> QED
        BY <3>1, <3>2
    <2> QED
      BY <2>1, <2>2
  <1>8. ASSUME NEW name \in Multivalues
        PROVE  ManyOK(d, f, k + 1, name)
    <2>1. ManyOK(c, f, k, name) /\ name # line.name
      BY <1>3 DEF ReadOK
    <2>2. Entries(d, name) = Entries(c, name) /\ f[k + 1].name # name
      BY <1>1, <1>7, <2>1
    <2> QED
      BY <2>1, <2>2, OthersStay
  <1>9. ASSUME NEW name \in Reasons
        PROVE  OneOK(d, f, k + 1, name)
    <2>1. OneOK(c, f, k, name)
      BY DEF ReadOK
    <2>2. CASE name # line.name
      <3>1. Entries(d, name) = Entries(c, name) /\ f[k + 1].name # name /\ Once(d, name)
        BY <1>1, <1>7, <2>1, <2>2 DEF OneOK
      <3> QED
        BY <2>1, <3>1, OthersStay
    <2>3. CASE name = line.name
      <3>1. p # 0 /\ p \in 1..Len(c) /\ c[p].name = line.name
        BY <1>5, <2>1, <2>3 DEF OneOK
      <3>2. /\ d \in Seq(Items) /\ Len(d) = Len(c)
            /\ \A i \in 1..Len(c) : d[i].name = c[i].name
            /\ d[p].value = line.value
            /\ \A n : Once(c, n) => Once(d, n)
        <4>1. ReplacedOK(c, line, p, d)
          BY <1>3, <1>6, <3>1, Replaced, Zenon
        <4> QED
          BY <4>1 DEF ReplacedOK
      <3>3. d[p] \in Entries(d, name)
        <4>1. \A e : e \in Entries(d, name) <=> \E i \in 1..Len(d) : d[i] = e /\ e.name = name
          BY <3>2, EntriesMember, Zenon
        <4> QED
          BY <2>3, <3>1, <3>2, <4>1
      <3>4. /\ Seen(f, k + 1, name) = Seen(f, k, name) \cup {k + 1}
            /\ Seen(f, k, name) \subseteq 1..k
        BY <1>1, <2>3, SeenNext
      <3>5. ASSUME NEW j \in Seen(f, k + 1, name), \A h \in Seen(f, k + 1, name) : h <= j
            PROVE  d[p].value = f[j].value
        <4>1. k + 1 <= j /\ j \in 1..(k + 1)
          BY <3>4, <3>5
        <4>2. j = k + 1
          BY <4>1
        <4> QED
          BY <1>1, <3>2, <4>2
      <3>6. Once(d, name)
        BY <2>1, <3>2 DEF OneOK
      <3> QED
        BY <3>3, <3>4, <3>5, <3>6 DEF OneOK
    <2> QED
      BY <2>2, <2>3
  <1>10. ReadOK(d, f, k + 1)
    BY <1>7, <1>8, <1>9 DEF ReadOK
  <1> QED
    BY <1>1, <1>2, <1>10

(* A line of a file without errors. *)
LEMMA ReadLine ==
  ASSUME NEW f \in ConfFiles, f \in Seq(Lines), Readable(f), NEW k \in 0..(Len(f) - 1),
         NEW c, ReadOK(c, f, k)
  PROVE  /\ f[k + 1] = Blank => ReadOK(c, f, k + 1)
         /\ f[k + 1] # Blank => ReadOK(record_config_item(c, f[k + 1]), f, k + 1)
  <1>1. Len(f) \in Nat /\ DOMAIN f = 1..Len(f) /\ k + 1 \in 1..Len(f)
    BY LenProperties
  <1>2. f[k + 1] \in Lines
    BY <1>1, ElementOfSeq
  <1>3. ASSUME f[k + 1] = Blank
        PROVE  ReadOK(c, f, k + 1)
    <2>1. f[k + 1].name = ""
      <3>1. Blank.name = ""
        BY DEF Blank, Line
      <3> QED
        BY <1>3, <3>1, Zenon
    <2>2. \A name \in Multivalues \cup Reasons : f[k + 1].name # name
      BY <2>1 DEF Multivalues, Reasons
    <2>3. ASSUME NEW name \in Multivalues
          PROVE  ManyOK(c, f, k + 1, name)
      <3>1. ManyOK(c, f, k, name) /\ f[k + 1].name # name /\ k \in Nat
        BY <2>2 DEF ReadOK
      <3> QED
        BY <3>1, OthersStay
    <2>4. ASSUME NEW name \in Reasons
          PROVE  OneOK(c, f, k + 1, name)
      <3>1. OneOK(c, f, k, name) /\ Once(c, name) /\ f[k + 1].name # name /\ k \in Nat
        BY <2>2 DEF ReadOK, OneOK
      <3> QED
        BY <3>1, OthersStay
    <2> QED
      BY <2>3, <2>4 DEF ReadOK
  <1>4. ASSUME f[k + 1] # Blank
        PROVE  ReadOK(record_config_item(c, f[k + 1]), f, k + 1)
    <2>1. Accepts(f[k + 1])
      BY <1>1, <1>4 DEF Readable
    <2>2. f[k + 1].value \in Texts
      <3>1. f[k + 1].value \in LineValues(f)
        BY <1>1 DEF LineValues
      <3> QED
        BY <3>1 DEF Texts
    <2>3. Item(f[k + 1], FALSE) \in Items
      BY <1>2, <2>1, <2>2 DEF Item, Items, Accepts, Lines
    <2>4. k \in Nat
      OBVIOUS
    <2>5. CASE f[k + 1].name \in Multivalues
      BY <2>3, <2>4, <2>5, ReadMultivalue
    <2>6. CASE f[k + 1].name \notin Multivalues
      BY <2>3, <2>4, <2>6, ReadSingle
    <2> QED
      BY <2>5, <2>6
  <1> QED
    BY <1>3, <1>4

(* The loop of read_config() over the lines, as a function. *)
ReadStep(g, config, f, i) ==
    IF i = 0 THEN config
    ELSE IF f[i] = Blank THEN g[i - 1]
    ELSE CHOOSE c \in {record_config_item(b, f[i]) : b \in {g[i - 1]}} : TRUE

Reads(g, config, f, n) == g = [i \in 0..n |-> ReadStep(g, config, f, i)]

LEMMA ReadExists ==
  ASSUME NEW config, NEW f, Len(f) \in Nat
  PROVE  \E g : Reads(g, config, f, Len(f)) /\ read_config(config, f) = g[Len(f)]
  <1> DEFINE T == {n \in Nat : \E g : Reads(g, config, f, n)}
  <1>1. 0 \in T
    <2>1. PICK g : g = [i \in 0..0 |-> config]
      OBVIOUS
    <2>2. Reads(g, config, f, 0)
      BY <2>1 DEF Reads, ReadStep
    <2> QED
      BY <2>2
  <1>2. ASSUME NEW n \in Nat, n \in T
        PROVE  n + 1 \in T
    <2>1. PICK g : Reads(g, config, f, n)
      BY <1>2
    <2>2. PICK h : h = [i \in 0..(n + 1) |-> IF i = n + 1 THEN ReadStep(g, config, f, i) ELSE g[i]]
      OBVIOUS
    <2>3. \A i \in 0..n : h[i] = g[i]
      BY <2>2
    <2>4. ASSUME NEW i \in 0..(n + 1)
          PROVE  h[i] = ReadStep(h, config, f, i)
      <3>1. CASE i = 0
        BY <2>1, <2>3, <3>1 DEF Reads, ReadStep
      <3>2. CASE i \in 1..(n + 1)
        <4>1. i - 1 \in 0..n /\ h[i - 1] = g[i - 1]
          BY <2>3, <3>2
        <4>2. ReadStep(h, config, f, i) = ReadStep(g, config, f, i)
          BY <4>1 DEF ReadStep
        <4>3. h[i] = ReadStep(g, config, f, i)
          BY <2>1, <2>2, <3>2 DEF Reads
        <4> QED
          BY <4>2, <4>3
      <3> QED
        BY <3>1, <3>2
    <2>5. Reads(h, config, f, n + 1)
      BY <2>2, <2>4 DEF Reads
    <2> QED
      BY <2>5
  <1> HIDE DEF T
  <1>3. Len(f) \in T
    BY <1>1, <1>2, Induction
  <1>4. \E g : Reads(g, config, f, Len(f))
    BY <1>3 DEF T
  <1> QED
    BY <1>4 DEF read_config, Reads, ReadStep

LEMMA ReadStepIs ==
  ASSUME NEW g, NEW config, NEW f, NEW i \in Nat \ {0}
  PROVE  /\ f[i] = Blank => ReadStep(g, config, f, i) = g[i - 1]
         /\ f[i] # Blank => ReadStep(g, config, f, i) = record_config_item(g[i - 1], f[i])
  <1>1. PICK y : y = g[i - 1]
    OBVIOUS
  <1>2. PICK z : z = record_config_item(y, f[i])
    OBVIOUS
  <1>3. {record_config_item(b, f[i]) : b \in {y}} = {z}
    BY <1>2
  <1>4. (CHOOSE c \in {z} : TRUE) = z
    OBVIOUS
  <1>5. (CHOOSE c \in {record_config_item(b, f[i]) : b \in {g[i - 1]}} : TRUE) = z
    BY <1>1, <1>3, <1>4, Zenon
  <1> QED
    BY <1>1, <1>2, <1>5, Zenon DEF ReadStep

LEMMA ReadConfig ==
  ASSUME NEW f \in ConfFiles, Readable(f)
  PROVE  ReadOK(read_config(default_config, f), f, Len(f))
  <1>1. f \in Seq(Lines) /\ Len(f) \in Nat
    BY DaemonAssumption, LenProperties DEF DaemonAssumption
  <1>2. PICK g : Reads(g, default_config, f, Len(f)) /\ read_config(default_config, f) = g[Len(f)]
    BY <1>1, ReadExists
  <1>3. \A i \in 0..Len(f) : g[i] = ReadStep(g, default_config, f, i)
    BY <1>2 DEF Reads
  <1> DEFINE T == {n \in Nat : n <= Len(f) => ReadOK(g[n], f, n)}
  <1>4. 0 \in T
    <2>1. g[0] = default_config
      BY <1>1, <1>3 DEF ReadStep
    <2> QED
      BY <1>1, <2>1, ReadNothing
  <1>5. ASSUME NEW n \in Nat, n \in T
        PROVE  n + 1 \in T
    <2> SUFFICES ASSUME n + 1 <= Len(f)
                 PROVE  ReadOK(g[n + 1], f, n + 1)
      OBVIOUS
    <2>1. ReadOK(g[n], f, n) /\ n \in 0..(Len(f) - 1)
      BY <1>1, <1>5
    <2>2. g[n + 1] = ReadStep(g, default_config, f, n + 1) /\ n + 1 \in Nat \ {0} /\ (n + 1) - 1 = n
      BY <1>3, <2>1
    <2>3. /\ f[n + 1] = Blank => g[n + 1] = g[n]
          /\ f[n + 1] # Blank => g[n + 1] = record_config_item(g[n], f[n + 1])
      <3>1. PICK i \in Nat \ {0} : i = n + 1
        BY <2>2
      <3>2. /\ f[i] = Blank => ReadStep(g, default_config, f, i) = g[i - 1]
            /\ f[i] # Blank => ReadStep(g, default_config, f, i) = record_config_item(g[i - 1], f[i])
        BY ReadStepIs
      <3>3. g[i] = ReadStep(g, default_config, f, i) /\ i - 1 = n
        BY <2>2, <3>1
      <3> QED
        BY <3>1, <3>2, <3>3
    <2> QED
      BY <1>1, <2>1, <2>3, ReadLine, Zenon
  <1> HIDE DEF T
  <1>6. Len(f) \in T
    BY <1>1, <1>4, <1>5, Induction
  <1> QED
    BY <1>1, <1>2, <1>6 DEF T

(* What configure_grossd() and reconfigure_grossd() take from the list of  *)
(* a file without errors is what the file says.                            *)
LEMMA NoNulls == NULL \notin Texts
  <1>1. \A f \in ConfFiles : NULL \notin LineValues(f)
    <2> SUFFICES ASSUME NEW f \in ConfFiles, NEW i \in DOMAIN f, f[i].value = NULL
                 PROVE  FALSE
      BY DEF LineValues
    <2>1. f \in Seq(Lines)
      BY DaemonAssumption DEF DaemonAssumption
    <2>2. i \in 1..Len(f)
      BY <2>1, LenProperties
    <2>3. f[i] \in Lines
      BY <2>1, <2>2, ElementOfSeq
    <2> QED
      BY <2>3 DEF Lines
  <1>2. NULL \notin LineValues(Defaults)
    <2>1. \A i \in DOMAIN Defaults : Defaults[i].value # NULL
      BY DEF Defaults, Line, NULL
    <2> QED
      BY <2>1 DEF LineValues
  <1> QED
    BY <1>1, <1>2 DEF Texts

LEMMA ReadAll ==
  ASSUME NEW f \in ConfFiles, NEW c, ReadOK(c, f, Len(f)), NEW name \in Multivalues
  PROVE  Values(c, name) = WrittenAll(f, name) /\ Values(c, name) \subseteq Texts
  <1>1. f \in Seq(Lines) /\ DOMAIN f = 1..Len(f)
    BY DaemonAssumption, LenProperties DEF DaemonAssumption
  <1>2. Places(f, name) = Seen(f, Len(f), name)
    BY <1>1 DEF Places, Seen
  <1>3. c \in Seq(Items) /\ ManyOK(c, f, Len(f), name)
    BY DEF ReadOK
  <1>4. \A s : Values(s, name) = {e.value : e \in Entries(s, name)}
    BY DEF Values, Entries
  <1>5. Values(c, name) \subseteq Texts
    <2>1. \A e \in Entries(c, name) : e.value \in Texts
      <3>1. Entries(c, name) \subseteq Items
        BY <1>3, EntriesMember, Zenon
      <3> QED
        BY <3>1 DEF Items
    <2> QED
      BY <1>4, <2>1
  <1>6. CASE Seen(f, Len(f), name) # {}
    <2>1. Values(c, name) = {f[i].value : i \in Seen(f, Len(f), name)}
      BY <1>3, <1>4, <1>6 DEF ManyOK
    <2> QED
      BY <1>2, <1>5, <1>6, <2>1 DEF WrittenAll, Values
  <1>7. CASE Seen(f, Len(f), name) = {}
    <2>1. Values(c, name) = Values(default_config, name)
      BY <1>3, <1>4, <1>7 DEF ManyOK
    <2>2. Values(default_config, name) = Values(Defaults, name)
      <3>1. Len(Defaults) = 5 /\ DOMAIN Defaults = 1..5
        BY DEF Defaults
      <3>2. default_config = [i \in 1..5 |-> Item(Defaults[6 - i], TRUE)]
        BY <3>1 DEF default_config
      <3>3. \A i \in 1..5 : /\ 6 - i \in 1..5 /\ 6 - (6 - i) = i
                            /\ default_config[i].name = Defaults[6 - i].name
                            /\ default_config[i].value = Defaults[6 - i].value
        BY <3>2 DEF Item
      <3>4. DOMAIN default_config = 1..5
        BY <3>2
      <3>5. \A v : v \in Values(default_config, name) <=>
                      \E i \in 1..5 : default_config[i].name = name /\ default_config[i].value = v
        BY <3>4 DEF Values, Places
      <3>6. \A v : v \in Values(Defaults, name) <=>
                      \E i \in 1..5 : Defaults[i].name = name /\ Defaults[i].value = v
        BY <3>1 DEF Values, Places
      <3>7. \A v : v \in Values(default_config, name) <=> v \in Values(Defaults, name)
        BY <3>3, <3>5, <3>6
      <3> QED
        BY <3>7, Zenon
    <2> QED
      BY <1>2, <1>5, <1>7, <2>1, <2>2 DEF WrittenAll
  <1> QED
    BY <1>6, <1>7

LEMMA ReadReason ==
  ASSUME NEW f \in ConfFiles, NEW c, ReadOK(c, f, Len(f)), NEW name \in Reasons
  PROVE  gconf(c, name) = Written(f, name) /\ gconf(c, name) \in Texts
  <1>1. f \in Seq(Lines) /\ DOMAIN f = 1..Len(f) /\ Len(f) \in Nat
    BY DaemonAssumption, LenProperties DEF DaemonAssumption
  <1>2. Places(f, name) = Seen(f, Len(f), name)
    BY <1>1 DEF Places, Seen
  <1>3. c \in Seq(Items) /\ Once(c, name)
    BY DEF ReadOK, OneOK
  <1>4. PICK e \in Entries(c, name) :
            /\ Seen(f, Len(f), name) = {} => e \in Entries(default_config, name)
            /\ \A j \in Seen(f, Len(f), name) :
                  (\A h \in Seen(f, Len(f), name) : h <= j) => e.value = f[j].value
    BY DEF ReadOK, OneOK
  <1>5. PICK p : p = Find(c, name)
    OBVIOUS
  <1>6. p # 0 /\ p \in 1..Len(c) /\ c[p].name = name
    BY <1>3, <1>4, <1>5, FindFirst, Zenon
  <1>7. c[p] = e
    <2>1. PICK q \in 1..Len(c) : c[q] = e /\ e.name = name
      BY <1>3, <1>4, EntriesMember
    <2> QED
      BY <1>3, <1>6, <2>1 DEF Once
  <1>8. gconf(c, name) = e.value
    BY <1>5, <1>6, <1>7 DEF gconf
  <1>9. e.value \in Texts
    <2>1. Entries(c, name) \subseteq Items
      BY <1>3, EntriesMember, Zenon
    <2> QED
      BY <1>4, <2>1 DEF Items
  <1>10. CASE Seen(f, Len(f), name) # {}
    <2>1. PICK S : S = Seen(f, Len(f), name)
      OBVIOUS
    <2>2. S \subseteq 0..Len(f) /\ S # {}
      BY <1>1, <1>10, <2>1 DEF Seen
    <2>3. Max(S) \in S /\ \A y \in S : y <= Max(S)
      BY <1>1, <2>2, MaxOf
    <2>4. e.value = f[Max(S)].value
      BY <1>4, <2>1, <2>3
    <2> QED
      BY <1>2, <1>8, <1>9, <1>10, <2>1, <2>4 DEF Written
  <1>11. CASE Seen(f, Len(f), name) = {}
    <2>1. PICK q \in 1..Len(default_config) : default_config[q] = e /\ e.name = name
      <3>1. \A x : x \in Entries(default_config, name) <=>
                \E i \in 1..Len(default_config) : default_config[i] = x /\ x.name = name
        BY DefaultEntries, EntriesMember, Zenon
      <3> QED
        BY <1>4, <1>11, <3>1
    <2>2. /\ name = "grey_reason" => e.value = "later"
          /\ name = "block_reason" => e.value = "bad"
      BY <2>1, DefaultEntries
    <2>3. DOMAIN Defaults = {1, 2, 3, 4, 5}
      BY DEF Defaults
    <2>4. /\ Places(Defaults, "grey_reason") = {4} /\ Places(Defaults, "block_reason") = {5}
          /\ Defaults[4].value = "later" /\ Defaults[5].value = "bad"
      BY <2>3 DEF Places, Defaults, Line
    <2>5. Max({4}) = 4 /\ Max({5}) = 5
      BY DEF Max
    <2> QED
      BY <1>2, <1>8, <1>9, <1>11, <2>2, <2>4, <2>5 DEF Written, Reasons
  <1> QED
    BY <1>10, <1>11

LEMMA ReadStatType ==
  ASSUME NEW f \in ConfFiles, NEW c, ReadOK(c, f, Len(f))
  PROVE  /\ statlevel(c) = {"full"} \/ statlevel(c) \subseteq WrittenAll(f, "stat_type")
         /\ statlevel(c) \subseteq Texts
  <1>1. Values(c, "stat_type") = WrittenAll(f, "stat_type") /\ Values(c, "stat_type") \subseteq Texts
    BY ReadAll DEF Multivalues
  <1>2. PICK stops : stops = {i \in Places(c, "stat_type") : c[i].value \in {"full", "none"}}
    OBVIOUS
  <1>3. CASE stops = {}
    <2>1. statlevel(c) = Values(c, "stat_type") \cap {"status", "since_startup", "delay"}
      BY <1>2, <1>3 DEF statlevel
    <2> QED
      BY <1>1, <2>1
  <1>4. CASE stops # {}
    <2>1. stops \subseteq Places(c, "stat_type") /\ stops \subseteq Nat
      BY <1>2, EntriesMember DEF ReadOK
    <2>2. PICK m : m = Min(stops)
      OBVIOUS
    <2>3. m \in stops
      BY <1>4, <2>1, <2>2, MinOf
    <2>4. c[m].value \in {"full", "none"} /\ c[m].value \in Values(c, "stat_type")
      BY <1>2, <2>1, <2>3 DEF Values
    <2>5. statlevel(c) = {c[m].value} \ {"none"}
      BY <1>2, <1>4, <2>2 DEF statlevel
    <2> QED
      BY <1>1, <2>4, <2>5
  <1> QED
    BY <1>3, <1>4

LEMMA ConfigIsRead ==
  ASSUME NEW f \in ReadableFiles
  PROVE  ReadOK(ConfigOf(f), f, Len(f))
  <1>1. f \in ConfFiles /\ Readable(f)
    BY DEF ReadableFiles
  <1>2. PICK x : x = <<f, read_config(default_config, f)>>
    OBVIOUS
  <1>3. x \in Configs /\ x[1] = f
    BY <1>1, <1>2 DEF Configs
  <1>4. PICK y : y = CHOOSE z \in Configs : z[1] = f
    OBVIOUS
  <1>5. y \in Configs /\ y[1] = f
    BY <1>3, <1>4
  <1>6. y[2] = read_config(default_config, f)
    BY <1>5 DEF Configs
  <1>7. ConfigOf(f) = read_config(default_config, f)
    BY <1>4, <1>6 DEF ConfigOf
  <1> QED
    BY <1>1, <1>7, ReadConfig

----------------------------------------------------------------------------
(* The orders in which the pointers of a ring are stored. *)

LEMMA MaxSizeIs == MaxSize \in Sizes /\ \A n \in Sizes : n <= MaxSize
  <1>1. /\ Sizes \subseteq Nat /\ Sizes # {} /\ IsFiniteSet(Sizes)
    BY StateFileAssumption DEF StateFileAssumption
  <1>2. PICK k \in Nat : ExistsSurjection(1..k, Sizes)
    BY <1>1, FS_NatSurjection
  <1>3. PICK g : g \in Surjection(1..k, Sizes)
    BY <1>2 DEF ExistsSurjection
  <1>4. g \in [1..k -> Sizes] /\ \A s \in Sizes : \E i \in 1..k : g[i] = s
    BY <1>3 DEF Surjection
  <1> DEFINE T == {m \in Nat : m <= k => \E b \in Nat : \A i \in 1..m : g[i] <= b}
  <1>5. 0 \in T
    OBVIOUS
  <1>6. ASSUME NEW m \in Nat, m \in T
        PROVE  m + 1 \in T
    <2> SUFFICES ASSUME m + 1 <= k PROVE \E b \in Nat : \A i \in 1..(m + 1) : g[i] <= b
      OBVIOUS
    <2>1. PICK b \in Nat : \A i \in 1..m : g[i] <= b
      BY <1>6
    <2>10. \A i \in 1..k : g[i] \in Nat
      BY <1>1, <1>4
    <2>11. m + 1 \in 1..k /\ \A i \in 1..m : i \in 1..k
      OBVIOUS
    <2>2. PICK x \in Nat : g[m + 1] = x
      BY <2>10, <2>11
    <2>3. \A i \in 1..m : g[i] \in Nat
      BY <2>10, <2>11
    <2>4. \A i \in 1..(m + 1) : i \in 1..m \/ i = m + 1
      OBVIOUS
    <2>5. \A i \in 1..(m + 1) : g[i] <= b + x
      BY <2>1, <2>2, <2>3, <2>4
    <2> QED
      BY <2>5
  <1> HIDE DEF T
  <1>7. k \in T
    BY <1>5, <1>6, Induction
  <1>8. PICK b \in Nat : \A i \in 1..k : g[i] <= b
    BY <1>7 DEF T
  <1>9. Sizes \subseteq 0..b
    BY <1>1, <1>4, <1>8
  <1>10. \E x \in Sizes : \A y \in Sizes : x >= y
    BY <1>1, <1>9, Greatest
  <1> QED
    BY <1>1, <1>10 DEF MaxSize

LEMMA PtrsGrow ==
  ASSUME NEW m \in Nat, NEW n \in Nat, m <= n
  PROVE  Ptrs(m) \subseteq Ptrs(n)
  <1>1. Filters(m) \subseteq Filters(n)
    BY DEF Filters
  <1> QED
    BY <1>1 DEF Ptrs

Kinds == {"group", "filter_group", "aggregate", "aggregate_bits"}

LEMMA PtrsAre ==
  ASSUME NEW n
  PROVE  \A p : p \in Ptrs(n) <=> \/ \E kind \in Kinds : p = Ptr(kind, 0)
                                  \/ \E i \in Filters(n) : p = Ptr("filter", i) \/ p = Ptr("bits", i)
  BY DEF Ptrs, Kinds

InitPlace(n, i) ==
    IF i = 1 THEN Ptr("group", 0)
    ELSE IF i = 2 THEN Ptr("filter_group", 0)
    ELSE IF i = 3 THEN Ptr("aggregate", 0)
    ELSE IF i <= 3 + n THEN Ptr("filter", i - 4)
    ELSE IF i = 4 + n THEN Ptr("aggregate_bits", 0)
    ELSE Ptr("bits", i - (5 + n))

Joins(s, t, m, k, r, S) ==
    /\ r \in Seq(S) /\ Len(r) = m + k
    /\ \A i \in 1..(m + k) : r[i] = IF i <= m THEN s[i] ELSE t[i - m]

LEMMA Concatenation ==
  ASSUME NEW S, NEW s \in Seq(S), NEW t \in Seq(S)
  PROVE  Joins(s, t, Len(s), Len(t), s \o t, S)
  BY ConcatProperties DEF Joins

LEMMA InitOrderIs ==
  ASSUME NEW n \in Nat
  PROVE  /\ InitOrder(n) \in Seq(Ptrs(n))
         /\ Len(InitOrder(n)) = 4 + 2 * n
         /\ \A i \in 1..(4 + 2 * n) : InitOrder(n)[i] = InitPlace(n, i)
         /\ \A p \in Ptrs(n) : \E i \in 1..(4 + 2 * n) : InitOrder(n)[i] = p
  <1>1. PICK U : U = Ptrs(n)
    OBVIOUS
  <1>2. /\ \A kind \in Kinds : Ptr(kind, 0) \in U
        /\ \A i \in 0..(n - 1) : Ptr("filter", i) \in U /\ Ptr("bits", i) \in U
    BY <1>1 DEF Ptrs, Kinds, Filters
  <1>3. PICK a : a = << Ptr("group", 0), Ptr("filter_group", 0), Ptr("aggregate", 0) >>
    OBVIOUS
  <1>4. PICK b : b = [i \in 1..n |-> Ptr("filter", i - 1)]
    OBVIOUS
  <1>5. PICK c : c = << Ptr("aggregate_bits", 0) >>
    OBVIOUS
  <1>6. PICK d : d = [i \in 1..n |-> Ptr("bits", i - 1)]
    OBVIOUS
  <1>7. /\ a \in Seq(U) /\ Len(a) = 3 /\ a[1] = Ptr("group", 0)
        /\ a[2] = Ptr("filter_group", 0) /\ a[3] = Ptr("aggregate", 0)
    BY <1>2, <1>3 DEF Kinds
  <1>8. b \in Seq(U) /\ Len(b) = n
    BY <1>2, <1>4
  <1>9. c \in Seq(U) /\ Len(c) = 1 /\ c[1] = Ptr("aggregate_bits", 0)
    BY <1>2, <1>5 DEF Kinds
  <1>10. d \in Seq(U) /\ Len(d) = n
    BY <1>2, <1>6
  <1>11. PICK ab : ab = a \o b
    OBVIOUS
  <1>12. /\ ab \in Seq(U) /\ Len(ab) = 3 + n
         /\ \A i \in 1..(3 + n) : ab[i] = IF i <= 3 THEN a[i] ELSE b[i - 3]
    <2>1. Joins(a, b, 3, n, ab, U)
      BY <1>7, <1>8, <1>11, Concatenation, Zenon
    <2> QED
      BY <2>1 DEF Joins
  <1>13. PICK abc : abc = ab \o c
    OBVIOUS
  <1>14. /\ abc \in Seq(U) /\ Len(abc) = 4 + n
         /\ \A i \in 1..(4 + n) : abc[i] = IF i <= 3 + n THEN ab[i] ELSE c[i - (3 + n)]
    <2>1. Joins(ab, c, 3 + n, 1, abc, U)
      BY <1>9, <1>12, <1>13, Concatenation, Zenon
    <2> QED
      BY <2>1 DEF Joins
  <1>15. PICK o : o = abc \o d
    OBVIOUS
  <1>16. /\ o \in Seq(U) /\ Len(o) = 4 + 2 * n
         /\ \A i \in 1..(4 + 2 * n) : o[i] = IF i <= 4 + n THEN abc[i] ELSE d[i - (4 + n)]
    <2>1. Joins(abc, d, 4 + n, n, o, U)
      BY <1>10, <1>14, <1>15, Concatenation, Zenon
    <2>2. (4 + n) + n = 4 + 2 * n
      OBVIOUS
    <2> QED
      BY <2>1, <2>2 DEF Joins
  <1>17. InitOrder(n) = o
    BY <1>3, <1>4, <1>5, <1>6, <1>11, <1>13, <1>15 DEF InitOrder
  <1>18. ASSUME NEW i \in 1..(4 + 2 * n)
         PROVE  o[i] = InitPlace(n, i)
    <2>1. CASE i <= 3
      <3>1. i \in {1, 2, 3} /\ i \in 1..(3 + n) /\ i \in 1..(4 + n) /\ i <= 3 + n /\ i <= 4 + n
        BY <2>1
      <3>2. o[i] = a[i]
        <4>1. o[i] = abc[i]
          BY <1>16, <3>1
        <4>2. abc[i] = ab[i]
          BY <1>14, <3>1
        <4>3. ab[i] = a[i]
          BY <1>12, <2>1, <3>1
        <4> QED
          BY <4>1, <4>2, <4>3
      <3> QED
        BY <1>7, <3>1, <3>2 DEF InitPlace
    <2>2. CASE i > 3 /\ i <= 3 + n
      <3>1. o[i] = b[i - 3] /\ i - 3 \in 1..n /\ (i - 3) - 1 = i - 4
        BY <1>12, <1>14, <1>16, <2>2
      <3> QED
        BY <1>4, <2>2, <3>1 DEF InitPlace
    <2>3. CASE i = 4 + n
      <3>1. o[i] = c[1]
        BY <1>14, <1>16, <2>3
      <3> QED
        BY <1>9, <2>3, <3>1 DEF InitPlace
    <2>4. CASE i > 4 + n
      <3>1. i - (4 + n) \in 1..n /\ (i - (4 + n)) - 1 = i - (5 + n)
        BY <2>4
      <3>2. d[i - (4 + n)] = Ptr("bits", i - (5 + n))
        BY <1>6, <3>1
      <3>3. o[i] = d[i - (4 + n)]
        BY <1>16, <2>4
      <3>4. InitPlace(n, i) = Ptr("bits", i - (5 + n))
        BY <2>4 DEF InitPlace
      <3> QED
        BY <3>2, <3>3, <3>4
    <2> QED
      BY <2>1, <2>2, <2>3, <2>4
  <1>19. ASSUME NEW p \in Ptrs(n)
         PROVE  \E i \in 1..(4 + 2 * n) : InitPlace(n, i) = p
    <2>1. CASE \E kind \in Kinds : p = Ptr(kind, 0)
      <3>1. /\ InitPlace(n, 1) = Ptr("group", 0) /\ InitPlace(n, 2) = Ptr("filter_group", 0)
            /\ InitPlace(n, 3) = Ptr("aggregate", 0) /\ InitPlace(n, 4 + n) = Ptr("aggregate_bits", 0)
        BY DEF InitPlace
      <3>2. 1 \in 1..(4 + 2 * n) /\ 2 \in 1..(4 + 2 * n) /\ 3 \in 1..(4 + 2 * n) /\ 4 + n \in 1..(4 + 2 * n)
        OBVIOUS
      <3> QED
        BY <2>1, <3>1, <3>2 DEF Kinds
    <2>2. ASSUME NEW j \in 0..(n - 1), p = Ptr("filter", j)
          PROVE  \E i \in 1..(4 + 2 * n) : InitPlace(n, i) = p
      <3>1. 4 + j \in 1..(4 + 2 * n) /\ InitPlace(n, 4 + j) = p
        BY <2>2 DEF InitPlace
      <3> QED
        BY <3>1
    <2>3. ASSUME NEW j \in 0..(n - 1), p = Ptr("bits", j)
          PROVE  \E i \in 1..(4 + 2 * n) : InitPlace(n, i) = p
      <3>1. 5 + n + j \in 1..(4 + 2 * n) /\ InitPlace(n, 5 + n + j) = p
        BY <2>3 DEF InitPlace
      <3> QED
        BY <3>1
    <2> QED
      BY <2>1, <2>2, <2>3, PtrsAre DEF Filters
  <1> QED
    BY <1>1, <1>16, <1>17, <1>18, <1>19

WalkPlace(i) ==
    IF i = 1 THEN Ptr("group", 0)
    ELSE IF i = 2 THEN Ptr("aggregate", 0)
    ELSE IF i = 3 THEN Ptr("aggregate_bits", 0)
    ELSE IF i = 4 THEN Ptr("filter_group", 0)
    ELSE Ptr(IF (i - 4) % 2 = 1 THEN "filter" ELSE "bits", (i - 5) \div 2)

LEMMA Halves ==
  /\ \A j \in Nat : 2 * j + 5 > 4 /\ WalkPlace(2 * j + 5) = Ptr("filter", j)
  /\ \A j \in Nat : 2 * j + 6 > 4 /\ WalkPlace(2 * j + 6) = Ptr("bits", j)
  /\ \A i \in Nat : i > 4 => \E j \in Nat : i = 2 * j + 5 \/ i = 2 * j + 6
  <1>1. ASSUME NEW j \in Nat
        PROVE  WalkPlace(2 * j + 5) = Ptr("filter", j)
    <2>1. ((2 * j + 5) - 4) % 2 = 1 /\ ((2 * j + 5) - 5) \div 2 = j /\ 2 * j + 5 > 4
      OBVIOUS
    <2> QED
      BY <2>1 DEF WalkPlace
  <1>2. ASSUME NEW j \in Nat
        PROVE  WalkPlace(2 * j + 6) = Ptr("bits", j)
    <2>1. ((2 * j + 6) - 4) % 2 = 0 /\ ((2 * j + 6) - 5) \div 2 = j /\ 2 * j + 6 > 4
      OBVIOUS
    <2> QED
      BY <2>1 DEF WalkPlace
  <1>3. ASSUME NEW i \in Nat, i > 4
        PROVE  \E j \in Nat : i = 2 * j + 5 \/ i = 2 * j + 6
    <2>1. (i - 5) \div 2 \in Nat /\ (i = 2 * ((i - 5) \div 2) + 5 \/ i = 2 * ((i - 5) \div 2) + 6)
      BY <1>3
    <2> QED
      BY <2>1
  <1> QED
    BY <1>1, <1>2, <1>3

LEMMA WalkOrderIs ==
  ASSUME NEW n \in Nat
  PROVE  /\ WalkOrder(n) \in Seq(Ptrs(n))
         /\ Len(WalkOrder(n)) = 4 + 2 * n
         /\ \A i \in 1..(4 + 2 * n) : WalkOrder(n)[i] = WalkPlace(i)
  <1>1. PICK U : U = Ptrs(n)
    OBVIOUS
  <1>2. /\ \A kind \in Kinds : Ptr(kind, 0) \in U
        /\ \A i \in 0..(n - 1) : Ptr("filter", i) \in U /\ Ptr("bits", i) \in U
    BY <1>1 DEF Ptrs, Kinds, Filters
  <1>3. PICK a : a = << Ptr("group", 0), Ptr("aggregate", 0), Ptr("aggregate_bits", 0), Ptr("filter_group", 0) >>
    OBVIOUS
  <1>4. PICK b : b = [i \in 1..(2 * n) |-> Ptr(IF i % 2 = 1 THEN "filter" ELSE "bits", (i - 1) \div 2)]
    OBVIOUS
  <1>5. /\ a \in Seq(U) /\ Len(a) = 4 /\ a[1] = Ptr("group", 0) /\ a[2] = Ptr("aggregate", 0)
        /\ a[3] = Ptr("aggregate_bits", 0) /\ a[4] = Ptr("filter_group", 0)
    BY <1>2, <1>3 DEF Kinds
  <1>6. b \in Seq(U) /\ Len(b) = 2 * n
    <2>1. ASSUME NEW i \in 1..(2 * n)
          PROVE  Ptr(IF i % 2 = 1 THEN "filter" ELSE "bits", (i - 1) \div 2) \in U
      <3>1. (i - 1) \div 2 \in 0..(n - 1)
        OBVIOUS
      <3> QED
        BY <1>2, <3>1
    <2>2. b \in [1..(2 * n) -> U]
      BY <1>4, <2>1
    <2>3. b \in Seq(U)
      BY <2>2, SeqDef
    <2>4. Len(b) \in Nat /\ 1..Len(b) = 1..(2 * n)
      BY <1>4, <2>3, LenProperties
    <2> QED
      BY <2>3, <2>4
  <1>7. PICK o : o = a \o b
    OBVIOUS
  <1>8. /\ o \in Seq(U) /\ Len(o) = 4 + 2 * n
        /\ \A i \in 1..(4 + 2 * n) : o[i] = IF i <= 4 THEN a[i] ELSE b[i - 4]
    <2>1. Joins(a, b, 4, 2 * n, o, U)
      BY <1>5, <1>6, <1>7, Concatenation, Zenon
    <2> QED
      BY <2>1 DEF Joins
  <1>9. WalkOrder(n) = o
    BY <1>3, <1>4, <1>7 DEF WalkOrder
  <1>10. ASSUME NEW i \in 1..(4 + 2 * n)
         PROVE  o[i] = WalkPlace(i)
    <2>1. CASE i <= 4
      <3>1. o[i] = a[i] /\ i \in {1, 2, 3, 4}
        BY <1>8, <2>1
      <3> QED
        BY <1>5, <3>1 DEF WalkPlace
    <2>2. CASE i > 4
      <3>1. o[i] = b[i - 4] /\ i - 4 \in 1..(2 * n) /\ (i - 4) - 1 = i - 5
        BY <1>8, <2>2
      <3>2. b[i - 4] = Ptr(IF (i - 4) % 2 = 1 THEN "filter" ELSE "bits", (i - 5) \div 2)
        BY <1>4, <3>1
      <3> QED
        BY <2>2, <3>1, <3>2 DEF WalkPlace
    <2> QED
      BY <2>1, <2>2
  <1> QED
    BY <1>1, <1>8, <1>9, <1>10

(* Every pointer of the ring is moved once, and after the one it is        *)
(* reached through.                                                        *)
LEMMA WalkMovesAll ==
  ASSUME NEW n \in Nat, NEW p \in Ptrs(n)
  PROVE  \E i \in 1..(4 + 2 * n) : WalkPlace(i) = p
  <1>1. CASE \E kind \in Kinds : p = Ptr(kind, 0)
    <2>1. /\ WalkPlace(1) = Ptr("group", 0) /\ WalkPlace(2) = Ptr("aggregate", 0)
          /\ WalkPlace(3) = Ptr("aggregate_bits", 0) /\ WalkPlace(4) = Ptr("filter_group", 0)
      BY DEF WalkPlace
    <2>2. 1 \in 1..(4 + 2 * n) /\ 2 \in 1..(4 + 2 * n) /\ 3 \in 1..(4 + 2 * n) /\ 4 \in 1..(4 + 2 * n)
      OBVIOUS
    <2> QED
      BY <1>1, <2>1, <2>2 DEF Kinds
  <1>2. ASSUME NEW j \in 0..(n - 1), p = Ptr("filter", j)
        PROVE  \E i \in 1..(4 + 2 * n) : WalkPlace(i) = p
    <2>1. 2 * j + 5 \in 1..(4 + 2 * n) /\ j \in Nat
      OBVIOUS
    <2> QED
      BY <1>2, <2>1, Halves
  <1>3. ASSUME NEW j \in 0..(n - 1), p = Ptr("bits", j)
        PROVE  \E i \in 1..(4 + 2 * n) : WalkPlace(i) = p
    <2>1. 2 * j + 6 \in 1..(4 + 2 * n) /\ j \in Nat
      OBVIOUS
    <2> QED
      BY <1>3, <2>1, Halves
  <1> QED
    BY <1>1, <1>2, <1>3, PtrsAre DEF Filters

LEMMA WalkMovesOnce ==
  ASSUME NEW i \in Nat \ {0}, NEW j \in Nat \ {0}, WalkPlace(i) = WalkPlace(j)
  PROVE  i = j
  <1>1. \A k \in {1, 2, 3, 4} : WalkPlace(k)[1] \in Kinds
    BY DEF WalkPlace, Ptr, Kinds
  <1>2. \A k \in Nat : k > 4 => WalkPlace(k)[1] \notin Kinds
    BY DEF WalkPlace, Ptr, Kinds
  <1>3. CASE i <= 4 /\ j <= 4
    <2>1. i \in {1, 2, 3, 4} /\ j \in {1, 2, 3, 4}
      BY <1>3
    <2> QED
      BY <2>1 DEF WalkPlace, Ptr
  <1>4. CASE i > 4 /\ j > 4
    <2>1. PICK a \in Nat : i = 2 * a + 5 \/ i = 2 * a + 6
      BY <1>4, Halves
    <2>2. PICK b \in Nat : j = 2 * b + 5 \/ j = 2 * b + 6
      BY <1>4, Halves
    <2>3. /\ WalkPlace(2 * a + 5) = <<"filter", a>> /\ WalkPlace(2 * a + 6) = <<"bits", a>>
          /\ WalkPlace(2 * b + 5) = <<"filter", b>> /\ WalkPlace(2 * b + 6) = <<"bits", b>>
      BY Halves DEF Ptr
    <2> QED
      BY <2>1, <2>2, <2>3
  <1>5. CASE (i <= 4 /\ j > 4) \/ (i > 4 /\ j <= 4)
    <2>1. /\ i <= 4 => i \in {1, 2, 3, 4}
          /\ j <= 4 => j \in {1, 2, 3, 4}
      OBVIOUS
    <2> QED
      BY <1>1, <1>2, <1>5, <2>1
  <1> QED
    BY <1>3, <1>4, <1>5

LEMMA HolderComesFirst ==
  ASSUME NEW i \in Nat \ {0}
  PROVE  \/ Holder(WalkPlace(i)) = WalkPlace(i)
         \/ \E j \in 1..(i - 1) : Holder(WalkPlace(i)) = WalkPlace(j)
  <1>1. CASE i <= 4
    <2>1. i \in {1, 2, 3, 4}
      BY <1>1
    <2>2. /\ WalkPlace(1) = Ptr("group", 0) /\ WalkPlace(2) = Ptr("aggregate", 0)
          /\ WalkPlace(3) = Ptr("aggregate_bits", 0) /\ WalkPlace(4) = Ptr("filter_group", 0)
      BY DEF WalkPlace
    <2>3. /\ Holder(WalkPlace(1)) = WalkPlace(1) /\ Holder(WalkPlace(2)) = WalkPlace(2)
          /\ Holder(WalkPlace(3)) = WalkPlace(2) /\ Holder(WalkPlace(4)) = WalkPlace(1)
      BY <2>2 DEF Holder, Ptr
    <2> QED
      BY <2>1, <2>3
  <1>2. CASE i > 4
    <2>1. PICK a \in Nat : i = 2 * a + 5 \/ i = 2 * a + 6
      BY <1>2, Halves
    <2>2. WalkPlace(2 * a + 5) = Ptr("filter", a) /\ WalkPlace(2 * a + 6) = Ptr("bits", a)
      BY Halves
    <2>3. CASE i = 2 * a + 5
      <3>1. Holder(WalkPlace(i)) = WalkPlace(4) /\ 4 \in 1..(i - 1)
        BY <2>2, <2>3 DEF Holder, Ptr, WalkPlace
      <3> QED
        BY <3>1
    <2>4. CASE i = 2 * a + 6
      <3>1. Holder(WalkPlace(i)) = WalkPlace(2 * a + 5) /\ 2 * a + 5 \in 1..(i - 1)
        BY <2>2, <2>4 DEF Holder, Ptr
      <3> QED
        BY <3>1
    <2> QED
      BY <2>1, <2>3, <2>4
  <1> QED
    BY <1>1, <1>2

----------------------------------------------------------------------------
(* The steps of the state file. *)

Files == [size : Sizes \cup {Missing, Short}, magic : BOOLEAN,
          group_size : Sizes \cup {0}, ptr : [Ptrs(MaxSize) -> Int]]

FileInv == StateFileTypeOK /\ RingInv

LEMMA SizeFacts ==
  /\ Sizes \subseteq Nat \ {0} /\ Bases \subseteq Nat
  /\ MaxSize \in Nat
  /\ \A n \in Sizes \cup {0} : n \in Nat /\ Ptrs(n) \subseteq Ptrs(MaxSize)
  <1>1. Sizes \subseteq Nat \ {0} /\ Bases \subseteq Nat
    BY StateFileAssumption DEF StateFileAssumption
  <1>2. MaxSize \in Nat /\ \A n \in Sizes \cup {0} : n \in Nat /\ n <= MaxSize
    BY <1>1, MaxSizeIs
  <1> QED
    BY <1>1, <1>2, PtrsGrow

LEMMA GroupPtr == \A n : Ptr("group", 0) \in Ptrs(n)
  BY DEF Ptrs

LEMMA NoFileType == NoFile \in Files /\ NoFile.magic = FALSE /\ NoFile.size = Missing
  <1>1. [p \in Ptrs(MaxSize) |-> 0] \in [Ptrs(MaxSize) -> Int]
    OBVIOUS
  <1> QED
    BY <1>1 DEF NoFile, Files, Missing, Short

LEMMA PlaceIsInt ==
  ASSUME NEW n \in Nat, NEW m \in Nat, NEW p \in Ptrs(m)
  PROVE  Zero(p, n) \in Int
  <1>1. CASE \E kind \in Kinds : p = Ptr(kind, 0)
    BY <1>1 DEF Kinds, Ptr, Zero, Place
  <1>2. CASE \E i \in Filters(m) : p = Ptr("filter", i) \/ p = Ptr("bits", i)
    BY <1>2 DEF Filters, Ptr, Zero, Place
  <1> QED
    BY <1>1, <1>2, PtrsAre

LEMMA CreateStep ==
  ASSUME FileInv, doing = "none", NEW n \in Sizes, create_statefile(n)
  PROVE  FileInv' /\ doing' = "none"
  <1>1. PICK size \in {n, Short} :
            file' = [NoFile EXCEPT !.size = size, !.ptr = [p \in DOMAIN @ |-> Zero(p, n)]]
    BY DEF create_statefile
  <1>2. NoFile \in Files
    BY NoFileType
  <1>3. DOMAIN NoFile.ptr = Ptrs(MaxSize)
    BY <1>2 DEF Files
  <1>4. PICK z : z = [p \in Ptrs(MaxSize) |-> Zero(p, n)]
    OBVIOUS
  <1>5. z \in [Ptrs(MaxSize) -> Int]
    BY <1>4, SizeFacts, PlaceIsInt
  <1>6. file' = [[NoFile EXCEPT !.size = size] EXCEPT !.ptr = z]
    BY <1>1, <1>2, <1>3, <1>4 DEF Files
  <1>7. file' \in Files /\ file'.magic = FALSE
    BY <1>2, <1>5, <1>6, NoFileType DEF Files
  <1>8. /\ cut' = FALSE /\ doing' = "none" /\ doing' = doing
        /\ UNCHANGED <<num, base, offset, stores>>
    BY DEF create_statefile
  <1>9. StateFileTypeOK'
    BY <1>7, <1>8 DEF FileInv, StateFileTypeOK, Files
  <1>10. RingInv'
    BY <1>7, <1>8 DEF RingInv
  <1> QED
    BY <1>8, <1>9, <1>10 DEF FileInv

LEMMA RemoveFileStep ==
  ASSUME FileInv, doing = "none", RemoveStatefile
  PROVE  FileInv' /\ doing' = "none"
  <1>1. file' \in Files /\ file'.magic = FALSE
    BY NoFileType DEF RemoveStatefile
  <1>2. /\ cut' = FALSE /\ doing' = "none" /\ doing' = doing
        /\ UNCHANGED <<num, base, offset, stores>>
    BY DEF RemoveStatefile
  <1>3. StateFileTypeOK'
    BY <1>1, <1>2 DEF FileInv, StateFileTypeOK, Files
  <1>4. RingInv'
    BY <1>1, <1>2 DEF RingInv
  <1> QED
    BY <1>2, <1>3, <1>4 DEF FileInv

LEMMA OrderTypes ==
  ASSUME NEW n \in Sizes \cup {0}
  PROVE  /\ InitOrder(n) \in Seq(Ptrs(MaxSize)) /\ WalkOrder(n) \in Seq(Ptrs(MaxSize))
         /\ Len(InitOrder(n)) = 4 + 2 * n /\ Len(WalkOrder(n)) = 4 + 2 * n
         /\ InitOrder(n) # <<>> /\ WalkOrder(n) # <<>>
         /\ n \in Nat
  <1>1. n \in Nat /\ Ptrs(n) \subseteq Ptrs(MaxSize)
    BY SizeFacts
  <1>2. /\ InitOrder(n) \in Seq(Ptrs(n)) /\ Len(InitOrder(n)) = 4 + 2 * n
        /\ WalkOrder(n) \in Seq(Ptrs(n)) /\ Len(WalkOrder(n)) = 4 + 2 * n
    BY <1>1, InitOrderIs, WalkOrderIs
  <1>3. InitOrder(n) \in Seq(Ptrs(MaxSize)) /\ WalkOrder(n) \in Seq(Ptrs(MaxSize))
    BY <1>1, <1>2, SeqMonotonic
  <1>4. InitOrder(n) # <<>> /\ WalkOrder(n) # <<>>
    BY <1>1, <1>2, EmptySeq
  <1> QED
    BY <1>1, <1>2, <1>3, <1>4

LEMMA MapStep ==
  ASSUME FileInv, doing = "none", NEW n \in Sizes, NEW b \in Bases, MapFile(n, b)
  PROVE  FileInv' /\ doing' # "none"
  <1>1. file \in Files
    BY DEF FileInv, StateFileTypeOK, Files
  <1>2. /\ file' = [file EXCEPT !.magic = TRUE] /\ file.size = n /\ num' = n /\ base' = b
        /\ offset' = b - file.ptr[Ptr("group", 0)] /\ cut' = cut
        /\ doing' = IF file.magic THEN "walk" ELSE "init"
        /\ stores' = IF file.magic THEN WalkOrder(file.group_size) ELSE InitOrder(n)
    BY DEF MapFile, Fits
  <1>3. /\ file' \in Files /\ file'.magic = TRUE /\ file'.size = n
        /\ file'.group_size = file.group_size /\ file'.ptr = file.ptr
    BY <1>1, <1>2 DEF Files
  <1>4. file.group_size \in Sizes \cup {0} /\ file.ptr \in [Ptrs(MaxSize) -> Int]
    BY <1>1 DEF Files
  <1>5. b \in Int /\ offset' \in Int
    <2>1. Ptr("group", 0) \in Ptrs(MaxSize) /\ b \in Nat
      BY GroupPtr, SizeFacts
    <2> QED
      BY <1>2, <1>4, <2>1
  <1>6. stores' \in Seq(Ptrs(MaxSize)) /\ stores' # <<>>
    BY <1>2, <1>4, OrderTypes
  <1>7. StateFileTypeOK'
    <2>1. doing' \in {"init", "walk"} /\ cut' \in BOOLEAN
      BY <1>2 DEF FileInv, StateFileTypeOK
    <2> QED
      BY <1>2, <1>3, <1>5, <1>6, <2>1 DEF StateFileTypeOK, Files
  <1>8. CASE ~file.magic
    <2>1. doing' = "init" /\ stores' = InitOrder(n)
      BY <1>2, <1>8
    <2>2. Len(InitOrder(n)) \in Nat
      BY OrderTypes, SizeFacts
    <2>3. Left(InitOrder(n))' = 0
      BY <2>1, <2>2 DEF Left
    <2>4. Left(InitOrder(num))' = 0
      BY <1>2, <2>3 DEF Left
    <2>5. Suffix(InitOrder(num))'
      BY <1>2, <2>1, <2>2, <2>4 DEF Suffix
    <2>6. RingInv'
      BY <1>2, <1>3, <2>1, <2>4, <2>5 DEF RingInv
    <2> QED
      BY <1>7, <2>1, <2>6 DEF FileInv
  <1>9. CASE file.magic
    <2>1. doing' = "walk" /\ stores' = WalkOrder(file.group_size)
      BY <1>2, <1>9
    <2>2. ASSUME ~cut
          PROVE  /\ file'.group_size = num'
                 /\ Suffix(WalkOrder(num))'
                 /\ \A i \in 1..Len(WalkOrder(num'))  :
                       file'.ptr[WalkOrder(num')[i]] = IF i <= Left(WalkOrder(num))' THEN base'
                                                                               ELSE base' - offset'
      <3>1. Agree(n)
        BY <1>2, <1>9, <2>2 DEF FileInv, RingInv
      <3>2. file.group_size = n /\ \A p \in Ptrs(n) : file.ptr[p] = file.ptr[Ptr("group", 0)]
        BY <3>1 DEF Agree
      <3>3. PICK o : o = WalkOrder(n)
        OBVIOUS
      <3>4. n \in Nat /\ o \in Seq(Ptrs(n)) /\ Len(o) \in Nat
        BY <3>3, SizeFacts, WalkOrderIs, LenProperties
      <3>5. WalkOrder(num') = o /\ stores' = o
        BY <1>2, <2>1, <3>2, <3>3
      <3>6. Left(WalkOrder(num))' = 0
        BY <3>4, <3>5 DEF Left
      <3>7. Suffix(WalkOrder(num))'
        BY <3>4, <3>5, <3>6 DEF Suffix
      <3>8. ASSUME NEW i \in 1..Len(o)
            PROVE  file.ptr[o[i]] = base' - offset'
        <4>1. o[i] \in Ptrs(n)
          BY <3>4, ElementOfSeq
        <4>2. file.ptr[o[i]] = file.ptr[Ptr("group", 0)]
          BY <3>2, <4>1
        <4>3. file.ptr[Ptr("group", 0)] \in Int
          BY <1>4, GroupPtr
        <4> QED
          BY <1>2, <1>5, <4>2, <4>3
      <3> QED
        BY <1>2, <1>3, <3>2, <3>5, <3>6, <3>7, <3>8
    <2>3. RingInv'
      BY <1>2, <1>3, <2>1, <2>2 DEF RingInv
    <2> QED
      BY <1>7, <2>1, <2>3 DEF FileInv
  <1> QED
    BY <1>8, <1>9

LEMMA StoredStep ==
  ASSUME NEW o, Len(o) \in Nat, stores \in Seq(Ptrs(MaxSize)), stores # <<>>, Suffix(o), Stored
  PROVE  /\ Suffix(o)' /\ Left(o)' = Left(o) + 1
         /\ Left(o) + 1 \in 1..Len(o) /\ Head(stores) = o[Left(o) + 1]
         /\ Len(stores) = 1 <=> Left(o) + 1 = Len(o)
  <1>1. PICK s \in Seq(Ptrs(MaxSize)) : s = stores
    OBVIOUS
  <1>2. PICK t : t = Tail(s)
    OBVIOUS
  <1>3. s # <<>>
    BY <1>1
  <1>4. /\ Len(s) \in Nat \ {0} /\ Len(t) = Len(s) - 1 /\ Head(s) = s[1]
        /\ \A i \in 1..Len(t) : t[i] = s[i + 1]
    BY <1>2, <1>3, HeadTailProperties, EmptySeq, LenProperties
  <1>5. stores' = t
    BY <1>1, <1>2 DEF Stored
  <1>6. PICK k : k = Left(o)
    OBVIOUS
  <1>7. k \in Nat /\ k = Len(o) - Len(s) /\ \A i \in 1..Len(s) : s[i] = o[k + i]
    BY <1>1, <1>6 DEF Suffix, Left
  <1>8. Left(o)' = k + 1
    <2>1. Left(o)' = Len(o) - Len(t)
      BY <1>5 DEF Left
    <2>2. Len(o) - Len(t) = k + 1
      BY <1>4, <1>7
    <2> QED
      BY <2>1, <2>2
  <1>9. ASSUME NEW i \in 1..Len(t)
        PROVE  t[i] = o[(k + 1) + i]
    <2>1. i + 1 \in 1..Len(s) /\ k + (i + 1) = (k + 1) + i
      BY <1>4, <1>7
    <2> QED
      BY <1>4, <1>7, <2>1
  <1>10. Suffix(o)'
    BY <1>5, <1>7, <1>8, <1>9 DEF Suffix
  <1>11. 1 \in 1..Len(s) /\ s[1] = o[k + 1]
    BY <1>4, <1>7
  <1>12. k + 1 \in 1..Len(o) /\ (Len(s) = 1 <=> k + 1 = Len(o))
    BY <1>4, <1>7
  <1>13. Head(stores) = o[k + 1] /\ Len(stores) = Len(s)
    BY <1>1, <1>4, <1>11
  <1> QED
    BY <1>6, <1>8, <1>10, <1>12, <1>13, Zenon

LEMMA StoredType ==
  ASSUME StateFileTypeOK, stores # <<>>, doing \in {"init", "walk"}, Stored
  PROVE  /\ stores' \in Seq(Ptrs(MaxSize)) /\ doing' \in {"init", "walk", "ready"}
         /\ doing' \in {"init", "walk"} <=> stores' # <<>>
         /\ Len(stores) # 1 => doing' = doing
         /\ Len(stores) = 1 => doing' = "ready"
         /\ Head(stores) \in Ptrs(MaxSize)
  <1>1. PICK s \in Seq(Ptrs(MaxSize)) : s = stores
    BY DEF StateFileTypeOK
  <1>2. s # <<>>
    BY <1>1
  <1>3. /\ Tail(s) \in Seq(Ptrs(MaxSize)) /\ Len(Tail(s)) = Len(s) - 1 /\ Len(s) \in Nat
        /\ Head(s) \in Ptrs(MaxSize)
    BY <1>2, HeadTailProperties, LenProperties
  <1>4. Tail(s) = <<>> <=> Len(s) = 1
    BY <1>3, EmptySeq
  <1> QED
    BY <1>1, <1>3, <1>4 DEF Stored

LEMMA StoreNewStep ==
  ASSUME FileInv, StoreNew
  PROVE  FileInv' /\ doing' # "none"
  <1>1. file \in Files /\ doing = "init" /\ stores # <<>> /\ StateFileTypeOK /\ stores \in Seq(Ptrs(MaxSize))
    BY DEF FileInv, StateFileTypeOK, Files, StoreNew
  <1>2. PICK h : h = Head(stores)
    OBVIOUS
  <1>3. /\ file' = [file EXCEPT !.ptr[h] = base, !.group_size = IF h[1] = "group" THEN num ELSE @]
        /\ UNCHANGED <<num, base, offset, cut>> /\ Stored
    BY <1>2 DEF StoreNew
  <1>4. h \in Ptrs(MaxSize)
    BY <1>1, <1>2, <1>3, StoredType
  <1>5. num \in Sizes /\ base \in Int /\ file.size = num /\ file.magic
    BY <1>1, SizeFacts DEF FileInv, RingInv, StateFileTypeOK
  <1>6. /\ file' \in Files /\ file'.size = file.size /\ file'.magic = file.magic
        /\ file'.ptr = [file.ptr EXCEPT ![h] = base]
        /\ file'.group_size = IF h[1] = "group" THEN num ELSE file.group_size
    BY <1>1, <1>3, <1>4, <1>5 DEF Files
  <1>7. StateFileTypeOK'
    <2>1. /\ stores' \in Seq(Ptrs(MaxSize)) /\ doing' \in {"init", "walk", "ready"}
          /\ doing' \in {"init", "walk"} <=> stores' # <<>>
      BY <1>1, <1>3, StoredType
    <2> QED
      BY <1>1, <1>3, <1>6, <2>1 DEF StateFileTypeOK, Files
  <1>8. PICK n \in Nat : n = num
    BY <1>5, SizeFacts
  <1>9. PICK o : o = InitOrder(n)
    OBVIOUS
  <1>10. /\ o \in Seq(Ptrs(n)) /\ Len(o) = 4 + 2 * n /\ Len(o) \in Nat
         /\ \A i \in 1..Len(o) : o[i] = InitPlace(n, i)
         /\ \A p \in Ptrs(n) : \E i \in 1..Len(o) : o[i] = p
    <2>1. /\ o \in Seq(Ptrs(n)) /\ Len(o) = 4 + 2 * n
          /\ \A i \in 1..(4 + 2 * n) : o[i] = InitPlace(n, i)
          /\ \A p \in Ptrs(n) : \E i \in 1..(4 + 2 * n) : o[i] = p
      BY <1>9, InitOrderIs, Zenon
    <2>2. 4 + 2 * n \in Nat
      OBVIOUS
    <2> QED
      BY <2>1, <2>2, Zenon
  <1>11. /\ Suffix(o)
         /\ \A i \in 1..Left(o) : file.ptr[o[i]] = base
         /\ Left(o) > 0 => file.group_size = num
    BY <1>1, <1>8, <1>9 DEF FileInv, RingInv
  <1>12. PICK k : k = Left(o)
    OBVIOUS
  <1>13. /\ Suffix(o)' /\ Left(o)' = k + 1 /\ k + 1 \in 1..Len(o) /\ h = o[k + 1] /\ k \in Nat
         /\ Len(stores) = 1 <=> k + 1 = Len(o)
    BY <1>1, <1>2, <1>3, <1>10, <1>11, <1>12, StoredStep DEF Suffix
  <1>14. ASSUME NEW i \in 1..(k + 1)
         PROVE  file'.ptr[o[i]] = base
    <2>1. o[i] \in Ptrs(n) /\ Ptrs(n) \subseteq Ptrs(MaxSize)
      <3>1. i \in 1..Len(o)
        BY <1>10, <1>13
      <3> QED
        BY <1>5, <1>8, <1>10, <3>1, ElementOfSeq, SizeFacts
    <2>2. DOMAIN file.ptr = Ptrs(MaxSize)
      BY <1>1 DEF Files
    <2>3. CASE o[i] = h
      BY <1>6, <2>1, <2>2, <2>3
    <2>4. CASE o[i] # h
      <3>1. i \in 1..k
        BY <1>13, <2>4
      <3> QED
        BY <1>6, <1>11, <1>12, <2>1, <2>2, <2>4, <3>1
    <2> QED
      BY <2>3, <2>4
  <1>15. file'.group_size = n
    <2>1. CASE k = 0
      <3>1. h = Ptr("group", 0)
        BY <1>10, <1>13, <2>1 DEF InitPlace
      <3>2. h[1] = "group"
        BY <3>1 DEF Ptr
      <3> QED
        BY <1>6, <1>8, <3>2
    <2>2. CASE k > 0
      BY <1>6, <1>8, <1>11, <1>12, <2>2
    <2> QED
      BY <1>13, <2>1, <2>2
  <1>16. InitOrder(num') = o /\ num' = n /\ base' = base /\ cut' = cut
    BY <1>3, <1>8, <1>9
  <1>17. CASE Len(stores) # 1
    <2>1. doing' = "init"
      BY <1>1, <1>3, <1>17, StoredType
    <2>2. Suffix(InitOrder(num))' /\ Left(InitOrder(num))' = k + 1
      BY <1>13, <1>16 DEF Suffix, Left
    <2>3. RingInv'
      BY <1>5, <1>6, <1>8, <1>14, <1>15, <1>16, <2>1, <2>2 DEF RingInv
    <2> QED
      BY <1>7, <2>1, <2>3 DEF FileInv
  <1>18. CASE Len(stores) = 1
    <2>1. doing' = "ready"
      BY <1>1, <1>3, <1>18, StoredType
    <2>2. \A p \in Ptrs(n) : file'.ptr[p] = base
      BY <1>10, <1>13, <1>14, <1>18
    <2>3. Whole'
      BY <1>15, <1>16, <2>2 DEF Whole
    <2>4. RingInv'
      BY <1>5, <1>6, <1>8, <1>16, <2>1, <2>3 DEF RingInv
    <2> QED
      BY <1>7, <2>1, <2>4 DEF FileInv
  <1> QED
    BY <1>17, <1>18

LEMMA ChangeAddressStep ==
  ASSUME FileInv, CHANGE_ADDRESS
  PROVE  FileInv' /\ doing' # "none"
  <1>1. file \in Files /\ doing = "walk" /\ stores # <<>> /\ StateFileTypeOK /\ stores \in Seq(Ptrs(MaxSize))
    BY DEF FileInv, StateFileTypeOK, Files, CHANGE_ADDRESS
  <1>2. PICK h : h = Head(stores)
    OBVIOUS
  <1>3. /\ \/ Reached(h) /\ file' = [file EXCEPT !.ptr[h] = @ + offset]
           \/ ~Reached(h) /\ file' = file
        /\ UNCHANGED <<num, base, offset, cut>> /\ Stored
    BY <1>2 DEF CHANGE_ADDRESS
  <1>4. h \in Ptrs(MaxSize)
    BY <1>1, <1>2, <1>3, StoredType
  <1>5. num \in Sizes /\ base \in Int /\ offset \in Int /\ file.size = num /\ file.magic
    BY <1>1, SizeFacts DEF FileInv, RingInv, StateFileTypeOK
  <1>6. file.ptr \in [Ptrs(MaxSize) -> Int]
    BY <1>1 DEF Files
  <1>7. /\ file' \in Files /\ file'.size = file.size /\ file'.magic = file.magic
        /\ file'.group_size = file.group_size
        /\ Reached(h) => file'.ptr = [file.ptr EXCEPT ![h] = file.ptr[h] + offset]
    <2>1. CASE Reached(h)
      <3>1. file.ptr[h] + offset \in Int
        BY <1>4, <1>5, <1>6
      <3> QED
        BY <1>1, <1>3, <1>4, <2>1, <3>1 DEF Files
    <2>2. CASE ~Reached(h)
      BY <1>1, <1>3, <2>2
    <2> QED
      BY <2>1, <2>2
  <1>8. StateFileTypeOK'
    <2>1. /\ stores' \in Seq(Ptrs(MaxSize)) /\ doing' \in {"init", "walk", "ready"}
          /\ doing' \in {"init", "walk"} <=> stores' # <<>>
      BY <1>1, <1>3, StoredType
    <2> QED
      BY <1>1, <1>3, <1>7, <2>1 DEF StateFileTypeOK, Files
  <1>9. /\ Len(stores) # 1 => doing' = "walk"
        /\ Len(stores) = 1 => doing' = "ready"
    BY <1>1, <1>3, StoredType
  <1>10. CASE cut
    <2>1. RingInv'
      BY <1>3, <1>5, <1>7, <1>9, <1>10 DEF RingInv
    <2> QED
      BY <1>8, <1>9, <2>1 DEF FileInv
  <1>11. CASE ~cut
    <2>1. PICK n \in Nat : n = num
      BY <1>5, SizeFacts
    <2>2. PICK o : o = WalkOrder(n)
      OBVIOUS
    <2>3. /\ o \in Seq(Ptrs(n)) /\ Len(o) = 4 + 2 * n /\ Len(o) \in Nat
          /\ \A i \in 1..Len(o) : o[i] = WalkPlace(i)
      <3>1. /\ o \in Seq(Ptrs(n)) /\ Len(o) = 4 + 2 * n
            /\ \A i \in 1..(4 + 2 * n) : o[i] = WalkPlace(i)
        BY <2>2, WalkOrderIs, Zenon
      <3>2. 4 + 2 * n \in Nat
        OBVIOUS
      <3> QED
        BY <3>1, <3>2, Zenon
    <2>4. \A p \in Ptrs(n) : \E i \in 1..Len(o) : o[i] = p
      BY <2>3, WalkMovesAll
    <2>5. ASSUME NEW i \in 1..Len(o), NEW j \in 1..Len(o), o[i] = o[j]
          PROVE  i = j
      BY <2>3, <2>5, WalkMovesOnce
    <2>6. /\ file.group_size = n /\ Suffix(o)
          /\ \A i \in 1..Len(o) : file.ptr[o[i]] = IF i <= Left(o) THEN base ELSE base - offset
      BY <1>1, <1>11, <2>1, <2>2 DEF FileInv, RingInv
    <2>7. PICK k : k = Left(o)
      OBVIOUS
    <2>8. /\ Suffix(o)' /\ Left(o)' = k + 1 /\ k + 1 \in 1..Len(o) /\ h = o[k + 1] /\ k \in Nat
          /\ Len(stores) = 1 <=> k + 1 = Len(o)
      BY <1>1, <1>2, <1>3, <2>3, <2>6, <2>7, StoredStep DEF Suffix
    <2>9. Reached(h)
      <3>1. h = WalkPlace(k + 1)
        BY <2>3, <2>8
      <3>2. Holder(h) = h \/ \E j \in 1..k : Holder(h) = WalkPlace(j)
        <4>1. k + 1 \in Nat \ {0} /\ (k + 1) - 1 = k
          BY <2>8
        <4> QED
          BY <3>1, <4>1, HolderComesFirst
      <3>3. ASSUME NEW j \in 1..k, Holder(h) = WalkPlace(j)
            PROVE  file.ptr[Holder(h)] = base
        <4>1. j \in 1..Len(o) /\ j <= k
          BY <2>8
        <4>2. o[j] = Holder(h)
          BY <2>3, <3>3, <4>1
        <4> QED
          BY <2>6, <2>7, <4>1, <4>2
      <3> QED
        BY <3>2, <3>3 DEF Reached
    <2>10. ASSUME NEW i \in 1..Len(o)
           PROVE  file'.ptr[o[i]] = IF i <= k + 1 THEN base ELSE base - offset
      <3>1. o[i] \in Ptrs(MaxSize)
        BY <1>5, <2>1, <2>3, ElementOfSeq, SizeFacts
      <3>2. CASE i = k + 1
        <4>1. file.ptr[h] = base - offset
          <5>1. ~(k + 1 <= k)
            BY <2>8
          <5> QED
            BY <2>6, <2>7, <2>8, <5>1
        <4>2. file'.ptr[h] = file.ptr[h] + offset
          BY <1>4, <1>6, <1>7, <2>9
        <4> QED
          BY <1>5, <2>8, <3>2, <4>1, <4>2
      <3>3. CASE i # k + 1
        <4>1. o[i] # h
          BY <2>5, <2>8, <3>3
        <4>2. file'.ptr[o[i]] = file.ptr[o[i]]
          BY <1>6, <1>7, <2>9, <3>1, <4>1
        <4>3. i <= k + 1 <=> i <= k
          BY <2>8, <3>3
        <4> QED
          BY <2>6, <2>7, <4>2, <4>3
      <3> QED
        BY <3>2, <3>3
    <2>11. WalkOrder(num') = o /\ num' = n /\ base' = base /\ offset' = offset /\ cut' = cut
      BY <1>3, <2>1, <2>2
    <2>12. CASE Len(stores) # 1
      <3>1. Suffix(WalkOrder(num))' /\ Left(WalkOrder(num))' = k + 1
        BY <2>8, <2>11 DEF Suffix, Left
      <3>2. RingInv'
        BY <1>5, <1>7, <1>9, <2>1, <2>6, <2>10, <2>11, <2>12, <3>1 DEF RingInv
      <3> QED
        BY <1>8, <1>9, <2>12, <3>2 DEF FileInv
    <2>13. CASE Len(stores) = 1
      <3>1. \A i \in 1..Len(o) : file'.ptr[o[i]] = base
        BY <2>8, <2>10, <2>13
      <3>2. \A p \in Ptrs(n) : file'.ptr[p] = base
        BY <2>4, <3>1
      <3>3. Whole'
        BY <1>7, <2>6, <2>11, <3>2 DEF Whole
      <3>4. RingInv'
        BY <1>5, <1>7, <1>9, <2>1, <2>11, <2>13, <3>3 DEF RingInv
      <3> QED
        BY <1>8, <1>9, <2>13, <3>4 DEF FileInv
    <2> QED
      BY <2>12, <2>13
  <1> QED
    BY <1>10, <1>11

LEMMA UnmapStep ==
  ASSUME FileInv, doing # "none", Unmap
  PROVE  FileInv' /\ doing' = "none"
  <1>1. /\ num' = 0 /\ base' = 0 /\ offset' = 0 /\ doing' = "none" /\ stores' = <<>> /\ file' = file
    BY DEF Unmap
  <1>2. StateFileTypeOK'
    <2>1. cut' \in BOOLEAN
      BY DEF Unmap
    <2>2. <<>> \in Seq(Ptrs(MaxSize))
      BY EmptySeq
    <2> QED
      BY <1>1, <2>1, <2>2 DEF FileInv, StateFileTypeOK
  <1>3. ASSUME ~cut'
        PROVE  Agree(file.size)
    <2>1. /\ ~cut /\ doing # "init"
          /\ doing = "walk" => offset = 0 \/ ~(Len(stores) < Len(WalkOrder(file.group_size)))
      BY <1>3 DEF Unmap
    <2>2. num \in Sizes /\ file.size = num /\ base \in Int /\ offset \in Int
      BY SizeFacts DEF FileInv, RingInv, StateFileTypeOK
    <2>3. doing \in {"walk", "ready"}
      BY <2>1 DEF FileInv, StateFileTypeOK
    <2>4. CASE doing = "ready"
      <3>1. file.group_size = num /\ \A p \in Ptrs(num) : file.ptr[p] = base
        BY <2>1, <2>4 DEF FileInv, RingInv, Whole
      <3> QED
        BY <2>2, <3>1, GroupPtr DEF Agree
    <2>5. CASE doing = "walk"
      <3>1. PICK n \in Nat : n = num
        BY <2>2, SizeFacts
      <3>2. PICK o : o = WalkOrder(n)
        OBVIOUS
      <3>3. /\ Len(o) = 4 + 2 * n /\ \A i \in 1..(4 + 2 * n) : o[i] = WalkPlace(i)
        BY <3>2, WalkOrderIs, Zenon
      <3>4. \A p \in Ptrs(n) : \E i \in 1..Len(o) : o[i] = p
        BY <3>3, WalkMovesAll
      <3>5. /\ file.group_size = n /\ Suffix(o)
            /\ \A i \in 1..Len(o) : file.ptr[o[i]] = IF i <= Left(o) THEN base ELSE base - offset
        BY <2>1, <2>5, <3>1, <3>2 DEF FileInv, RingInv
      <3>6. \E b : \A i \in 1..Len(o) : file.ptr[o[i]] = b
        <4>1. CASE offset = 0
          <5>1. base - offset = base
            BY <2>2, <4>1
          <5>2. \A i \in 1..Len(o) : file.ptr[o[i]] = base
            BY <3>5, <5>1
          <5> QED
            BY <5>2
        <4>2. CASE ~(Len(stores) < Len(o))
          <5>1. Len(stores) \in Nat /\ Len(o) \in Nat
            BY <3>3, LenProperties DEF FileInv, StateFileTypeOK
          <5>2. Left(o) = 0
            BY <3>5, <4>2, <5>1 DEF Suffix, Left
          <5>3. \A i \in 1..Len(o) : file.ptr[o[i]] = base - offset
            BY <3>5, <5>2
          <5> QED
            BY <5>3
        <4> QED
          BY <2>1, <2>5, <3>2, <3>5, <4>1, <4>2
      <3>7. PICK b : \A p \in Ptrs(n) : file.ptr[p] = b
        BY <3>4, <3>6
      <3> QED
        BY <2>2, <3>1, <3>5, <3>7, GroupPtr DEF Agree
    <2> QED
      BY <2>3, <2>4, <2>5
  <1>4. Agree(file.size) => Agree(file.size)'
    BY <1>1 DEF Agree
  <1>5. RingInv'
    BY <1>1, <1>3, <1>4 DEF FileInv, RingInv
  <1> QED
    BY <1>1, <1>2, <1>5 DEF FileInv

LEMMA FileStays ==
  ASSUME FileInv, UNCHANGED statefile
  PROVE  FileInv' /\ doing' = doing
  BY DEF statefile, FileInv, StateFileTypeOK, RingInv, Agree, Suffix, Left, Whole

----------------------------------------------------------------------------
(* The steps of the statistics. *)

StatsInv == StatsTypeOK /\ StatsConsistent

(* Workers between the two counts of a query. *)
Between(s) == {w \in Workers : worker[w].pc = "all" /\ worker[w].status = s}

LEMMA WorkerSets ==
  ASSUME NEW S \in SUBSET Workers
  PROVE  IsFiniteSet(S) /\ Cardinality(S) \in Nat
  BY StatsAssumption, FS_Subset, FS_CardinalityType DEF StatsAssumption

LEMMA IdleType == Idle \in [pc : {"idle", "all", "delay"}, status : Statuses] /\ Idle.pc = "idle"
  <1>1. (CHOOSE s \in Statuses : TRUE) \in Statuses
    BY StatsAssumption DEF StatsAssumption
  <1> QED
    BY <1>1 DEF Idle

LEMMA ZerosType == Zeros \in [Statuses -> Nat] /\ \A s \in Statuses : Zeros[s] = 0
  BY DEF Zeros

LEMMA StatsTypes ==
  StatsTypeOK <=> /\ mx \in {"free", "status"}
                  /\ count \in [Statuses -> Nat] /\ all \in [Statuses -> Nat]
                  /\ avg_delay \in [Statuses -> Nat] /\ max_delay \in [Statuses -> Nat]
                  /\ logged \in [Statuses -> Nat]
                  /\ worker \in [Workers -> [pc : {"idle", "all", "delay"}, status : Statuses]]
  BY DEF StatsTypeOK

LEMMA FreshStats ==
  ASSUME \/ StatsInit'
         \/ init_stats
  PROVE  StatsInv'
  <1>1. /\ mx' = "free" /\ count' = Zeros /\ all' = Zeros /\ avg_delay' = Zeros /\ max_delay' = Zeros
        /\ worker' = [w \in Workers |-> Idle] /\ logged' = Zeros
    BY DEF StatsInit, init_stats, Zeros, Idle
  <1>2. StatsTypeOK'
    BY <1>1, ZerosType, IdleType DEF StatsTypeOK
  <1>3. ASSUME NEW s \in Statuses
        PROVE  {w \in Workers : worker'[w].pc = "all" /\ worker'[w].status = s} = {}
    BY <1>1, IdleType
  <1>4. AddUp'
    BY <1>1, <1>3, ZerosType, FS_EmptySet DEF AddUp
  <1>5. \A s \in Statuses : avg_delay'[s] <= max_delay'[s]
    BY <1>1, ZerosType
  <1> QED
    BY <1>2, <1>4, <1>5 DEF StatsInv, StatsConsistent

LEMMA IncfPeriodStep ==
  ASSUME StatsInv, NEW w \in Workers, NEW s \in Statuses, IncfPeriod(w, s)
  PROVE  StatsInv'
  <1>1. StatsTypeOK /\ AddUp /\ \A t \in Statuses : avg_delay[t] <= max_delay[t]
    BY DEF StatsInv, StatsConsistent
  <1>2. /\ worker[w].pc = "idle" /\ count' = [count EXCEPT ![s] = @ + 1]
        /\ worker' = [worker EXCEPT ![w] = [pc |-> "all", status |-> s]]
        /\ UNCHANGED <<mx, all, avg_delay, max_delay, logged>>
    BY DEF IncfPeriod
  <1>3. StatsTypeOK'
    <2>1. count' \in [Statuses -> Nat]
      BY <1>1, <1>2, StatsTypes
    <2>2. worker' \in [Workers -> [pc : {"idle", "all", "delay"}, status : Statuses]]
      BY <1>1, <1>2, StatsTypes
    <2> QED
      BY <1>1, <1>2, <2>1, <2>2 DEF StatsTypeOK
  <1>4. ASSUME NEW t \in Statuses
        PROVE  all[t] + Cardinality(Between(t)') = logged[t] + count'[t]
    <2>1. PICK A : A = Between(t)
      OBVIOUS
    <2>2. A \in SUBSET Workers /\ w \notin A
      BY <1>2, <2>1 DEF Between
    <2>3. all[t] + Cardinality(A) = logged[t] + count[t]
      BY <1>1, <2>1 DEF AddUp, Between
    <2>4. all[t] \in Nat /\ logged[t] \in Nat /\ count[t] \in Nat /\ Cardinality(A) \in Nat /\ IsFiniteSet(A)
      BY <1>1, <2>2, StatsTypes, WorkerSets
    <2>5. CASE t = s
      <3>1. Between(t)' = A \cup {w}
        BY <1>1, <1>2, <2>1, <2>5, StatsTypes DEF Between
      <3>2. Cardinality(A \cup {w}) = Cardinality(A) + 1
        BY <2>2, <2>4, FS_AddElement
      <3>3. count'[t] = count[t] + 1
        BY <1>1, <1>2, <2>5, StatsTypes
      <3> QED
        BY <2>3, <2>4, <3>1, <3>2, <3>3
    <2>6. CASE t # s
      <3>1. Between(t)' = A
        BY <1>1, <1>2, <2>1, <2>6, StatsTypes DEF Between
      <3>2. count'[t] = count[t]
        BY <1>1, <1>2, <2>6, StatsTypes
      <3> QED
        BY <2>3, <3>1, <3>2
    <2> QED
      BY <2>5, <2>6
  <1>5. AddUp'
    BY <1>2, <1>4 DEF AddUp, Between
  <1> QED
    BY <1>1, <1>2, <1>3, <1>5 DEF StatsInv, StatsConsistent

LEMMA IncfAllStep ==
  ASSUME StatsInv, NEW w \in Workers, IncfAll(w)
  PROVE  StatsInv'
  <1>1. StatsTypeOK /\ AddUp /\ \A t \in Statuses : avg_delay[t] <= max_delay[t]
    BY DEF StatsInv, StatsConsistent
  <1>2. PICK s \in Statuses : s = worker[w].status
    BY <1>1, StatsTypes
  <1>3. /\ worker[w].pc = "all" /\ all' = [all EXCEPT ![s] = @ + 1]
        /\ worker' = [worker EXCEPT ![w].pc = "delay"]
        /\ UNCHANGED <<mx, count, avg_delay, max_delay, logged>>
    BY <1>2 DEF IncfAll
  <1>4. StatsTypeOK'
    <2>1. all' \in [Statuses -> Nat]
      BY <1>1, <1>3, StatsTypes
    <2>2. worker' \in [Workers -> [pc : {"idle", "all", "delay"}, status : Statuses]]
      BY <1>1, <1>3, StatsTypes
    <2> QED
      BY <1>1, <1>3, <2>1, <2>2 DEF StatsTypeOK
  <1>5. ASSUME NEW t \in Statuses
        PROVE  all'[t] + Cardinality(Between(t)') = logged[t] + count[t]
    <2>1. PICK A : A = Between(t)
      OBVIOUS
    <2>2. A \in SUBSET Workers /\ (w \in A <=> t = s)
      BY <1>2, <1>3, <2>1 DEF Between
    <2>3. all[t] + Cardinality(A) = logged[t] + count[t]
      BY <1>1, <2>1 DEF AddUp, Between
    <2>4. all[t] \in Nat /\ logged[t] \in Nat /\ count[t] \in Nat /\ Cardinality(A) \in Nat /\ IsFiniteSet(A)
      BY <1>1, <2>2, StatsTypes, WorkerSets
    <2>5. Between(t)' = A \ {w}
      BY <1>1, <1>3, <2>1, StatsTypes DEF Between
    <2>6. CASE t = s
      <3>1. Cardinality(A \ {w}) = Cardinality(A) - 1
        BY <2>2, <2>4, <2>6, FS_RemoveElement
      <3>2. all'[t] = all[t] + 1
        BY <1>1, <1>3, <2>6, StatsTypes
      <3> QED
        BY <2>3, <2>4, <2>5, <3>1, <3>2
    <2>7. CASE t # s
      <3>1. A \ {w} = A
        BY <2>2, <2>7
      <3>2. all'[t] = all[t]
        BY <1>1, <1>3, <2>7, StatsTypes
      <3> QED
        BY <2>3, <2>5, <3>1, <3>2
    <2> QED
      BY <2>6, <2>7
  <1>6. AddUp'
    BY <1>3, <1>5 DEF AddUp, Between
  <1> QED
    BY <1>1, <1>3, <1>4, <1>6 DEF StatsInv, StatsConsistent

(* The average of delays that are at most m is at most m. *)
LEMMA AverageBounded ==
  ASSUME NEW old \in Nat, NEW n \in Nat, NEW d \in Nat, NEW m \in Nat, old <= m, d <= m
  PROVE  Average(old, n, d) \in Nat /\ Average(old, n, d) <= m
  <1>1. CASE n = 0
    BY <1>1 DEF Average
  <1>2. CASE n # 0
    <2>1. PICK k \in Nat : n = k + 1
      <3>1. n - 1 \in Nat /\ n = (n - 1) + 1
        BY <1>2
      <3> QED
        BY <3>1
    <2>2. old * k \in Nat /\ m * k \in Nat /\ old * k <= m * k
      OBVIOUS
    <2>3. m * n = m * k + m
      BY <2>1
    <2>4. PICK x \in Nat : x = old * k + d
      BY <2>2
    <2>5. x <= m * n
      BY <2>2, <2>3, <2>4
    <2>6. PICK y : y = x \div n
      OBVIOUS
    <2>7. y \in Int /\ n * y <= x /\ x < n * (y + 1) /\ n > 0
      BY <1>2, <2>4, <2>6
    <2>8. y \in Nat /\ y <= m
      BY <2>5, <2>7
    <2>9. Average(old, n, d) = y
      BY <1>2, <2>1, <2>4, <2>6 DEF Average
    <2> QED
      BY <2>8, <2>9
  <1> QED
    BY <1>1, <1>2

LEMMA DelayUpdateStep ==
  ASSUME StatsInv, NEW w \in Workers, NEW d \in Delays, delay_update(w, d)
  PROVE  StatsInv'
  <1>1. StatsTypeOK /\ AddUp /\ \A t \in Statuses : avg_delay[t] <= max_delay[t]
    BY DEF StatsInv, StatsConsistent
  <1>2. PICK s \in Statuses : s = worker[w].status
    BY <1>1, StatsTypes
  <1>3. /\ worker[w].pc = "delay"
        /\ avg_delay' = [avg_delay EXCEPT ![s] = Average(@, count[s], d)]
        /\ max_delay' = [max_delay EXCEPT ![s] = IF @ < d THEN d ELSE @]
        /\ worker' = [worker EXCEPT ![w] = Idle]
        /\ UNCHANGED <<mx, count, all, logged>>
    BY <1>2 DEF delay_update
  <1>4. d \in Nat
    BY StatsAssumption DEF StatsAssumption
  <1>5. PICK m \in Nat : m = IF max_delay[s] < d THEN d ELSE max_delay[s]
    BY <1>1, <1>4, StatsTypes
  <1>6. avg_delay[s] \in Nat /\ max_delay[s] \in Nat /\ count[s] \in Nat /\ avg_delay[s] <= m /\ d <= m
    BY <1>1, <1>4, <1>5, StatsTypes
  <1>7. PICK a : a = Average(avg_delay[s], count[s], d)
    OBVIOUS
  <1>8. a \in Nat /\ a <= m
    BY <1>4, <1>6, <1>7, AverageBounded
  <1>9. avg_delay' = [avg_delay EXCEPT ![s] = a] /\ max_delay' = [max_delay EXCEPT ![s] = m]
    BY <1>3, <1>5, <1>7
  <1>10. avg_delay' \in [Statuses -> Nat] /\ max_delay' \in [Statuses -> Nat]
    BY <1>1, <1>8, <1>9, StatsTypes
  <1>11. worker' \in [Workers -> [pc : {"idle", "all", "delay"}, status : Statuses]]
    BY <1>1, <1>3, IdleType, StatsTypes
  <1>12. StatsTypeOK'
    BY <1>1, <1>3, <1>10, <1>11 DEF StatsTypeOK
  <1>13. \A t \in Statuses : avg_delay'[t] <= max_delay'[t]
    BY <1>1, <1>8, <1>9, StatsTypes
  <1>14. \A t \in Statuses : Between(t)' = Between(t)
    BY <1>1, <1>3, IdleType, StatsTypes DEF Between
  <1>15. AddUp'
    BY <1>1, <1>3, <1>14 DEF AddUp, Between
  <1> QED
    BY <1>12, <1>13, <1>15 DEF StatsInv, StatsConsistent

LEMMA ZeroStatsStep ==
  ASSUME StatsInv, zero_stats
  PROVE  StatsInv'
  <1>1. StatsTypeOK /\ AddUp /\ \A t \in Statuses : avg_delay[t] <= max_delay[t]
    BY DEF StatsInv, StatsConsistent
  <1>2. /\ logged' = [s \in Statuses |-> logged[s] + count[s]]
        /\ count' = Zeros /\ avg_delay' = Zeros
        /\ UNCHANGED <<mx, all, max_delay, worker>>
    BY DEF zero_stats
  <1>3. logged' \in [Statuses -> Nat]
    BY <1>1, <1>2, StatsTypes
  <1>4. StatsTypeOK'
    BY <1>1, <1>2, <1>3, ZerosType DEF StatsTypeOK
  <1>5. \A s \in Statuses : logged'[s] + count'[s] = logged[s] + count[s]
    BY <1>1, <1>2, ZerosType, StatsTypes
  <1>6. AddUp'
    BY <1>1, <1>2, <1>5 DEF AddUp
  <1>7. \A s \in Statuses : avg_delay'[s] <= max_delay'[s]
    BY <1>1, <1>2, ZerosType, StatsTypes
  <1> QED
    BY <1>4, <1>6, <1>7 DEF StatsInv, StatsConsistent

LEMMA SrvstatusStep ==
  ASSUME StatsInv, mx' \in {"free", "status"},
         UNCHANGED <<count, all, avg_delay, max_delay, worker, logged>>
  PROVE  StatsInv'
  BY DEF StatsInv, StatsTypeOK, StatsConsistent, AddUp

LEMMA StatsStay ==
  ASSUME StatsInv, UNCHANGED statistics
  PROVE  StatsInv'
  BY DEF statistics, StatsInv, StatsTypeOK, StatsConsistent, AddUp

----------------------------------------------------------------------------
(* The steps of the process. *)

ProcessTypeOK ==
    /\ phase \in {"down", "starting", "serving"}
    /\ pidfile_there \in BOOLEAN
    /\ conffile \in ConfFiles /\ started \in ConfFiles
    /\ reasons \in [Reasons -> Texts \cup {NULL}]
    /\ options \in [Options -> SUBSET Texts]
    /\ mpc \in {"stats", "log", "refill", "check", "read", "toggle", "sleep"}
    /\ pending \in BOOLEAN /\ announced \in BOOLEAN /\ missed \in BOOLEAN
    /\ starts \in 0..MaxStarts
    /\ events \in 0..MaxEvents

TimersTypeOK ==
    /\ since_stats \in 0..(StatInterval + 1)
    /\ since_refill \in 0..RefillInterval

ListsTypeOK ==
    /\ tolerance \in [DnsLists -> (1 - MaxFlight)..ERRORTOLERANCE]
    /\ flight \in [DnsLists -> 0..MaxFlight]

PhaseInv == (phase = "down" <=> doing = "none") /\ ServeInv

ProcessInv == ProcessTypeOK /\ OptionsInv /\ ReasonsInv
ListsInv   == ListsTypeOK /\ ListInv

LEMMA Parts ==
  IInv <=> FileInv /\ StatsInv /\ ProcessInv /\ TimersTypeOK /\ ListsInv /\ PhaseInv
  BY DEF IInv, TypeOK, FileInv, StatsInv, ProcessInv, ProcessTypeOK, TimersTypeOK, ListsTypeOK,
         ListsInv, PhaseInv

LEMMA PartsNext ==
  ASSUME FileInv', StatsInv', ProcessInv', TimersTypeOK', ListsInv', PhaseInv'
  PROVE  IInv'
  BY DEF IInv, TypeOK, FileInv, StatsInv, ProcessInv, ProcessTypeOK, TimersTypeOK, ListsTypeOK,
         ListsInv, PhaseInv

LEMMA EventBound ==
  ASSUME ProcessInv
  PROVE  /\ events \in 0..MaxEvents /\ MaxEvents \in 0..MaxEvents
         /\ Event => events' \in 0..MaxEvents
  BY DaemonAssumption DEF DaemonAssumption, ProcessInv, ProcessTypeOK, Event

(* Steps that leave the configuration alone. *)
LEMMA QuietStep ==
  ASSUME ProcessInv,
         UNCHANGED <<phase, conffile, started, reasons, options, pending, announced, missed>>,
         pidfile_there' \in BOOLEAN, starts' \in 0..MaxStarts, events' \in 0..MaxEvents,
         \/ mpc' = mpc
         \/ phase = "serving" /\ mpc' \in {"stats", "log", "refill", "check", "sleep"}
  PROVE  ProcessInv'
  <1>1. ProcessTypeOK /\ OptionsInv /\ ReasonsInv
    BY DEF ProcessInv
  <1>2. ProcessTypeOK'
    BY <1>1 DEF ProcessTypeOK
  <1>3. OptionsInv'
    BY <1>1 DEF OptionsInv
  <1>4. ReasonsInv'
    <2>1. CASE mpc' = mpc
      BY <1>1, <2>1 DEF ReasonsInv
    <2>2. CASE phase = "serving" /\ mpc' \in {"stats", "log", "refill", "check", "sleep"}
      BY <1>1, <2>2 DEF ReasonsInv
    <2> QED
      BY <2>1, <2>2
  <1> QED
    BY <1>2, <1>3, <1>4 DEF ProcessInv

LEMMA EditStep ==
  ASSUME ProcessInv, NEW f \in ConfFiles, Edit(f)
  PROVE  ProcessInv'
  <1>1. ProcessTypeOK /\ OptionsInv /\ ReasonsInv
    BY DEF ProcessInv
  <1>2. /\ conffile' = f /\ announced' = FALSE
        /\ UNCHANGED <<phase, pidfile_there, starts, started, reasons, options, pending, missed, mpc>>
        /\ Event
    BY DEF Edit, Others
  <1>3. ProcessTypeOK'
    BY <1>1, <1>2, EventBound DEF ProcessTypeOK
  <1>4. OptionsInv'
    BY <1>1, <1>2 DEF OptionsInv
  <1>5. ReasonsInv'
    BY <1>1, <1>2 DEF ReasonsInv
  <1> QED
    BY <1>3, <1>4, <1>5 DEF ProcessInv

LEMMA ReasonsOf ==
  ASSUME NEW f \in ReadableFiles
  PROVE  /\ \A r \in Reasons : gconf(ConfigOf(f), r) = Written(f, r)
         /\ \A r \in Reasons : gconf(ConfigOf(f), r) \in Texts /\ gconf(ConfigOf(f), r) # NULL
  <1>1. PICK c : c = ConfigOf(f)
    OBVIOUS
  <1>2. ReadOK(c, f, Len(f)) /\ f \in ConfFiles
    BY <1>1, ConfigIsRead DEF ReadableFiles
  <1>3. \A r \in Reasons : gconf(c, r) = Written(f, r) /\ gconf(c, r) \in Texts
    BY <1>2, ReadReason
  <1> QED
    BY <1>1, <1>3, NoNulls

LEMMA OptionsOf ==
  ASSUME NEW f \in ReadableFiles
  PROVE  /\ \A k \in ListKinds : /\ Values(ConfigOf(f), k) = WrittenAll(f, k)
                                 /\ Values(ConfigOf(f), k) \subseteq Texts
         /\ \/ statlevel(ConfigOf(f)) = {"full"}
            \/ statlevel(ConfigOf(f)) \subseteq WrittenAll(f, "stat_type")
         /\ statlevel(ConfigOf(f)) \subseteq Texts
  <1>1. PICK c : c = ConfigOf(f)
    OBVIOUS
  <1>2. ReadOK(c, f, Len(f)) /\ f \in ConfFiles
    BY <1>1, ConfigIsRead DEF ReadableFiles
  <1>3. ListKinds \subseteq Multivalues
    BY DEF ListKinds, Multivalues
  <1>4. \A k \in ListKinds : Values(c, k) = WrittenAll(f, k) /\ Values(c, k) \subseteq Texts
    BY <1>2, <1>3, ReadAll
  <1>5. /\ statlevel(c) = {"full"} \/ statlevel(c) \subseteq WrittenAll(f, "stat_type")
        /\ statlevel(c) \subseteq Texts
    BY <1>2, ReadStatType
  <1> QED
    BY <1>1, <1>4, <1>5

LEMMA StartStep ==
  ASSUME ProcessInv, NEW n \in Sizes, NEW b \in Bases, Start(n, b)
  PROVE  ProcessInv'
  <1>1. ProcessTypeOK /\ OptionsInv /\ ReasonsInv
    BY DEF ProcessInv
  <1>2. PICK c : c = ConfigOf(conffile)
    OBVIOUS
  <1>3. /\ phase = "down" /\ starts < MaxStarts /\ conffile \in ReadableFiles
        /\ starts' = starts + 1 /\ pidfile_there' = (pidfile_there \/ pidfile(c))
        /\ UNCHANGED <<events, conffile, pending, missed, mpc>>
    BY <1>2 DEF Start
  <1>4. pidfile_there' \in BOOLEAN
    BY <1>1, <1>3, Zenon DEF ProcessTypeOK
  <1>5. starts' \in 0..MaxStarts
    BY <1>1, <1>3, DaemonAssumption DEF ProcessTypeOK, DaemonAssumption
  <1>6. CASE UNCHANGED <<phase, reasons, options, started, announced>>
    BY <1>1, <1>3, <1>4, <1>5, <1>6, QuietStep DEF ProcessTypeOK
  <1>7. CASE /\ phase' = "starting" /\ started' = conffile /\ announced' = TRUE
             /\ reasons' = [r \in Reasons |-> gconf(c, r)]
             /\ options' = [o \in Options |-> IF o = "stat_type" THEN statlevel(c) ELSE Values(c, o)]
    <2>1. /\ \A r \in Reasons : gconf(c, r) = Written(conffile, r)
          /\ \A r \in Reasons : gconf(c, r) \in Texts
      BY <1>2, <1>3, ReasonsOf
    <2>2. /\ \A k \in ListKinds : Values(c, k) = WrittenAll(conffile, k) /\ Values(c, k) \subseteq Texts
          /\ statlevel(c) = {"full"} \/ statlevel(c) \subseteq WrittenAll(conffile, "stat_type")
          /\ statlevel(c) \subseteq Texts
      BY <1>2, <1>3, OptionsOf
    <2>3. reasons' \in [Reasons -> Texts \cup {NULL}]
      BY <1>7, <2>1
    <2>4. options' \in [Options -> SUBSET Texts]
      BY <1>7, <2>2 DEF Options
    <2>5. ProcessTypeOK'
      <3>1. conffile' \in ConfFiles /\ started' \in ConfFiles
        BY <1>1, <1>3, <1>7 DEF ProcessTypeOK
      <3> QED
        BY <1>1, <1>3, <1>4, <1>5, <1>7, <2>3, <2>4, <3>1 DEF ProcessTypeOK
    <2>6. OptionsInv'
      <3>1. \A k \in ListKinds : k \in Options /\ k # "stat_type"
        BY DEF ListKinds, Options
      <3>2. \A k \in ListKinds : options'[k] = Values(c, k)
        BY <1>7, <3>1
      <3>3. options'["stat_type"] = statlevel(c)
        BY <1>7 DEF Options
      <3> QED
        BY <1>7, <2>2, <3>2, <3>3 DEF OptionsInv
    <2>7. ReasonsInv'
      BY <1>1, <1>3, <1>7, <2>1 DEF ReasonsInv
    <2> QED
      BY <2>5, <2>6, <2>7 DEF ProcessInv
  <1> QED
    BY <1>2, <1>6, <1>7 DEF Start

LEMMA EndStep ==
  ASSUME ProcessInv, End, pidfile_there' \in BOOLEAN, events' \in 0..MaxEvents
  PROVE  ProcessInv'
  <1>1. ProcessTypeOK
    BY DEF ProcessInv
  <1>2. /\ phase' = "down" /\ mpc' = "stats" /\ reasons' = [n \in Reasons |-> NULL]
        /\ options' = [n \in Options |-> {}]
        /\ pending' = FALSE /\ announced' = FALSE /\ missed' = FALSE
        /\ UNCHANGED <<starts, started, conffile>>
    BY DEF End
  <1>3. ProcessTypeOK'
    BY <1>1, <1>2 DEF ProcessTypeOK
  <1>4. OptionsInv' /\ ReasonsInv'
    BY <1>2 DEF OptionsInv, ReasonsInv
  <1> QED
    BY <1>3, <1>4 DEF ProcessInv

LEMMA ServeStep ==
  ASSUME ProcessInv, Serve
  PROVE  ProcessInv'
  <1>1. ProcessTypeOK /\ OptionsInv /\ ReasonsInv
    BY DEF ProcessInv
  <1>2. /\ phase = "starting" /\ phase' = "serving"
        /\ UNCHANGED <<pidfile_there, starts, started, events, conffile, reasons, options,
                       pending, announced, missed, mpc>>
    BY DEF Serve, reload
  <1>3. ProcessTypeOK'
    BY <1>1, <1>2 DEF ProcessTypeOK
  <1>4. OptionsInv'
    BY <1>1, <1>2 DEF OptionsInv
  <1>5. ReasonsInv'
    BY <1>1, <1>2 DEF ReasonsInv
  <1> QED
    BY <1>3, <1>4, <1>5 DEF ProcessInv

LEMMA CheckPendingStep ==
  ASSUME ProcessInv, CheckPending
  PROVE  ProcessInv'
  <1>1. ProcessTypeOK /\ OptionsInv /\ ReasonsInv
    BY DEF ProcessInv
  <1>2. /\ phase = "serving" /\ mpc = "check" /\ mpc' = (IF pending THEN "read" ELSE "sleep")
        /\ UNCHANGED <<phase, pidfile_there, starts, started, events, conffile, reasons, options,
                       pending, announced, missed>>
    BY DEF CheckPending, MainAt, life, reload
  <1>3. ProcessTypeOK'
    BY <1>1, <1>2 DEF ProcessTypeOK
  <1>4. OptionsInv'
    BY <1>1, <1>2 DEF OptionsInv
  <1>5. ReasonsInv'
    BY <1>1, <1>2 DEF ReasonsInv
  <1> QED
    BY <1>3, <1>4, <1>5 DEF ProcessInv

LEMMA ReloadStep ==
  ASSUME ProcessInv, Reload
  PROVE  ProcessInv'
  <1>1. ProcessTypeOK /\ OptionsInv /\ ReasonsInv
    BY DEF ProcessInv
  <1>2. PICK c : c = ConfigOf(conffile)
    OBVIOUS
  <1>3. /\ phase = "serving" /\ mpc = "read" /\ mpc' = "toggle"
        /\ reasons' = IF conffile \in ReadableFiles THEN reconfigure_grossd(c, reasons) ELSE reasons
        /\ UNCHANGED <<phase, pidfile_there, starts, started, events, conffile, options,
                       pending, announced, missed>>
    BY <1>2 DEF Reload, MainAt, life
  <1>4. ASSUME conffile \in ReadableFiles
        PROVE  /\ reasons' \in [Reasons -> Texts \cup {NULL}]
               /\ \A r \in Reasons : reasons'[r] = Written(conffile, r)
    <2>1. /\ \A r \in Reasons : gconf(c, r) = Written(conffile, r)
          /\ \A r \in Reasons : gconf(c, r) \in Texts /\ gconf(c, r) # NULL
      BY <1>2, <1>4, ReasonsOf
    <2>2. reasons' = [r \in Reasons |-> IF gconf(c, r) # NULL THEN gconf(c, r) ELSE reasons[r]]
      BY <1>3, <1>4 DEF reconfigure_grossd
    <2>3. \A r \in Reasons : reasons'[r] = gconf(c, r)
      BY <2>1, <2>2
    <2>4. reasons' \in [Reasons -> Texts \cup {NULL}]
      BY <2>1, <2>2
    <2> QED
      BY <2>1, <2>3, <2>4
  <1>5. ProcessTypeOK'
    BY <1>1, <1>3, <1>4 DEF ProcessTypeOK
  <1>6. OptionsInv'
    BY <1>1, <1>3 DEF OptionsInv
  <1>7. ReasonsInv'
    BY <1>1, <1>3, <1>4 DEF ReasonsInv
  <1> QED
    BY <1>5, <1>6, <1>7 DEF ProcessInv

LEMMA ToggleStep ==
  ASSUME ProcessInv, Toggle
  PROVE  ProcessInv'
  <1>1. ProcessTypeOK /\ OptionsInv /\ ReasonsInv
    BY DEF ProcessInv
  <1>2. /\ phase = "serving" /\ mpc = "toggle" /\ mpc' = "sleep" /\ pending' = ~pending
        /\ UNCHANGED <<phase, pidfile_there, starts, started, events, conffile, reasons, options,
                       announced, missed>>
    BY DEF Toggle, MainAt, life
  <1>3. ProcessTypeOK'
    BY <1>1, <1>2 DEF ProcessTypeOK
  <1>4. OptionsInv'
    BY <1>1, <1>2 DEF OptionsInv
  <1>5. ReasonsInv'
    BY <1>1, <1>2 DEF ReasonsInv
  <1> QED
    BY <1>3, <1>4, <1>5 DEF ProcessInv

LEMMA ReconfigStep ==
  ASSUME ProcessInv, reconfig
  PROVE  ProcessInv'
  <1>1. ProcessTypeOK /\ OptionsInv /\ ReasonsInv
    BY DEF ProcessInv
  <1>2. /\ phase = "serving" /\ pending' = TRUE /\ announced' = TRUE /\ missed' = (mpc = "toggle")
        /\ UNCHANGED <<phase, pidfile_there, starts, started, conffile, reasons, options, mpc>>
        /\ Event
    BY DEF reconfig, Others
  <1>3. ProcessTypeOK'
    <2>1. missed' \in BOOLEAN
      BY <1>2
    <2> QED
      BY <1>1, <1>2, <2>1, EventBound DEF ProcessTypeOK
  <1>4. OptionsInv'
    BY <1>1, <1>2 DEF OptionsInv
  <1>5. ReasonsInv'
    BY <1>1, <1>2 DEF ReasonsInv
  <1> QED
    BY <1>3, <1>4, <1>5 DEF ProcessInv

(* The tolerance counters of the DNS lists. *)
LEMMA ListFacts ==
  ASSUME ListsInv, NEW l \in DnsLists
  PROVE  /\ tolerance[l] \in Int /\ tolerance[l] <= ERRORTOLERANCE
         /\ flight[l] \in 0..MaxFlight /\ tolerance[l] >= flight[l] + 1 - MaxFlight
         /\ ERRORTOLERANCE \in Nat \ {0} /\ MaxFlight \in Nat
  BY DaemonAssumption DEF DaemonAssumption, ListsInv, ListsTypeOK, ListInv

LEMMA FreshLists ==
  ASSUME tolerance' = [l \in DnsLists |-> ERRORTOLERANCE], flight' = [l \in DnsLists |-> 0]
  PROVE  ListsInv'
  BY DaemonAssumption DEF DaemonAssumption, ListsInv, ListsTypeOK, ListInv

LEMMA RefillStep ==
  ASSUME ListsInv, increment_dnsbl_tolerance_counters
  PROVE  ListsInv'
  <1>1. flight' = flight
    BY DEF increment_dnsbl_tolerance_counters
  <1>2. CASE tolerance' = tolerance
    BY <1>1, <1>2 DEF ListsInv, ListsTypeOK, ListInv
  <1>3. CASE tolerance' = [l \in DnsLists |-> IF l[1] = "dnsbl" THEN tolerate_dnsbl(tolerance[l])
                                                               ELSE tolerance[l]]
    <2>1. \A l \in DnsLists : tolerance'[l] = tolerance[l] \/ (tolerance[l] < ERRORTOLERANCE /\ tolerance'[l] = tolerance[l] + 1)
      BY <1>3 DEF tolerate_dnsbl
    <2>2. \A l \in DnsLists : /\ tolerance'[l] \in (1 - MaxFlight)..ERRORTOLERANCE
                              /\ tolerance'[l] >= flight[l] + 1 - MaxFlight
      BY <2>1, ListFacts
    <2>3. tolerance' \in [DnsLists -> (1 - MaxFlight)..ERRORTOLERANCE]
      BY <1>3, <2>2
    <2> QED
      BY <1>1, <2>2, <2>3 DEF ListsInv, ListsTypeOK, ListInv
  <1> QED
    BY <1>2, <1>3 DEF increment_dnsbl_tolerance_counters

LEMMA AskListStep ==
  ASSUME ListsInv, NEW l \in DnsLists, AskList(l)
  PROVE  ListsInv'
  <1>1. /\ tolerance' = tolerance /\ tolerance[l] > 0 /\ flight[l] < MaxFlight
        /\ flight' = [flight EXCEPT ![l] = @ + 1]
    BY DEF AskList, query_clearance
  <1>2. flight' \in [DnsLists -> 0..MaxFlight]
    BY <1>1, ListFacts DEF ListsInv, ListsTypeOK
  <1>3. \A k \in DnsLists : tolerance[k] >= flight'[k] + 1 - MaxFlight
    BY <1>1, ListFacts DEF ListsInv, ListsTypeOK
  <1> QED
    BY <1>1, <1>2, <1>3 DEF ListsInv, ListsTypeOK, ListInv

LEMMA ListAnswersStep ==
  ASSUME ListsInv, NEW l \in DnsLists, NEW timeout \in BOOLEAN, ListAnswers(l, timeout)
  PROVE  ListsInv'
  <1>1. /\ flight[l] > 0 /\ flight' = [flight EXCEPT ![l] = @ - 1]
        /\ \/ tolerance' = tolerance
           \/ tolerance' = [tolerance EXCEPT ![l] = @ - 1]
    BY DEF ListAnswers
  <1>2. flight' \in [DnsLists -> 0..MaxFlight]
    BY <1>1, ListFacts DEF ListsInv, ListsTypeOK
  <1>3. \A k \in DnsLists : /\ tolerance'[k] \in (1 - MaxFlight)..ERRORTOLERANCE
                            /\ tolerance'[k] >= flight'[k] + 1 - MaxFlight
    BY <1>1, ListFacts DEF ListsInv, ListsTypeOK
  <1>4. tolerance' \in [DnsLists -> (1 - MaxFlight)..ERRORTOLERANCE]
    BY <1>1, <1>3 DEF ListsInv, ListsTypeOK
  <1> QED
    BY <1>2, <1>3, <1>4 DEF ListsInv, ListsTypeOK, ListInv

LEMMA ListsStay ==
  ASSUME ListsInv, UNCHANGED lists
  PROVE  ListsInv'
  BY DEF lists, ListsInv, ListsTypeOK, ListInv

(* The invariant holds at the start. *)
LEMMA InitIInv == Init => IInv
  <1> SUFFICES ASSUME Init PROVE IInv
    OBVIOUS
  <1>1. FileInv
    <2>1. /\ file = NoFile /\ num = 0 /\ base = 0 /\ offset = 0 /\ doing = "none" /\ stores = <<>>
          /\ cut = FALSE
      BY DEF Init, StateFileInit
    <2>2. <<>> \in Seq(Ptrs(MaxSize))
      BY EmptySeq
    <2>3. StateFileTypeOK
      <3>1. file \in Files /\ num \in Sizes \cup {0} /\ base \in Bases \cup {0} /\ offset \in Int
        BY <2>1, NoFileType
      <3>2. /\ doing \in {"none", "init", "walk", "ready"} /\ stores \in Seq(Ptrs(MaxSize))
            /\ doing \in {"init", "walk"} <=> stores # <<>>
        BY <2>1, <2>2
      <3>3. cut \in BOOLEAN
        BY <2>1, Zenon
      <3> QED
        BY <3>1, <3>2, <3>3, Zenon DEF StateFileTypeOK, Files
    <2>4. RingInv
      BY <2>1, NoFileType DEF RingInv
    <2> QED
      BY <2>3, <2>4 DEF FileInv
  <1>2. StatsInv
    <2>1. /\ mx = "free" /\ count = Zeros /\ all = Zeros /\ avg_delay = Zeros /\ max_delay = Zeros
          /\ worker = [w \in Workers |-> Idle] /\ logged = Zeros
      BY DEF Init, StatsInit
    <2>2. StatsTypeOK
      BY <2>1, ZerosType, IdleType DEF StatsTypeOK
    <2>3. \A s \in Statuses : {w \in Workers : worker[w].pc = "all" /\ worker[w].status = s} = {}
      BY <2>1, IdleType
    <2>4. AddUp
      BY <2>1, <2>3, ZerosType, FS_EmptySet DEF AddUp
    <2>5. \A s \in Statuses : avg_delay[s] <= max_delay[s]
      BY <2>1, ZerosType
    <2> QED
      BY <2>2, <2>4, <2>5 DEF StatsInv, StatsConsistent
  <1>3. ProcessInv
    <2>1. ProcessTypeOK
      <3>1. pidfile_there \in BOOLEAN /\ pending \in BOOLEAN /\ announced \in BOOLEAN /\ missed \in BOOLEAN
        BY Zenon DEF Init
      <3>2. /\ phase \in {"down", "starting", "serving"}
            /\ mpc \in {"stats", "log", "refill", "check", "read", "toggle", "sleep"}
            /\ conffile \in ConfFiles /\ started \in ConfFiles
        BY DEF Init
      <3>3. starts \in 0..MaxStarts /\ events \in 0..MaxEvents
        BY DaemonAssumption DEF DaemonAssumption, Init
      <3>4. reasons \in [Reasons -> Texts \cup {NULL}] /\ options \in [Options -> SUBSET Texts]
        BY DEF Init
      <3> QED
        BY <3>1, <3>2, <3>3, <3>4, Zenon DEF ProcessTypeOK
    <2> QED
      BY <2>1 DEF Init, ProcessInv, OptionsInv, ReasonsInv
  <1>4. TimersTypeOK
    BY DaemonAssumption DEF DaemonAssumption, Init, TimersTypeOK
  <1>5. ListsInv
    BY DaemonAssumption DEF DaemonAssumption, Init, ListsInv, ListsTypeOK, ListInv
  <1>6. PhaseInv
    BY DEF Init, StateFileInit, PhaseInv, ServeInv
  <1> QED
    BY <1>1, <1>2, <1>3, <1>4, <1>5, <1>6, Parts

(* Every step keeps it. *)
LEMMA NextIInv == IInv /\ [Next]_vars => IInv'
  <1> SUFFICES ASSUME IInv, [Next]_vars
               PROVE  FileInv' /\ StatsInv' /\ ProcessInv' /\ TimersTypeOK' /\ ListsInv' /\ PhaseInv'
    BY PartsNext
  <1>0. FileInv /\ StatsInv /\ ProcessInv /\ TimersTypeOK /\ ListsInv /\ PhaseInv
    BY Parts
  <1> DEFINE Quiet == UNCHANGED <<conffile, started, reasons, options, pending, announced, missed>>
  <1>a. UNCHANGED timers => TimersTypeOK'
    BY <1>0 DEF timers, TimersTypeOK
  <1>b. UNCHANGED lists => ListsInv'
    BY <1>0, ListsStay
  <1>c. UNCHANGED statistics => StatsInv'
    BY <1>0, StatsStay
  <1>d. UNCHANGED statefile => FileInv' /\ doing' = doing
    BY <1>0, FileStays
  <1>e. phase' = phase /\ doing' = doing => PhaseInv'
    BY <1>0 DEF PhaseInv, ServeInv
  <1>f. pidfile_there \in BOOLEAN /\ starts \in 0..MaxStarts /\ events \in 0..MaxEvents
    BY <1>0 DEF ProcessInv, ProcessTypeOK
  <1>1. CASE UNCHANGED vars
    <2>1. UNCHANGED <<life, reload, mpc, timers, lists, statefile, statistics>>
      BY <1>1 DEF vars
    <2>2. ProcessInv'
      BY <1>0, <1>f, <2>1, QuietStep DEF life, reload
    <2> QED
      BY <1>a, <1>b, <1>c, <1>d, <1>e, <2>1, <2>2 DEF life
  <1>2. ASSUME NEW f \in ConfFiles, Edit(f)
        PROVE  FileInv' /\ StatsInv' /\ ProcessInv' /\ TimersTypeOK' /\ ListsInv' /\ PhaseInv'
    <2>1. UNCHANGED <<timers, lists, statefile, statistics>> /\ phase' = phase
      BY <1>2 DEF Edit, Others
    <2>2. ProcessInv'
      BY <1>0, <1>2, EditStep
    <2> QED
      BY <1>a, <1>b, <1>c, <1>d, <1>e, <2>1, <2>2
  <1>3. CASE CreateStatefile
    <2>1. UNCHANGED <<life, reload, mpc, timers, lists, statistics>> /\ phase = "down"
      BY <1>3 DEF CreateStatefile
    <2>2. ProcessInv'
      BY <1>0, <1>f, <2>1, QuietStep DEF life, reload
    <2>3. FileInv' /\ doing' = doing
      BY <1>0, <1>3, <2>1, CreateStep DEF CreateStatefile, PhaseInv, ServeInv
    <2> QED
      BY <1>a, <1>b, <1>c, <1>e, <2>1, <2>2, <2>3 DEF life
  <1>4. CASE CleanUp
    <2>1. /\ UNCHANGED <<phase, starts, started, events, reload, mpc, timers, lists, statistics>>
          /\ phase = "down" /\ pidfile_there' \in BOOLEAN
      BY <1>4, <1>f DEF CleanUp
    <2>2. ProcessInv'
      BY <1>0, <1>f, <2>1, QuietStep DEF reload
    <2>3. FileInv' /\ doing' = doing
      <3>1. CASE RemoveStatefile
        BY <1>0, <2>1, <3>1, RemoveFileStep DEF PhaseInv, ServeInv
      <3>2. CASE UNCHANGED statefile
        BY <1>d, <3>2
      <3> QED
        BY <1>4, <3>1, <3>2 DEF CleanUp
    <2> QED
      BY <1>a, <1>b, <1>c, <1>e, <2>1, <2>2, <2>3
  <1>5. ASSUME NEW n \in Sizes, NEW b \in Bases, Start(n, b)
        PROVE  FileInv' /\ StatsInv' /\ ProcessInv' /\ TimersTypeOK' /\ ListsInv' /\ PhaseInv'
    <2>1. UNCHANGED <<timers, lists, statistics>> /\ phase = "down"
      BY <1>5 DEF Start
    <2>2. ProcessInv'
      BY <1>0, <1>5, StartStep
    <2>3. FileInv' /\ PhaseInv'
      <3>1. CASE MapFile(n, b) /\ phase' = "starting"
        BY <1>0, <2>1, <3>1, MapStep DEF PhaseInv, ServeInv
      <3>2. CASE UNCHANGED statefile /\ phase' = phase
        BY <1>d, <1>e, <3>2
      <3> QED
        BY <1>5, <3>1, <3>2 DEF Start
    <2> QED
      BY <1>a, <1>b, <1>c, <2>1, <2>2, <2>3
  <1>6. CASE Store
    <2>1. UNCHANGED <<life, reload, mpc, timers, lists, statistics>> /\ phase = "starting"
      BY <1>6 DEF Store
    <2>2. ProcessInv'
      BY <1>0, <1>f, <2>1, QuietStep DEF life, reload
    <2>3. FileInv' /\ doing' # "none"
      BY <1>0, <1>6, StoreNewStep, ChangeAddressStep DEF Store
    <2>4. PhaseInv'
      BY <2>1, <2>3 DEF PhaseInv, ServeInv, life
    <2> QED
      BY <1>a, <1>b, <1>c, <2>1, <2>2, <2>3, <2>4
  <1>7. CASE Serve
    <2>1. /\ UNCHANGED <<timers, lists, statefile, statistics>>
          /\ phase = "starting" /\ phase' = "serving" /\ doing = "ready"
      BY <1>7 DEF Serve
    <2>2. ProcessInv'
      BY <1>0, <1>7, ServeStep
    <2>3. PhaseInv'
      BY <1>d, <2>1 DEF PhaseInv, ServeInv
    <2> QED
      BY <1>a, <1>b, <1>c, <1>d, <2>1, <2>2, <2>3
  <1>8. ASSUME End, phase # "down", pidfile_there' \in BOOLEAN, events' \in 0..MaxEvents
        PROVE  FileInv' /\ StatsInv' /\ ProcessInv' /\ TimersTypeOK' /\ ListsInv' /\ PhaseInv'
    <2>1. /\ Unmap /\ init_stats /\ since_stats' = 0 /\ since_refill' = 0 /\ phase' = "down"
          /\ tolerance' = [l \in DnsLists |-> ERRORTOLERANCE] /\ flight' = [l \in DnsLists |-> 0]
      BY <1>8 DEF End
    <2>2. FileInv' /\ doing' = "none"
      BY <1>0, <1>8, <2>1, UnmapStep DEF PhaseInv, ServeInv
    <2>3. StatsInv'
      BY <2>1, FreshStats
    <2>4. ProcessInv'
      BY <1>0, <1>8, EndStep
    <2>5. TimersTypeOK'
      BY <2>1, DaemonAssumption DEF DaemonAssumption, TimersTypeOK
    <2>6. ListsInv'
      BY <2>1, FreshLists
    <2> QED
      BY <2>1, <2>2, <2>3, <2>4, <2>5, <2>6 DEF PhaseInv, ServeInv
  <1>9. CASE Die
    <2>1. End /\ phase # "down" /\ pidfile_there' \in BOOLEAN
      BY <1>9, <1>f DEF Die
    <2>2. events' \in 0..MaxEvents
      BY <1>0, <1>9, EventBound DEF Die
    <2> QED
      BY <1>8, <2>1, <2>2
  <1>10. CASE mrproper
    <2>1. End /\ phase # "down" /\ events' \in 0..MaxEvents
      BY <1>10, <1>f DEF mrproper
    <2>2. pidfile_there' \in BOOLEAN
      BY <1>10, <1>f, Zenon DEF mrproper
    <2> QED
      BY <1>8, <2>1, <2>2
  <1>11. CASE ReportStats
    <2>1. /\ UNCHANGED <<life, reload, since_refill, lists, statefile>> /\ phase = "serving"
          /\ mpc' \in {"log", "refill"}
          /\ since_stats' \in {0, since_stats}
      BY <1>11 DEF ReportStats, MainAt
    <2>2. ProcessInv'
      BY <1>0, <1>f, <2>1, QuietStep DEF life, reload
    <2>3. TimersTypeOK'
      BY <1>0, <2>1, DaemonAssumption DEF DaemonAssumption, TimersTypeOK
    <2>4. StatsInv'
      BY <1>0, <1>11, <1>c, ZeroStatsStep DEF ReportStats
    <2> QED
      BY <1>b, <1>d, <1>e, <2>1, <2>2, <2>3, <2>4 DEF life
  <1>12. CASE log_stats
    <2>1. /\ UNCHANGED <<life, reload, timers, lists, statefile, statistics>> /\ phase = "serving"
          /\ mpc' = "refill"
      BY <1>12 DEF log_stats, MainAt
    <2>2. ProcessInv'
      BY <1>0, <1>f, <2>1, QuietStep DEF life, reload
    <2> QED
      BY <1>a, <1>b, <1>c, <1>d, <1>e, <2>1, <2>2 DEF life
  <1>13. CASE increment_dnsbl_tolerance_counters
    <2>1. /\ UNCHANGED <<life, reload, since_stats, statefile, statistics>> /\ phase = "serving"
          /\ mpc' = "check" /\ since_refill' \in {0, since_refill}
      BY <1>13 DEF increment_dnsbl_tolerance_counters, MainAt
    <2>2. ProcessInv'
      BY <1>0, <1>f, <2>1, QuietStep DEF life, reload
    <2>3. TimersTypeOK'
      BY <1>0, <2>1, DaemonAssumption DEF DaemonAssumption, TimersTypeOK
    <2>4. ListsInv'
      BY <1>0, <1>13, RefillStep
    <2> QED
      BY <1>c, <1>d, <1>e, <2>1, <2>2, <2>3, <2>4 DEF life
  <1>14. CASE CheckPending
    <2>1. UNCHANGED <<life, timers, lists, statefile, statistics>>
      BY <1>14 DEF CheckPending
    <2>2. ProcessInv'
      BY <1>0, <1>14, CheckPendingStep
    <2> QED
      BY <1>a, <1>b, <1>c, <1>d, <1>e, <2>1, <2>2 DEF life
  <1>15. CASE Reload
    <2>1. UNCHANGED <<life, timers, lists, statefile, statistics>>
      BY <1>15 DEF Reload
    <2>2. ProcessInv'
      BY <1>0, <1>15, ReloadStep
    <2> QED
      BY <1>a, <1>b, <1>c, <1>d, <1>e, <2>1, <2>2 DEF life
  <1>16. CASE Toggle
    <2>1. UNCHANGED <<life, timers, lists, statefile, statistics>>
      BY <1>16 DEF Toggle
    <2>2. ProcessInv'
      BY <1>0, <1>16, ToggleStep
    <2> QED
      BY <1>a, <1>b, <1>c, <1>d, <1>e, <2>1, <2>2 DEF life
  <1>17. CASE Sleep
    <2>1. /\ UNCHANGED <<life, reload, lists, statefile, statistics>> /\ phase = "serving"
          /\ mpc' = "stats"
          /\ since_stats' = IF since_stats > StatInterval THEN since_stats ELSE since_stats + 1
          /\ since_refill' = IF since_refill >= RefillInterval THEN since_refill ELSE since_refill + 1
      BY <1>17 DEF Sleep, MainAt
    <2>2. ProcessInv'
      BY <1>0, <1>f, <2>1, QuietStep DEF life, reload
    <2>3. TimersTypeOK'
      BY <1>0, <2>1, DaemonAssumption DEF DaemonAssumption, TimersTypeOK
    <2> QED
      BY <1>b, <1>c, <1>d, <1>e, <2>1, <2>2, <2>3 DEF life
  <1>18. CASE reconfig
    <2>1. UNCHANGED <<timers, lists, statefile, statistics>> /\ phase' = phase
      BY <1>18 DEF reconfig, Others
    <2>2. ProcessInv'
      BY <1>0, <1>18, ReconfigStep
    <2> QED
      BY <1>a, <1>b, <1>c, <1>d, <1>e, <2>1, <2>2
  <1>19. ASSUME NEW l \in DnsLists, AskList(l)
         PROVE  FileInv' /\ StatsInv' /\ ProcessInv' /\ TimersTypeOK' /\ ListsInv' /\ PhaseInv'
    <2>1. UNCHANGED <<Others, reload, mpc, timers, statefile, statistics>> /\ events' \in 0..MaxEvents
      BY <1>0, <1>19, EventBound DEF AskList
    <2>2. ProcessInv'
      BY <1>0, <1>f, <2>1, QuietStep DEF Others, reload
    <2>3. ListsInv'
      BY <1>0, <1>19, AskListStep
    <2> QED
      BY <1>a, <1>c, <1>d, <1>e, <2>1, <2>2, <2>3 DEF Others
  <1>20. ASSUME NEW l \in DnsLists, NEW t \in BOOLEAN, ListAnswers(l, t)
         PROVE  FileInv' /\ StatsInv' /\ ProcessInv' /\ TimersTypeOK' /\ ListsInv' /\ PhaseInv'
    <2>1. UNCHANGED <<life, reload, mpc, timers, statefile, statistics>>
      BY <1>20 DEF ListAnswers
    <2>2. ProcessInv'
      BY <1>0, <1>f, <2>1, QuietStep DEF life, reload
    <2>3. ListsInv'
      BY <1>0, <1>20, ListAnswersStep
    <2> QED
      BY <1>a, <1>c, <1>d, <1>e, <2>1, <2>2, <2>3 DEF life
  <1>21. ASSUME NEW w \in Workers, EndQuery(w)
         PROVE  FileInv' /\ StatsInv' /\ ProcessInv' /\ TimersTypeOK' /\ ListsInv' /\ PhaseInv'
    <2>1. UNCHANGED <<life, reload, mpc, timers, lists, statefile>>
      BY <1>21 DEF EndQuery
    <2>2. ProcessInv'
      BY <1>0, <1>f, <2>1, QuietStep DEF life, reload
    <2>3. StatsInv'
      <3>1. CASE IncfAll(w)
        BY <1>0, <3>1, IncfAllStep
      <3>2. ASSUME NEW d \in Delays, delay_update(w, d)
            PROVE  StatsInv'
        BY <1>0, <3>2, DelayUpdateStep
      <3>3. IncfAll(w) \/ \E d \in Delays : delay_update(w, d)
        BY <1>21, Zenon DEF EndQuery
      <3> QED
        BY <3>1, <3>2, <3>3, Zenon
    <2> QED
      BY <1>a, <1>b, <1>d, <1>e, <2>1, <2>2, <2>3 DEF life
  <1>22. ASSUME NEW w \in Workers, NEW s \in Statuses, CountQuery(w, s)
         PROVE  FileInv' /\ StatsInv' /\ ProcessInv' /\ TimersTypeOK' /\ ListsInv' /\ PhaseInv'
    <2>1. UNCHANGED <<Others, reload, mpc, timers, lists, statefile>> /\ events' \in 0..MaxEvents
      BY <1>0, <1>22, EventBound DEF CountQuery
    <2>2. ProcessInv'
      BY <1>0, <1>f, <2>1, QuietStep DEF Others, reload
    <2>3. StatsInv'
      BY <1>0, <1>22, IncfPeriodStep DEF CountQuery
    <2> QED
      BY <1>a, <1>b, <1>d, <1>e, <2>1, <2>2, <2>3 DEF Others
  <1>23. CASE srvstatus
    <2>1. UNCHANGED <<Others, reload, mpc, timers, lists, statefile>> /\ events' \in 0..MaxEvents
      BY <1>0, <1>23, EventBound DEF srvstatus
    <2>2. ProcessInv'
      BY <1>0, <1>f, <2>1, QuietStep DEF Others, reload
    <2>3. StatsInv'
      <3>1. /\ mx = "free" /\ mx' \in {"free", "status"}
            /\ UNCHANGED <<count, all, avg_delay, max_delay, worker, logged>>
        BY <1>23 DEF srvstatus, get_srvstatus
      <3> QED
        BY <1>0, <3>1, SrvstatusStep
    <2> QED
      BY <1>a, <1>b, <1>d, <1>e, <2>1, <2>2, <2>3 DEF Others
  <1>24. CASE Main
    BY <1>11, <1>12, <1>13, <1>14, <1>15, <1>16, <1>17, <1>24, Zenon DEF Main
  <1>25. CASE \E l \in DnsLists : AskList(l) \/ \E t \in BOOLEAN : ListAnswers(l, t)
    BY <1>19, <1>20, <1>25, Zenon
  <1>26. CASE \E w \in Workers : EndQuery(w) \/ \E s \in Statuses : CountQuery(w, s)
    BY <1>21, <1>22, <1>26, Zenon
  <1>27. CASE (\E f \in ConfFiles : Edit(f)) \/ \E n \in Sizes, b \in Bases : Start(n, b)
    BY <1>2, <1>5, <1>27, Zenon
  <1>28. CASE Next
    BY <1>3, <1>4, <1>6, <1>7, <1>9, <1>10, <1>18, <1>23, <1>24, <1>25, <1>26, <1>27, <1>28, Zenon
       DEF Next
  <1> QED
    BY <1>1, <1>28

----------------------------------------------------------------------------
(* The program's state, the state file and the statistics keep their form, *)
(* and the invariant above holds, in every run of grossd processes.        *)
THEOREM InvariantHolds == Spec => []IInv
  <1>1. Init => IInv
    BY InitIInv
  <1>2. IInv /\ [Next]_vars => IInv'
    BY NextIInv
  <1> QED
    BY <1>1, <1>2, PTL DEF Spec

(* Type correctness: in particular a tolerance counter never falls below   *)
(* what the lookups under way can still take from it.                      *)
THEOREM TypeCorrect == Spec => []TypeOK
  <1>1. IInv => TypeOK
    BY DEF IInv
  <1> QED
    BY <1>1, InvariantHolds, PTL

(* walk_mmap_info(): a process that serves has all pointers of its ring in *)
(* its own mapping, unless an earlier process died while it stored them.   *)
THEOREM RingIsWhole == Spec => []StateFileWhole
  <1>1. IInv => StateFileWhole
    BY DEF IInv, RingInv, ServeInv, StateFileWhole
  <1> QED
    BY <1>1, InvariantHolds, PTL

(* record_config_item(), main(): the options and the reasons in effect are *)
(* those a reader of the configuration file expects.                       *)
THEOREM FileInEffect == Spec => []ConfigInEffect
  <1>1. IInv => ConfigInEffect
    <2> SUFFICES ASSUME IInv, phase = "serving"
                 PROVE  /\ \A k \in ListKinds : options[k] = WrittenAll(started, k)
                        /\ \/ options["stat_type"] = {"full"}
                           \/ options["stat_type"] \subseteq WrittenAll(started, "stat_type")
                        /\ announced /\ ~pending /\ ~missed /\ conffile \in ReadableFiles =>
                              \A r \in Reasons : reasons[r] = WrittenIn[conffile][r]
      BY DEF ConfigInEffect
    <2>1. OptionsInv /\ ReasonsInv
      BY DEF IInv
    <2>2. /\ \A k \in ListKinds : options[k] = WrittenAll(started, k)
          /\ \/ options["stat_type"] = {"full"}
             \/ options["stat_type"] \subseteq WrittenAll(started, "stat_type")
      BY <2>1 DEF OptionsInv
    <2>3. ASSUME announced, ~pending, ~missed, conffile \in ReadableFiles
          PROVE  \A r \in Reasons : reasons[r] = WrittenIn[conffile][r]
      <3>1. \A r \in Reasons : reasons[r] = Written(conffile, r)
        BY <2>1, <2>3 DEF ReasonsInv
      <3>2. conffile \in ConfFiles
        BY <2>3 DEF ReadableFiles
      <3>3. \A r \in Reasons : WrittenIn[conffile][r] = Written(conffile, r)
        BY <3>2 DEF WrittenIn
      <3> QED
        BY <3>1, <3>3
    <2> QED
      BY <2>2, <2>3
  <1> QED
    BY <1>1, InvariantHolds, PTL

(* update_counters(), log_stats(): every query is in the total and in      *)
(* exactly one report, and no average delay exceeds the longest one.       *)
THEOREM StatsAddUp == Spec => []StatsConsistent
  <1>1. IInv => StatsConsistent
    BY DEF IInv
  <1> QED
    BY <1>1, InvariantHolds, PTL
=============================================================================
