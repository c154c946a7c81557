----------------------- MODULE MappingEditors_proofs -----------------------
(***************************************************************************)
(* Proofs about the two ways of editing mapping rules, the settings popup  *)
(* and the mapping tools of the broker, for any documents, presets, rules, *)
(* patterns and names.                                                     *)
(*                                                                         *)
(* SettingsEditor: a draft stays as valid as what it was opened from,      *)
(* every cursor is on something and follows what it is on, and what no one *)
(* sees change does not change.                                            *)
(*                                                                         *)
(* MappingTools: an answer, a preview and a stored revision do what the    *)
(* call says and nothing else, whatever anyone else stored meanwhile.      *)
(***************************************************************************)
EXTENDS SettingsEditor, MappingTools, Sums, SequenceTheorems

(***************************************************************************)
(*                             SETTINGS EDITOR                             *)
(***************************************************************************)

(***************************************************************************)
(* Numbers and sequences.                                                  *)
(***************************************************************************)
LEMMA MaxMin ==
  ASSUME NEW a \in Int, NEW b \in Int
  PROVE  /\ Max({a, b}) = IF a >= b THEN a ELSE b
         /\ Min({a, b}) = IF a <= b THEN a ELSE b
<1>1. Max({a, b}) \in {a, b} /\ \A y \in {a, b} : Max({a, b}) >= y
  <2>1. \E x \in {a, b} : \A y \in {a, b} : x >= y
    OBVIOUS
  <2> QED BY <2>1 DEF Max
<1>2. Min({a, b}) \in {a, b} /\ \A y \in {a, b} : Min({a, b}) <= y
  <2>1. \E x \in {a, b} : \A y \in {a, b} : x <= y
    OBVIOUS
  <2> QED BY <2>1 DEF Min
<1> QED
  BY <1>1, <1>2

LEMMA LeastPlace ==
  ASSUME NEW n \in Nat, NEW I \in SUBSET (1..n)
  PROVE  /\ I # {} => Min(I) \in I /\ \A i \in I : Min(I) <= i
<1> SUFFICES ASSUME I # {} PROVE Min(I) \in I /\ \A i \in I : Min(I) <= i
  OBVIOUS
<1>1. IsFiniteSet(I) /\ I \subseteq Int
  <2>1. IsFiniteSet(1..n)
    BY FS_Interval
  <2>2. IsFiniteSet(I)
    BY <2>1, FS_Subset
  <2> QED BY <2>2
<1>2. \E x, y \in I : \A z \in I : x <= z /\ z <= y
  BY <1>1, HasExtremes
<1> QED
  BY <1>2 DEF Min

\* The sequence u is s without its element at i, with e at i besides, or with
\* another element at i.
Without(u, s, i) ==
  Len(u) = Len(s) - 1 /\ \A k \in 1..(Len(s) - 1) : u[k] = IF k < i THEN s[k] ELSE s[k + 1]
With(u, s, i, e) ==
  /\ Len(u) = Len(s) + 1
  /\ \A k \in 1..(Len(s) + 1) : u[k] = IF k < i THEN s[k] ELSE IF k = i THEN e ELSE s[k - 1]
ButFor(u, s, i) ==
  Len(u) = Len(s) /\ \A k \in DOMAIN s \ {i} : u[k] = s[k]

LEMMA RemovedIs ==
  ASSUME NEW S, NEW s \in Seq(S), NEW i \in DOMAIN s
  PROVE  RemoveAt(s, i) \in Seq(S) /\ Without(RemoveAt(s, i), s, i)
<1> DEFINE a == SubSeq(s, 1, i - 1)
           b == SubSeq(s, i + 1, Len(s))
<1>1. Len(s) \in Nat /\ i \in 1..Len(s) /\ \A k \in 1..Len(s) : s[k] \in S
  BY LenProperties, ElementOfSeq
<1>2. a \in Seq(S) /\ Len(a) = i - 1 /\ \A k \in 1..(i - 1) : a[k] = s[k]
  <2>1. /\ a \in Seq(S)
        /\ Len(a) = IF 1 <= i - 1 THEN i - 1 - 1 + 1 ELSE 0
        /\ \A k \in 1..(i - 1 - 1 + 1) : a[k] = s[1 + k - 1]
    BY <1>1, SubSeqProperties
  <2> HIDE DEF a
  <2> QED BY <1>1, <2>1
<1>3. b \in Seq(S) /\ Len(b) = Len(s) - i /\ \A k \in 1..(Len(s) - i) : b[k] = s[k + i]
  <2>1. /\ b \in Seq(S)
        /\ Len(b) = IF i + 1 <= Len(s) THEN Len(s) - (i + 1) + 1 ELSE 0
        /\ \A k \in 1..(Len(s) - (i + 1) + 1) : b[k] = s[(i + 1) + k - 1]
    BY <1>1, SubSeqProperties
  <2> HIDE DEF b
  <2> QED BY <1>1, <2>1
<1>4. RemoveAt(s, i) = a \o b
  BY DEF RemoveAt
<1> HIDE DEF a, b
<1>5. /\ a \o b \in Seq(S) /\ Len(a \o b) = Len(a) + Len(b)
      /\ \A k \in 1..(Len(a) + Len(b)) :
           (a \o b)[k] = IF k <= Len(a) THEN a[k] ELSE b[k - Len(a)]
  BY <1>2, <1>3, ConcatProperties
<1>6. ASSUME NEW k \in 1..(Len(s) - 1)
      PROVE  (a \o b)[k] = IF k < i THEN s[k] ELSE s[k + 1]
  <2>1. k \in 1..(Len(a) + Len(b)) /\ k \in Int
    BY <1>1, <1>2, <1>3
  <2>2. CASE k < i
    <3>1. k \in 1..(i - 1) /\ k <= Len(a)
      BY <1>1, <1>2, <2>1, <2>2
    <3> QED BY <1>2, <1>5, <2>1, <2>2, <3>1
  <2>3. CASE ~(k < i)
    <3>1. k - Len(a) \in 1..(Len(s) - i) /\ ~(k <= Len(a)) /\ (k - Len(a)) + i = k + 1
      BY <1>1, <1>2, <2>1, <2>3
    <3> QED BY <1>3, <1>5, <2>1, <2>3, <3>1
  <2> QED BY <2>2, <2>3
<1>7. Len(a \o b) = Len(s) - 1
  BY <1>1, <1>2, <1>3, <1>5
<1> QED
  BY <1>4, <1>5, <1>6, <1>7 DEF Without

LEMMA InsertedIs ==
  ASSUME NEW S, NEW s \in Seq(S), NEW e \in S, NEW i \in 1..(Len(s) + 1)
  PROVE  InsertAt(s, i, e) \in Seq(S) /\ With(InsertAt(s, i, e), s, i, e)
<1> DEFINE a == SubSeq(s, 1, i - 1)
           b == SubSeq(s, i, Len(s))
           m == <<e>>
<1>1. Len(s) \in Nat /\ \A k \in 1..Len(s) : s[k] \in S
  BY LenProperties, ElementOfSeq
<1>2. a \in Seq(S) /\ Len(a) = i - 1 /\ \A k \in 1..(i - 1) : a[k] = s[k]
  <2>1. /\ a \in Seq(S)
        /\ Len(a) = IF 1 <= i - 1 THEN i - 1 - 1 + 1 ELSE 0
        /\ \A k \in 1..(i - 1 - 1 + 1) : a[k] = s[1 + k - 1]
    BY <1>1, SubSeqProperties
  <2> HIDE DEF a
  <2> QED BY <1>1, <2>1
<1>3. b \in Seq(S) /\ Len(b) = Len(s) + 1 - i /\ \A k \in 1..(Len(s) + 1 - i) : b[k] = s[k + i - 1]
  <2>1. /\ b \in Seq(S)
        /\ Len(b) = IF i <= Len(s) THEN Len(s) - i + 1 ELSE 0
        /\ \A k \in 1..(Len(s) - i + 1) : b[k] = s[i + k - 1]
    BY <1>1, SubSeqProperties
  <2> HIDE DEF a, b, m
  <2>2. Len(b) = Len(s) + 1 - i
    BY <1>1, <2>1
  <2>3. ASSUME NEW k \in 1..(Len(s) + 1 - i) PROVE b[k] = s[k + i - 1]
    <3>1. k \in 1..(Len(s) - i + 1) /\ i + k - 1 = k + i - 1
      BY <1>1
    <3> QED BY <2>1, <3>1
  <2> QED BY <2>1, <2>2, <2>3
<1>4. InsertAt(s, i, e) = (a \o m) \o b
  BY DEF InsertAt
<1>5. m \in Seq(S) /\ Len(m) = 1 /\ m[1] = e
  OBVIOUS
<1> HIDE DEF a, b, m
<1>6. /\ a \o m \in Seq(S) /\ Len(a \o m) = Len(a) + Len(m)
      /\ \A k \in 1..(Len(a) + Len(m)) :
           (a \o m)[k] = IF k <= Len(a) THEN a[k] ELSE m[k - Len(a)]
  BY <1>2, <1>5, ConcatProperties
<1>7. /\ a \o m \in Seq(S) /\ Len(a \o m) = i
      /\ \A k \in 1..i : (a \o m)[k] = IF k < i THEN s[k] ELSE e
  BY <1>1, <1>2, <1>5, <1>6
<1> DEFINE c == a \o m
<1>c. c \in Seq(S)
  BY <1>7
<1> HIDE DEF c
<1>8. /\ c \o b \in Seq(S) /\ Len(c \o b) = Len(c) + Len(b)
      /\ \A k \in 1..(Len(c) + Len(b)) :
           (c \o b)[k] = IF k <= Len(c) THEN c[k] ELSE b[k - Len(c)]
  BY <1>3, <1>c, ConcatProperties
<1>9. Len(c) = i /\ \A k \in 1..i : c[k] = IF k < i THEN s[k] ELSE e
  BY <1>7 DEF c
<1>10. InsertAt(s, i, e) = c \o b
  BY <1>4 DEF c
<1>11. With(c \o b, s, i, e)
  BY <1>1, <1>3, <1>8, <1>9 DEF With
<1> QED
  BY <1>8, <1>10, <1>11

LEMMA OptionIs ==
  ASSUME NEW S, NEW o \in Options(S), o # << >>
  PROVE  o = <<o[1]>> /\ o[1] \in S /\ Len(o) = 1
<1>1. o \in Seq(S) /\ Len(o) = 1
  <2>1. o \in Seq(S) /\ Len(o) <= 1
    BY DEF Options
  <2>2. Len(o) \in Nat /\ Len(o) # 0
    BY <2>1, EmptySeq
  <2>3. \A n \in Nat : n <= 1 /\ n # 0 => n = 1
    OBVIOUS
  <2> QED BY <2>1, <2>2, <2>3
<1>2. o[1] \in S
  BY <1>1
<1>3. <<o[1]>> \in Seq(S) /\ Len(<<o[1]>>) = 1 /\ <<o[1]>>[1] = o[1]
  BY <1>2
<1>4. o = <<o[1]>>
  BY <1>1, <1>3, SeqEqual
<1> QED
  BY <1>1, <1>2, <1>4

LEMMA OptionOf ==
  ASSUME NEW S
  PROVE  << >> \in Options(S) /\ \A x \in S : <<x>> \in Options(S)
<1>1. << >> \in Seq(S) /\ Len(<< >>) <= 1
  BY EmptySeq
<1>2. ASSUME NEW x \in S PROVE <<x>> \in Seq(S) /\ Len(<<x>>) <= 1
  OBVIOUS
<1> QED
  BY <1>1, <1>2 DEF Options

(***************************************************************************)
(* Names.                                                                  *)
(***************************************************************************)
LEMMA TrimIs ==
  ASSUME NEW n \in Names
  PROVE  /\ Trim(n) \in Names /\ Trim(Trim(n)) = Trim(n) /\ Trim(n).text = n.text
         /\ IsBlank(Trim(n)) <=> IsBlank(n)
BY DEF Trim, Names, IsBlank

LEMMA ProxyIs ==
  ASSUME NEW px \in Proxies, px # << >>
  PROVE  /\ px = <<px[1]>> /\ px[1] \in ProxyRecords
         /\ px[1].presets \in Seq(PresetRecords) /\ px[1].active \in Options(Names)
         /\ \A i \in DOMAIN px[1].presets : px[1].presets[i].name \in Names
<1>1. px = <<px[1]>> /\ px[1] \in ProxyRecords
  BY OptionIs DEF Proxies
<1>2. px[1].presets \in Seq(PresetRecords) /\ px[1].active \in Options(Names)
  BY <1>1 DEF ProxyRecords
<1>3. \A i \in DOMAIN px[1].presets : px[1].presets[i] \in PresetRecords
  BY <1>2
<1> QED
  BY <1>1, <1>2, <1>3 DEF PresetRecords

LEMMA PresetIndexIs ==
  ASSUME NEW px \in Proxies, px # << >>, NEW name
  PROVE  /\ PresetIndex(px, name) \in 0..Len(px[1].presets)
         /\ PresetIndex(px, name) # 0 =>
              /\ PresetIndex(px, name) \in DOMAIN px[1].presets
              /\ Trim(px[1].presets[PresetIndex(px, name)].name) = Trim(name)
         /\ \A j \in DOMAIN px[1].presets : Trim(px[1].presets[j].name) = Trim(name) =>
              PresetIndex(px, name) # 0 /\ PresetIndex(px, name) <= j
<1> DEFINE ps == px[1].presets
           I == {i \in 1..Len(ps) : Trim(ps[i].name) = Trim(name)}
<1>1. ps \in Seq(PresetRecords) /\ Len(ps) \in Nat
  BY ProxyIs
<1>2. PresetIndex(px, name) = IF I # {} THEN Min(I) ELSE 0
  BY DEF PresetIndex, SelectInSeq
<1>3. I # {} => Min(I) \in I /\ \A i \in I : Min(I) <= i
  BY <1>1, LeastPlace
<1>4. DOMAIN ps = 1..Len(ps)
  BY <1>1
<1> HIDE DEF ps
<1>5. \A j \in DOMAIN ps : Trim(ps[j].name) = Trim(name) => j \in I
  BY <1>4
<1> HIDE DEF I
<1>6. CASE I = {}
  BY <1>1, <1>2, <1>5, <1>6 DEF ps
<1>7. CASE I # {}
  <2>1. PresetIndex(px, name) \in I
    BY <1>2, <1>3, <1>7
  <2>2. PresetIndex(px, name) \in 1..Len(ps) /\ Trim(ps[PresetIndex(px, name)].name) = Trim(name)
    BY <2>1 DEF I
  <2>3. \A j \in DOMAIN ps : Trim(ps[j].name) = Trim(name) => PresetIndex(px, name) <= j
    BY <1>2, <1>3, <1>5, <1>7
  <2> QED
    BY <1>1, <1>4, <2>2, <2>3 DEF ps
<1> QED
  BY <1>6, <1>7

SameNamed(px, qx) ==
  /\ Len(qx[1].presets) = Len(px[1].presets)
  /\ \A i \in DOMAIN px[1].presets : qx[1].presets[i].name = px[1].presets[i].name

\* Whom a name names depends on the names alone, and on the name's trimmed form.
LEMMA SameNames ==
  ASSUME NEW px \in Proxies, px # << >>, NEW qx \in Proxies, qx # << >>,
         SameNamed(px, qx),
         NEW n, NEW o, Trim(n) = Trim(o)
  PROVE  PresetIndex(qx, n) = PresetIndex(px, o)
<1>1. px[1].presets \in Seq(PresetRecords) /\ qx[1].presets \in Seq(PresetRecords)
  BY ProxyIs
<1>2. DOMAIN px[1].presets = 1..Len(px[1].presets)
  BY <1>1
<1> DEFINE I == {i \in 1..Len(px[1].presets) : Trim(px[1].presets[i].name) = Trim(o)}
           J == {i \in 1..Len(qx[1].presets) : Trim(qx[1].presets[i].name) = Trim(n)}
<1>3. I = J
  BY <1>2 DEF SameNamed
<1>4. PresetIndex(px, o) = IF I # {} THEN Min(I) ELSE 0
  BY DEF PresetIndex, SelectInSeq
<1>5. PresetIndex(qx, n) = IF J # {} THEN Min(J) ELSE 0
  BY DEF PresetIndex, SelectInSeq
<1> HIDE DEF I, J
<1> QED
  BY <1>3, <1>4, <1>5
(***************************************************************************)
(* A mutation of one table: what becomes of the table, and that nothing    *)
(* else of the proxy changes.                                              *)
(***************************************************************************)
TableAfter(m, t) ==
  CASE m.op = "enable_table" -> [t EXCEPT !.enable = m.enabled]
    [] m.op = "insert_rule" ->
         IF ~ValidFields(m.table, m.rule) \/ Place(m, t.rules) > Len(t.rules) + 1 THEN t
         ELSE [t EXCEPT !.rules = InsertAt(t.rules, Place(m, t.rules), m.rule)]
    [] m.op = "update_rule" ->
         IF ~ValidFields(m.table, m) \/ m.index \notin DOMAIN t.rules THEN t
         ELSE [t EXCEPT !.rules = [t.rules EXCEPT ![m.index].from = m.from,
                                                  ![m.index].to = m.to]]
    [] m.op = "delete_rule" ->
         IF m.index \notin DOMAIN t.rules THEN t
         ELSE [t EXCEPT !.rules = RemoveAt(t.rules, m.index)]
    [] m.op = "move_rule" ->
         IF {m.from, m.to} \subseteq DOMAIN t.rules
         THEN [t EXCEPT !.rules = Moved(t.rules, m.from, m.to)] ELSE t
    [] m.op = "enable_rule" ->
         IF m.index \notin DOMAIN t.rules THEN t
         ELSE [t EXCEPT !.rules = [t.rules EXCEPT ![m.index].enable = m.enabled]]

RulesValid(table, t) == \A k \in DOMAIN t.rules : ValidFields(table, t.rules[k])

LEMMA MutationIs ==
  ASSUME NEW m, IsMutation(m)
  PROVE  /\ m.op = "create" => m.name \in Names /\ m.initial \in PresetRecords
         /\ m.op = "rename" => m.name \in Names /\ m.newName \in Names
         /\ m.op = "delete" => m.name \in Names
         /\ m.op = "activate" => m.name \in Options(Names)
         /\ m.op = "enable" => m.enabled \in BOOLEAN
         /\ m.op \in TableOps => m.preset \in Names /\ m.table \in Tables
         /\ m.op \in {"enable_table", "enable_rule"} => m.enabled \in BOOLEAN
         /\ m.op = "insert_rule" => m.index \in Options(Indices) /\ m.rule \in RuleRecords
         /\ m.op \in {"update_rule", "delete_rule", "enable_rule"} => m.index \in Indices
         /\ m.op = "update_rule" => m.from \in RuleTexts /\ m.to \in RuleTexts
         /\ m.op = "move_rule" => m.from \in Indices /\ m.to \in Indices
         /\ m.op \in Ops
<1>1. m.op \in Ops /\ m \in MutationsOf(m.op)
  BY DEF IsMutation
<1> USE DEF MutationsOf, TableOps
<1>2. CASE m.op = "create"
  BY <1>1, <1>2
<1>3. CASE m.op = "rename"
  BY <1>1, <1>3
<1>4. CASE m.op = "delete"
  BY <1>1, <1>4
<1>5. CASE m.op = "activate"
  BY <1>1, <1>5
<1>6. CASE m.op = "enable"
  BY <1>1, <1>6
<1>7. CASE m.op = "enable_table"
  BY <1>1, <1>7
<1>8. CASE m.op = "insert_rule"
  BY <1>1, <1>8
<1>9. CASE m.op = "update_rule"
  BY <1>1, <1>9
<1>10. CASE m.op = "delete_rule"
  BY <1>1, <1>10
<1>11. CASE m.op = "move_rule"
  BY <1>1, <1>11
<1>12. CASE m.op = "enable_rule"
  BY <1>1, <1>12
<1> QED
  BY <1>1, <1>2, <1>3, <1>4, <1>5, <1>6, <1>7, <1>8, <1>9, <1>10, <1>11, <1>12 DEF Ops

LEMMA PlaceIs ==
  ASSUME NEW S, NEW rules \in Seq(S), NEW m, m.index \in Options(Indices)
  PROVE  Place(m, rules) \in Indices
<1>1. Len(rules) \in Nat
  BY LenProperties
<1>2. CASE m.index = << >>
  BY <1>1, <1>2 DEF Place, Indices
<1>3. CASE m.index # << >>
  <2>1. m.index[1] \in Indices
    BY <1>3, OptionIs
  <2> QED BY <1>3, <2>1 DEF Place
<1> QED
  BY <1>2, <1>3

\* Taking a rule out and putting it in elsewhere keeps how many there are.
LEMMA MovedIs ==
  ASSUME NEW S, NEW s \in Seq(S), NEW from \in DOMAIN s, NEW to \in DOMAIN s, from # to
  PROVE  /\ RemoveAt(s, from) \in Seq(S) /\ Len(RemoveAt(s, from)) = Len(s) - 1
         /\ to \in 1..(Len(RemoveAt(s, from)) + 1) /\ s[from] \in S
         /\ Moved(s, from, to) = InsertAt(RemoveAt(s, from), to, s[from])
         /\ Moved(s, from, to) \in Seq(S) /\ Len(Moved(s, from, to)) = Len(s)
<1>1. Len(s) \in Nat /\ DOMAIN s = 1..Len(s)
  BY LenProperties
<1>2. RemoveAt(s, from) \in Seq(S) /\ Len(RemoveAt(s, from)) = Len(s) - 1
  BY RemovedIs DEF Without
<1>3. s[from] \in S
  BY <1>1, ElementOfSeq
<1>4. to \in 1..(Len(RemoveAt(s, from)) + 1)
  BY <1>1, <1>2
<1>5. /\ InsertAt(RemoveAt(s, from), to, s[from]) \in Seq(S)
      /\ Len(InsertAt(RemoveAt(s, from), to, s[from])) = Len(RemoveAt(s, from)) + 1
  BY <1>2, <1>3, <1>4, InsertedIs DEF With
<1> QED
  BY <1>1, <1>2, <1>3, <1>4, <1>5 DEF Moved

LEMMA TableIs ==
  ASSUME NEW t \in TableRecords
  PROVE  /\ t.enable \in BOOLEAN /\ t.rules \in Seq(RuleRecords)
         /\ Len(t.rules) \in Nat /\ DOMAIN t.rules = 1..Len(t.rules)
         /\ \A k \in DOMAIN t.rules : t.rules[k] \in RuleRecords
<1>1. t.enable \in BOOLEAN /\ t.rules \in Seq(RuleRecords)
  BY DEF TableRecords
<1> QED
  BY <1>1, LenProperties, ElementOfSeq

LEMMA WithNewRules ==
  ASSUME NEW t \in TableRecords, NEW rules \in Seq(RuleRecords)
  PROVE  /\ [t EXCEPT !.rules = rules] \in TableRecords
         /\ [t EXCEPT !.rules = rules].rules = rules
         /\ [t EXCEPT !.rules = rules].enable = t.enable
BY DEF TableRecords

\* What each mutation makes of the rules of a table, when it is accepted.
LEMMA EnabledAfter ==
  ASSUME NEW t \in TableRecords, NEW m, IsMutation(m), m.op = "enable_table",
         NEW s, s = t.rules, NEW u, u = TableAfter(m, t).rules
  PROVE  /\ TableAfter(m, t) \in TableRecords
         /\ u = s
<1>0. /\ s \in Seq(RuleRecords) /\ Len(s) \in Nat /\ DOMAIN s = 1..Len(s)
      /\ \A k \in DOMAIN s : s[k] \in RuleRecords
  BY TableIs
<1>1. TableAfter(m, t) = [t EXCEPT !.enable = m.enabled] /\ m.enabled \in BOOLEAN
  BY MutationIs DEF TableAfter
<1>2. TableAfter(m, t) \in TableRecords /\ TableAfter(m, t).rules = s
  BY <1>1 DEF TableRecords
<1> QED BY <1>2

LEMMA InsertAfter ==
  ASSUME NEW t \in TableRecords, NEW m, IsMutation(m), m.op = "insert_rule",
         NEW s, s = t.rules, NEW u, u = TableAfter(m, t).rules
  PROVE  /\ TableAfter(m, t) \in TableRecords
         /\ TableAfter(m, t).enable = t.enable
         /\ \/ TableAfter(m, t) = t
            \/ /\ Place(m, s) \in 1..(Len(s) + 1) /\ ValidFields(m.table, m.rule)
               /\ m.rule \in RuleRecords /\ u = InsertAt(s, Place(m, s), m.rule)
<1>0. /\ s \in Seq(RuleRecords) /\ Len(s) \in Nat /\ DOMAIN s = 1..Len(s)
      /\ \A k \in DOMAIN s : s[k] \in RuleRecords
  BY TableIs
<1>1. m.rule \in RuleRecords /\ Place(m, s) \in Indices
  BY <1>0, MutationIs, PlaceIs
<1>2. TableAfter(m, t) = IF ~ValidFields(m.table, m.rule) \/ Place(m, s) > Len(s) + 1 THEN t
                         ELSE [t EXCEPT !.rules = InsertAt(s, Place(m, s), m.rule)]
  BY DEF TableAfter
<1>3. CASE ~ValidFields(m.table, m.rule) \/ Place(m, s) > Len(s) + 1
  BY <1>2, <1>3
<1>4. CASE ~(~ValidFields(m.table, m.rule) \/ Place(m, s) > Len(s) + 1)
  <2>1. Place(m, s) \in 1..(Len(s) + 1)
    BY <1>0, <1>1, <1>4 DEF Indices
  <2>2. InsertAt(s, Place(m, s), m.rule) \in Seq(RuleRecords)
    BY <1>0, <1>1, <2>1, InsertedIs
  <2>3. TableAfter(m, t) = [t EXCEPT !.rules = InsertAt(s, Place(m, s), m.rule)]
    BY <1>2, <1>4
  <2>4. /\ TableAfter(m, t) \in TableRecords /\ TableAfter(m, t).enable = t.enable
        /\ TableAfter(m, t).rules = InsertAt(s, Place(m, s), m.rule)
    BY <2>2, <2>3, WithNewRules
  <2> QED BY <1>1, <1>4, <2>1, <2>4
<1> QED BY <1>3, <1>4

LEMMA UpdateAfter ==
  ASSUME NEW t \in TableRecords, NEW m, IsMutation(m), m.op = "update_rule",
         NEW s, s = t.rules, NEW u, u = TableAfter(m, t).rules
  PROVE  /\ TableAfter(m, t) \in TableRecords
         /\ TableAfter(m, t).enable = t.enable
         /\ \/ TableAfter(m, t) = t
            \/ /\ m.index \in DOMAIN s /\ ButFor(u, s, m.index) /\ ValidFields(m.table, m)
               /\ u[m.index].from = m.from /\ u[m.index].to = m.to
<1>0. /\ s \in Seq(RuleRecords) /\ Len(s) \in Nat /\ DOMAIN s = 1..Len(s)
      /\ \A k \in DOMAIN s : s[k] \in RuleRecords
  BY TableIs
<1>1. m.from \in RuleTexts /\ m.to \in RuleTexts
  BY MutationIs
<1> DEFINE v == [s EXCEPT ![m.index].from = m.from, ![m.index].to = m.to]
<1>2. TableAfter(m, t) = IF ~ValidFields(m.table, m) \/ m.index \notin DOMAIN s THEN t
                         ELSE [t EXCEPT !.rules = v]
  BY DEF TableAfter
<1>3. CASE ~ValidFields(m.table, m) \/ m.index \notin DOMAIN s
  BY <1>2, <1>3
<1>4. CASE ~(~ValidFields(m.table, m) \/ m.index \notin DOMAIN s)
  <2>1. s[m.index] \in RuleRecords /\ m.index \in 1..Len(s)
    BY <1>0, <1>4
  <2>2. PICK e \in RuleRecords : e = [s[m.index] EXCEPT !.from = m.from, !.to = m.to]
    BY <1>1, <2>1 DEF RuleRecords
  <2>3. v = [s EXCEPT ![m.index] = e]
    BY <1>0, <2>1, <2>2
  <2>4. /\ v \in Seq(RuleRecords) /\ Len(v) = Len(s)
        /\ \A k \in 1..Len(s) : v[k] = IF k = m.index THEN e ELSE s[k]
    <3>1. e \in RuleRecords
      OBVIOUS
    <3> HIDE DEF v
    <3> QED BY <1>0, <2>1, <2>3, <3>1, ExceptSeq
  <2>5. e.from = m.from /\ e.to = m.to
    BY <2>1, <2>2 DEF RuleRecords
  <2> HIDE DEF v
  <2>6. /\ TableAfter(m, t) \in TableRecords /\ TableAfter(m, t).enable = t.enable
        /\ TableAfter(m, t).rules = v
    BY <1>2, <1>4, <2>4, WithNewRules
  <2> QED BY <1>0, <1>4, <2>1, <2>4, <2>5, <2>6 DEF ButFor
<1> QED BY <1>3, <1>4

LEMMA DeleteAfter ==
  ASSUME NEW t \in TableRecords, NEW m, IsMutation(m), m.op = "delete_rule",
         NEW s, s = t.rules, NEW u, u = TableAfter(m, t).rules
  PROVE  /\ TableAfter(m, t) \in TableRecords
         /\ TableAfter(m, t).enable = t.enable
         /\ \/ TableAfter(m, t) = t
            \/ m.index \in DOMAIN s /\ u = RemoveAt(s, m.index)
<1>0. /\ s \in Seq(RuleRecords) /\ Len(s) \in Nat /\ DOMAIN s = 1..Len(s)
      /\ \A k \in DOMAIN s : s[k] \in RuleRecords
  BY TableIs
<1>2. TableAfter(m, t) = IF m.index \notin DOMAIN s THEN t
                         ELSE [t EXCEPT !.rules = RemoveAt(s, m.index)]
  BY DEF TableAfter
<1>3. CASE m.index \notin DOMAIN s
  <2>1. TableAfter(m, t) = t
    BY <1>2, <1>3
  <2> QED BY <2>1
<1>4. CASE m.index \in DOMAIN s
  <2>2. RemoveAt(s, m.index) \in Seq(RuleRecords)
    BY <1>0, <1>4, RemovedIs
  <2>4. /\ TableAfter(m, t) \in TableRecords /\ TableAfter(m, t).enable = t.enable
        /\ TableAfter(m, t).rules = RemoveAt(s, m.index)
    BY <1>2, <1>4, <2>2, WithNewRules
  <2> QED BY <1>4, <2>4
<1> QED BY <1>3, <1>4

LEMMA MoveAfter ==
  ASSUME NEW t \in TableRecords, NEW m, IsMutation(m), m.op = "move_rule",
         NEW s, s = t.rules, NEW u, u = TableAfter(m, t).rules
  PROVE  /\ TableAfter(m, t) \in TableRecords
         /\ TableAfter(m, t).enable = t.enable
         /\ \/ TableAfter(m, t) = t
            \/ /\ m.from \in DOMAIN s /\ m.to \in DOMAIN s /\ m.from # m.to
               /\ u = Moved(s, m.from, m.to)
<1>0. /\ s \in Seq(RuleRecords) /\ Len(s) \in Nat /\ DOMAIN s = 1..Len(s)
      /\ \A k \in DOMAIN s : s[k] \in RuleRecords
  BY TableIs
<1>2. TableAfter(m, t) = IF {m.from, m.to} \subseteq DOMAIN s
                         THEN [t EXCEPT !.rules = Moved(s, m.from, m.to)] ELSE t
  BY DEF TableAfter
<1>3. CASE ~({m.from, m.to} \subseteq DOMAIN s)
  BY <1>2, <1>3
<1>4. CASE m.from \in DOMAIN s /\ m.from = m.to
  <2>1. Moved(s, m.from, m.to) = t.rules
    BY <1>4 DEF Moved
  <2>2. TableAfter(m, t) = t
    BY <1>2, <1>4, <2>1 DEF TableRecords
  <2> QED BY <2>2
<1>5. CASE m.from \in DOMAIN s /\ m.to \in DOMAIN s /\ m.from # m.to
  <2>2. Moved(s, m.from, m.to) \in Seq(RuleRecords)
    BY <1>0, <1>5, MovedIs
  <2>4. /\ TableAfter(m, t) \in TableRecords /\ TableAfter(m, t).enable = t.enable
        /\ TableAfter(m, t).rules = Moved(s, m.from, m.to)
    BY <1>2, <1>5, <2>2, WithNewRules
  <2> QED BY <1>5, <2>4
<1> QED BY <1>3, <1>4, <1>5

LEMMA ToggleAfter ==
  ASSUME NEW t \in TableRecords, NEW m, IsMutation(m), m.op = "enable_rule",
         NEW s, s = t.rules, NEW u, u = TableAfter(m, t).rules
  PROVE  /\ TableAfter(m, t) \in TableRecords
         /\ TableAfter(m, t).enable = t.enable
         /\ \/ TableAfter(m, t) = t
            \/ /\ m.index \in DOMAIN s /\ ButFor(u, s, m.index)
               /\ u[m.index].from = s[m.index].from /\ u[m.index].to = s[m.index].to
<1>0. /\ s \in Seq(RuleRecords) /\ Len(s) \in Nat /\ DOMAIN s = 1..Len(s)
      /\ \A k \in DOMAIN s : s[k] \in RuleRecords
  BY TableIs
<1>1. m.enabled \in BOOLEAN
  BY MutationIs
<1> DEFINE v == [s EXCEPT ![m.index].enable = m.enabled]
<1>2. TableAfter(m, t) = IF m.index \notin DOMAIN s THEN t ELSE [t EXCEPT !.rules = v]
  BY DEF TableAfter
<1>3. CASE m.index \notin DOMAIN s
  BY <1>2, <1>3
<1>4. CASE m.index \in DOMAIN s
  <2>1. s[m.index] \in RuleRecords /\ m.index \in 1..Len(s)
    BY <1>0, <1>4
  <2>2. PICK e \in RuleRecords : e = [s[m.index] EXCEPT !.enable = m.enabled]
    BY <1>1, <2>1 DEF RuleRecords
  <2>3. v = [s EXCEPT ![m.index] = e]
    BY <1>0, <2>1, <2>2
  <2>4. /\ v \in Seq(RuleRecords) /\ Len(v) = Len(s)
        /\ \A k \in 1..Len(s) : v[k] = IF k = m.index THEN e ELSE s[k]
    BY <1>0, <2>1, <2>3, ExceptSeq
  <2>5. e.from = s[m.index].from /\ e.to = s[m.index].to
    BY <2>1, <2>2 DEF RuleRecords
  <2> HIDE DEF v
  <2>6. /\ TableAfter(m, t) \in TableRecords /\ TableAfter(m, t).enable = t.enable
        /\ TableAfter(m, t).rules = v
    BY <1>2, <1>4, <2>4, WithNewRules
  <2> QED BY <1>0, <1>4, <2>1, <2>4, <2>5, <2>6 DEF ButFor
<1> QED BY <1>3, <1>4

LEMMA TableAfterTyped ==
  ASSUME NEW t \in TableRecords, NEW m, IsMutation(m), m.op \in TableOps
  PROVE  TableAfter(m, t) \in TableRecords
BY EnabledAfter, InsertAfter, UpdateAfter, DeleteAfter, MoveAfter, ToggleAfter DEF TableOps

LEMMA TableStaysValid ==
  ASSUME NEW t \in TableRecords, NEW m, IsMutation(m), m.op \in TableOps,
         RulesValid(m.table, t)
  PROVE  RulesValid(m.table, TableAfter(m, t))
<1> DEFINE s == t.rules
           u == TableAfter(m, t).rules
<1>1. /\ s \in Seq(RuleRecords) /\ Len(s) \in Nat /\ DOMAIN s = 1..Len(s)
      /\ \A k \in DOMAIN s : s[k] \in RuleRecords /\ ValidFields(m.table, s[k])
  BY TableIs DEF RulesValid
<1>2. TableAfter(m, t) \in TableRecords
  BY TableAfterTyped
<1>e. s = t.rules /\ u = TableAfter(m, t).rules
  OBVIOUS
<1>3. u \in Seq(RuleRecords) /\ Len(u) \in Nat /\ DOMAIN u = 1..Len(u)
  BY <1>2, TableIs
<1> SUFFICES ASSUME NEW k \in DOMAIN u PROVE ValidFields(m.table, u[k])
  BY DEF RulesValid
<1> HIDE DEF s, u
<1>4. CASE TableAfter(m, t) = t \/ u = s
  BY <1>1, <1>4 DEF s, u
<1>5. CASE m.op = "enable_table"
  BY <1>4, <1>e, <1>5, EnabledAfter
<1>6. CASE m.op = "insert_rule" /\ TableAfter(m, t) # t
  <2>1. /\ Place(m, s) \in 1..(Len(s) + 1) /\ ValidFields(m.table, m.rule)
        /\ m.rule \in RuleRecords /\ u = InsertAt(s, Place(m, s), m.rule)
    BY <1>e, <1>6, InsertAfter
  <2>2. /\ Len(u) = Len(s) + 1
        /\ \A n \in 1..(Len(s) + 1) : u[n] = IF n < Place(m, s) THEN s[n]
             ELSE IF n = Place(m, s) THEN m.rule ELSE s[n - 1]
    <3>1. With(InsertAt(s, Place(m, s), m.rule), s, Place(m, s), m.rule)
      BY <1>1, <2>1, InsertedIs
    <3> QED BY <2>1, <3>1 DEF With
  <2>3. k \in 1..(Len(s) + 1)
    BY <1>3, <2>2
  <2>4. CASE k < Place(m, s)
    BY <1>1, <2>1, <2>2, <2>3, <2>4
  <2>5. CASE k = Place(m, s)
    BY <2>1, <2>2, <2>3, <2>5
  <2>6. CASE k > Place(m, s)
    <3>1. k - 1 \in DOMAIN s
      BY <1>1, <2>1, <2>3, <2>6
    <3> QED BY <1>1, <2>1, <2>2, <2>3, <2>6, <3>1
  <2> QED BY <2>1, <2>3, <2>4, <2>5, <2>6
<1>7. CASE m.op = "update_rule" /\ TableAfter(m, t) # t
  <2>1. /\ m.index \in DOMAIN s /\ ButFor(u, s, m.index) /\ ValidFields(m.table, m)
        /\ u[m.index].from = m.from /\ u[m.index].to = m.to
    BY <1>e, <1>7, UpdateAfter
  <2>2. k \in DOMAIN s
    BY <1>1, <1>3, <2>1 DEF ButFor
  <2> QED BY <1>1, <2>1, <2>2 DEF ValidFields, ButFor
<1>8. CASE m.op = "delete_rule" /\ TableAfter(m, t) # t
  <2>1. m.index \in DOMAIN s /\ u = RemoveAt(s, m.index)
    BY <1>e, <1>8, DeleteAfter
  <2>2. /\ Len(u) = Len(s) - 1
        /\ \A n \in 1..(Len(s) - 1) : u[n] = IF n < m.index THEN s[n] ELSE s[n + 1]
    BY <1>1, <2>1, RemovedIs DEF Without
  <2>3. k \in 1..(Len(s) - 1) /\ k \in DOMAIN s /\ k + 1 \in DOMAIN s
    BY <1>1, <1>3, <2>2
  <2> QED BY <1>1, <2>2, <2>3
<1>9. CASE m.op = "move_rule" /\ TableAfter(m, t) # t
  <2>1. /\ m.from \in DOMAIN s /\ m.to \in DOMAIN s /\ m.from # m.to
        /\ u = Moved(s, m.from, m.to)
    BY <1>e, <1>9, MoveAfter
  <2> DEFINE v == RemoveAt(s, m.from)
  <2>2. /\ v \in Seq(RuleRecords) /\ Len(v) = Len(s) - 1
        /\ m.to \in 1..(Len(v) + 1) /\ s[m.from] \in RuleRecords
        /\ u = InsertAt(v, m.to, s[m.from]) /\ Len(u) = Len(s)
    BY <1>1, <2>1, MovedIs
  <2>3. \A n \in 1..(Len(s) - 1) : v[n] = IF n < m.from THEN s[n] ELSE s[n + 1]
    BY <1>1, <2>1, RemovedIs DEF Without
  <2> HIDE DEF v
  <2>4. \A n \in 1..(Len(v) + 1) :
          u[n] = IF n < m.to THEN v[n] ELSE IF n = m.to THEN s[m.from] ELSE v[n - 1]
    <3>1. With(InsertAt(v, m.to, s[m.from]), v, m.to, s[m.from])
      BY <2>2, InsertedIs
    <3> QED BY <2>2, <3>1 DEF With
  <2>5. \A n \in 1..(Len(s) - 1) : ValidFields(m.table, v[n])
    <3> TAKE n \in 1..(Len(s) - 1)
    <3>1. n \in DOMAIN s /\ n + 1 \in DOMAIN s
      BY <1>1
    <3> QED BY <1>1, <2>3, <3>1
  <2>6. k \in 1..(Len(v) + 1) /\ k \in 1..Len(s)
    BY <1>1, <1>3, <2>2
  <2>7. CASE k < m.to
    <3>1. k \in 1..(Len(s) - 1)
      BY <1>1, <2>1, <2>6, <2>7
    <3> QED BY <2>4, <2>5, <2>6, <2>7, <3>1
  <2>8. CASE k = m.to
    BY <1>1, <2>1, <2>4, <2>6, <2>8
  <2>9. CASE k > m.to
    <3>1. k - 1 \in 1..(Len(s) - 1)
      BY <1>1, <2>1, <2>6, <2>9
    <3> QED BY <1>1, <2>1, <2>4, <2>5, <2>6, <2>9, <3>1
  <2> QED BY <1>1, <2>1, <2>6, <2>7, <2>8, <2>9
<1>10. CASE m.op = "enable_rule" /\ TableAfter(m, t) # t
  <2>1. /\ m.index \in DOMAIN s /\ ButFor(u, s, m.index)
        /\ u[m.index].from = s[m.index].from /\ u[m.index].to = s[m.index].to
    BY <1>e, <1>10, ToggleAfter
  <2>2. k \in DOMAIN s
    BY <1>1, <1>3, <2>1 DEF ButFor
  <2> QED BY <1>1, <2>1, <2>2 DEF ValidFields, ButFor
<1> QED
  BY <1>4, <1>5, <1>6, <1>7, <1>8, <1>9, <1>10 DEF TableOps
(***************************************************************************)
(* The proxy with one table replaced.                                      *)
(***************************************************************************)
TableReplaced(px, qx, i, name, t) ==
  /\ qx \in Proxies /\ qx # << >>
  /\ qx[1].active = px[1].active /\ qx[1].enable = px[1].enable
  /\ Len(qx[1].presets) = Len(px[1].presets) /\ DOMAIN qx[1].presets = DOMAIN px[1].presets
  /\ \A j \in DOMAIN px[1].presets :
       /\ qx[1].presets[j].name = px[1].presets[j].name
       /\ j # i => qx[1].presets[j] = px[1].presets[j]
  /\ qx[1].presets[i] = [px[1].presets[i] EXCEPT ![name] = t]
  /\ \A n \in Tables : qx[1].presets[i][n] = IF n = name THEN t ELSE px[1].presets[i][n]

LEMMA WithTableIs ==
  ASSUME NEW px \in Proxies, px # << >>, NEW i \in DOMAIN px[1].presets,
         NEW m, m.table \in Tables, NEW t \in TableRecords, NEW qx, qx = WithTable(px, i, m, t)
  PROVE  TableReplaced(px, qx, i, m.table, t)
<1> DEFINE ps == px[1].presets
           e == [ps[i] EXCEPT ![m.table] = t]
<1>1. /\ px[1] \in ProxyRecords /\ ps \in Seq(PresetRecords)
      /\ Len(ps) \in Nat /\ DOMAIN ps = 1..Len(ps) /\ i \in 1..Len(ps)
  BY ProxyIs, LenProperties
<1>2. ps[i] \in PresetRecords
  BY <1>1
<1>3. /\ e \in PresetRecords /\ e.name = ps[i].name
      /\ \A n \in Tables : e[n] = IF n = m.table THEN t ELSE ps[i][n]
  <2> HIDE DEF ps
  <2>1. CASE m.table = "remote"
    BY <1>2, <2>1 DEF PresetRecords, Tables
  <2>2. CASE m.table = "local"
    BY <1>2, <2>2 DEF PresetRecords, Tables
  <2> QED BY <2>1, <2>2 DEF Tables
<1> HIDE DEF e
<1> DEFINE us == [ps EXCEPT ![i] = e]
           r == [px[1] EXCEPT !.presets = us]
<1>4. /\ us \in Seq(PresetRecords) /\ Len(us) = Len(ps)
      /\ \A j \in 1..Len(ps) : us[j] = IF j = i THEN e ELSE ps[j]
  <2> HIDE DEF ps
  <2> QED BY <1>1, <1>3, ExceptSeq
<1>5. qx = <<r>>
  BY DEF WithTable, e
<1> HIDE DEF us, ps
<1>6. /\ r \in ProxyRecords /\ r.presets = us /\ r.active = px[1].active
      /\ r.enable = px[1].enable
  BY <1>1, <1>4 DEF ProxyRecords
<1>7. DOMAIN us = 1..Len(us)
  BY <1>4, LenProperties
<1> HIDE DEF r
<1>8. qx \in Proxies /\ qx # << >> /\ qx[1] = r
  BY <1>5, <1>6, OptionOf DEF Proxies
<1>9. \A j \in DOMAIN ps : us[j].name = ps[j].name /\ (j # i => us[j] = ps[j])
  BY <1>1, <1>3, <1>4
<1>10. us[i] = e
  BY <1>1, <1>4 DEF ps
<1> QED
  BY <1>1, <1>3, <1>4, <1>6, <1>7, <1>8, <1>9, <1>10 DEF ps, e, TableReplaced

\* A proxy is valid or not by its names, its rules and the name of the active preset.
LEMMA NewTableKeeps ==
  ASSUME NEW px \in Proxies, px # << >>, NEW i \in DOMAIN px[1].presets,
         NEW m, m.table \in Tables, NEW t \in TableRecords, NEW qx, qx = WithTable(px, i, m, t),
         RulesValid(m.table, px[1].presets[i][m.table]) => RulesValid(m.table, t)
  PROVE  /\ ActiveIndex(qx) = ActiveIndex(px)
         /\ ActiveDiagnosed(qx) <=> ActiveDiagnosed(px)
         /\ WellFormed(px) => WellFormed(qx)
         /\ ValidProxy(px) => ValidProxy(qx)
<1>0. TableReplaced(px, qx, i, m.table, t)
  BY WithTableIs
<1>1. /\ qx \in Proxies /\ qx # << >> /\ qx[1].active = px[1].active
      /\ Len(qx[1].presets) = Len(px[1].presets) /\ DOMAIN qx[1].presets = DOMAIN px[1].presets
      /\ \A j \in DOMAIN px[1].presets :
           /\ qx[1].presets[j].name = px[1].presets[j].name
           /\ j # i => qx[1].presets[j] = px[1].presets[j]
      /\ \A n \in Tables :
           qx[1].presets[i][n] = IF n = m.table THEN t ELSE px[1].presets[i][n]
  BY <1>0 DEF TableReplaced
<1>s. SameNamed(px, qx)
  BY <1>1 DEF SameNamed
<1>2. \A n : PresetIndex(qx, n) = PresetIndex(px, n)
  BY <1>1, <1>s, SameNames
<1>3. ActiveIndex(qx) = ActiveIndex(px)
  BY <1>1, <1>2 DEF ActiveIndex
<1>4. qx[1].presets # << >> <=> px[1].presets # << >>
  BY <1>1, ProxyIs, EmptySeq
<1>5. ActiveDiagnosed(qx) <=> ActiveDiagnosed(px)
  BY <1>1, <1>3, <1>4 DEF ActiveDiagnosed
<1>6. DistinctNames(px[1].presets) => DistinctNames(qx[1].presets)
  BY <1>1 DEF DistinctNames
<1>7. ASSUME NEW j \in DOMAIN px[1].presets, ValidRules(px[1].presets[j])
      PROVE  ValidRules(qx[1].presets[j])
  <2>1. CASE j # i
    BY <1>1, <1>7, <2>1
  <2>2. CASE j = i
    <3>1. \A n \in Tables : RulesValid(n, px[1].presets[i][n])
      BY <1>7, <2>2 DEF ValidRules, RulesValid
    <3>2. \A n \in Tables : RulesValid(n, qx[1].presets[i][n])
      BY <1>1, <3>1
    <3> QED BY <2>2, <3>2 DEF ValidRules, RulesValid
  <2> QED BY <2>1, <2>2
<1> QED
  BY <1>1, <1>3, <1>5, <1>6, <1>7 DEF WellFormed, ValidProxy

\* A mutation of a table is refused, or it replaces the table of the preset it names.
LEMMA TableMutationIs ==
  ASSUME NEW px \in Proxies, px # << >>, NEW m, IsMutation(m), m.op \in TableOps,
         NEW i, i = PresetIndex(px, m.preset)
  PROVE  /\ IsBlank(m.preset) \/ i = 0 => Mutated(px, m) = Rejected(px)
         /\ ~IsBlank(m.preset) /\ i # 0 =>
              /\ i \in DOMAIN px[1].presets /\ px[1].presets[i][m.table] \in TableRecords
              /\ Mutated(px, m).proxy
                   = WithTable(px, i, m, TableAfter(m, px[1].presets[i][m.table]))
<1>1. m.table \in Tables
  BY MutationIs
<1>2. Mutated(px, m) = MutatedPreset(px, i, m)
  BY DEF Mutated, TableOps
<1>3. IsBlank(m.preset) \/ i = 0 => Mutated(px, m) = Rejected(px)
  BY <1>2 DEF MutatedPreset
<1> SUFFICES ASSUME ~IsBlank(m.preset), i # 0
             PROVE  /\ i \in DOMAIN px[1].presets /\ px[1].presets[i][m.table] \in TableRecords
                    /\ Mutated(px, m).proxy
                         = WithTable(px, i, m, TableAfter(m, px[1].presets[i][m.table]))
  BY <1>3
<1>4. i \in DOMAIN px[1].presets
  BY PresetIndexIs
<1>5. px[1].presets[i] \in PresetRecords
  BY <1>4, ProxyIs
<1> DEFINE t == px[1].presets[i][m.table]
<1>6. t \in TableRecords
  BY <1>1, <1>5 DEF PresetRecords, Tables
<1>7. Mutated(px, m) = MutatedTable(px, i, m, t)
  BY <1>2 DEF MutatedPreset
<1>8. WithTable(px, i, m, t) = px
  <2> DEFINE ps == px[1].presets
  <2>1. px = <<px[1]>> /\ px[1] \in ProxyRecords /\ ps \in Seq(PresetRecords)
    BY ProxyIs
  <2>2. [ps[i] EXCEPT ![m.table] = t] = ps[i]
    BY <1>1, <1>5 DEF PresetRecords, Tables
  <2>3. [ps EXCEPT ![i] = [ps[i] EXCEPT ![m.table] = t]] = ps
    BY <1>4, <2>1, <2>2
  <2>4. [px[1] EXCEPT !.presets = ps] = px[1]
    BY <2>1 DEF ProxyRecords
  <2>5. WithTable(px, i, m, t)
          = <<[px[1] EXCEPT !.presets = [ps EXCEPT ![i] = [ps[i] EXCEPT ![m.table] = t]]]>>
    BY DEF WithTable
  <2> QED BY <2>1, <2>3, <2>4, <2>5
<1>9. ASSUME NEW rules
      PROVE  WithRules(px, i, m, rules) = WithTable(px, i, m, [t EXCEPT !.rules = rules])
  BY DEF WithRules, WithTable
<1> HIDE DEF t
<1>10. MutatedTable(px, i, m, t).proxy = WithTable(px, i, m, TableAfter(m, t))
  <2> USE DEF Done, Rejected
  <2>1. CASE m.op = "enable_table"
    BY <2>1 DEF MutatedTable, TableAfter, SetTableEnabled
  <2>2. CASE m.op = "insert_rule"
    BY <1>8, <1>9, <2>2 DEF MutatedTable, TableAfter, InsertRule
  <2>3. CASE m.op = "update_rule"
    BY <1>8, <1>9, <2>3 DEF MutatedTable, TableAfter, UpdateRule
  <2>4. CASE m.op = "delete_rule"
    BY <1>8, <1>9, <2>4 DEF MutatedTable, TableAfter, DeleteRule
  <2>5. CASE m.op = "move_rule"
    BY <1>8, <1>9, <2>5 DEF MutatedTable, TableAfter, MoveRule
  <2>6. CASE m.op = "enable_rule"
    BY <1>8, <1>9, <2>6 DEF MutatedTable, TableAfter, SetRuleEnabled
  <2> QED BY <2>1, <2>2, <2>3, <2>4, <2>5, <2>6 DEF TableOps
<1> QED
  BY <1>4, <1>6, <1>7, <1>10 DEF t
(***************************************************************************)
(* The mutations of the presets and of the proxy itself.                   *)
(***************************************************************************)
\* px became qx by giving the preset at i another name.
NameReplaced(px, qx, i, name, active) ==
  /\ qx \in Proxies /\ qx # << >>
  /\ qx[1].active = active /\ qx[1].enable = px[1].enable
  /\ Len(qx[1].presets) = Len(px[1].presets) /\ DOMAIN qx[1].presets = DOMAIN px[1].presets
  /\ \A j \in DOMAIN px[1].presets : j # i => qx[1].presets[j] = px[1].presets[j]
  /\ qx[1].presets[i].name = name
  /\ \A n \in Tables : qx[1].presets[i][n] = px[1].presets[i][n]

LEMMA NewNameIs ==
  ASSUME NEW px \in Proxies, px # << >>, NEW i \in DOMAIN px[1].presets, NEW name \in Names,
         NEW active \in Options(Names),
         NEW qx, qx = <<[px[1] EXCEPT !.presets[i].name = name, !.active = active]>>
  PROVE  NameReplaced(px, qx, i, name, active)
<1> DEFINE ps == px[1].presets
           e == [ps[i] EXCEPT !.name = name]
<1>1. /\ px[1] \in ProxyRecords /\ ps \in Seq(PresetRecords)
      /\ Len(ps) \in Nat /\ DOMAIN ps = 1..Len(ps) /\ i \in 1..Len(ps)
  BY ProxyIs, LenProperties
<1>2. ps[i] \in PresetRecords
  BY <1>1
<1>3. e \in PresetRecords /\ e.name = name /\ \A n \in Tables : e[n] = ps[i][n]
  <2> HIDE DEF ps
  <2> QED BY <1>2 DEF PresetRecords, Tables
<1> HIDE DEF e
<1> DEFINE us == [ps EXCEPT ![i] = e]
           r == [px[1] EXCEPT !.presets = us, !.active = active]
<1>4. /\ us \in Seq(PresetRecords) /\ Len(us) = Len(ps)
      /\ \A j \in 1..Len(ps) : us[j] = IF j = i THEN e ELSE ps[j]
  <2> HIDE DEF ps
  <2> QED BY <1>1, <1>3, ExceptSeq
<1>5. qx = <<r>>
  <2>1. [px[1] EXCEPT !.presets[i].name = name] = [px[1] EXCEPT !.presets = us]
    BY DEF e
  <2> HIDE DEF us
  <2> QED BY <1>1, <2>1 DEF ProxyRecords
<1> HIDE DEF us, ps
<1>6. /\ r \in ProxyRecords /\ r.presets = us /\ r.active = active
      /\ r.enable = px[1].enable
  BY <1>1, <1>4 DEF ProxyRecords
<1>7. DOMAIN us = 1..Len(us)
  BY <1>4, LenProperties
<1> HIDE DEF r
<1>8. qx \in Proxies /\ qx # << >> /\ qx[1] = r
  BY <1>5, <1>6, OptionOf DEF Proxies
<1> QED
  BY <1>1, <1>3, <1>4, <1>6, <1>7, <1>8 DEF ps, NameReplaced

LEMMA RenameIs ==
  ASSUME NEW px \in Proxies, NEW m, IsMutation(m), m.op = "rename",
         NEW i, i = PresetIndex(px, m.name),
         NEW name, name = Trim(m.newName),
         NEW qx, qx = Mutated(px, m).proxy
  PROVE  \/ qx = px
         \/ /\ px # << >> /\ i \in DOMAIN px[1].presets /\ name \in Names /\ Trim(name) = name
            /\ ~IsBlank(name) /\ Trim(px[1].presets[i].name) = Trim(m.name)
            /\ NameReplaced(px, qx, i, name,
                            IF ActiveIs(px, Trim(m.name)) THEN <<name>> ELSE px[1].active)
            /\ Trim(m.name) # name =>
                 \A j \in DOMAIN px[1].presets \ {i} : Trim(px[1].presets[j].name) # name
<1>1. m.name \in Names /\ m.newName \in Names
  BY MutationIs
<1>2. name \in Names /\ Trim(name) = name
  BY <1>1, TrimIs
<1> DEFINE active == px # << >> /\ ActiveIs(px, Trim(m.name))
<1>3. Mutated(px, m) = RenamePreset(px, i, Trim(m.name), name, active)
  BY DEF Mutated
<1>4. CASE IsBlank(Trim(m.name)) \/ IsBlank(name) \/ i = 0
             \/ RenameTakesAnothers(px, i, Trim(m.name), name)
  <2>1. Mutated(px, m) = Rejected(px)
    BY <1>3, <1>4 DEF RenamePreset
  <2> QED BY <2>1 DEF Rejected
<1>5. CASE ~(IsBlank(Trim(m.name)) \/ IsBlank(name) \/ i = 0
             \/ RenameTakesAnothers(px, i, Trim(m.name), name))
  <2>1. px # << >>
    BY <1>5 DEF PresetIndex
  <2>2. i \in DOMAIN px[1].presets /\ Trim(px[1].presets[i].name) = Trim(m.name)
    BY <1>5, <2>1, PresetIndexIs
  <2> DEFINE next == IF active THEN <<name>> ELSE px[1].active
  <2>3. qx = <<[px[1] EXCEPT !.presets[i].name = name, !.active = next]>>
    BY <1>3, <1>5 DEF RenamePreset, Done
  <2>4. next \in Options(Names)
    BY <1>2, <2>1, ProxyIs, OptionOf
  <2> HIDE DEF next
  <2>5. NameReplaced(px, qx, i, name, next)
    BY <1>2, <2>1, <2>2, <2>3, <2>4, NewNameIs
  <2>6. Trim(m.name) # name =>
          \A j \in DOMAIN px[1].presets \ {i} : Trim(px[1].presets[j].name) # name
    BY <1>5 DEF RenameTakesAnothers
  <2> QED BY <1>2, <1>5, <2>1, <2>2, <2>5, <2>6 DEF next
<1> QED
  BY <1>4, <1>5
(***************************************************************************)
(* What an edit of the popup does to the proxy of its draft: it stays a    *)
(* proxy, valid and well formed if it was, with a preset on show if it had *)
(* one, and what looks the same is the same.                               *)
(***************************************************************************)
ProxyKept(px, qx) ==
  /\ qx \in Proxies
  /\ ValidProxy(px) => ValidProxy(qx)
  /\ WellFormed(px) => WellFormed(qx)
  /\ Shown(px) # << >> => Shown(qx) # << >>
  /\ ActiveIsTrimmed(px) /\ View(qx) = View(px) => qx = px

LEMMA NothingDone ==
  ASSUME NEW px \in Proxies
  PROVE  ProxyKept(px, px)
BY DEF ProxyKept

LEMMA VirtualIs ==
  ASSUME NEW px \in Proxies, px # << >>
  PROVE  /\ Virtual(px) <=> Len(px[1].presets) = 0
         /\ Virtual(px) <=> DOMAIN px[1].presets = {}
         /\ ActiveIndex(px) \in 0..Len(px[1].presets)
         /\ ActiveIndex(px) # 0 =>
              /\ px[1].active # << >> /\ px[1].active[1] \in Names /\ ~Virtual(px)
              /\ px[1].active = <<px[1].active[1]>> /\ ActiveIndex(px) \in DOMAIN px[1].presets
              /\ Trim(px[1].presets[ActiveIndex(px)].name) = Trim(px[1].active[1])
              /\ Shown(px) = <<px[1].presets[ActiveIndex(px)]>>
         /\ ~Virtual(px) /\ ActiveIndex(px) = 0 => Shown(px) = << >>
         /\ \A j \in DOMAIN px[1].presets :
              px[1].active # << >> /\ Trim(px[1].presets[j].name) = Trim(px[1].active[1])
                => ActiveIndex(px) # 0
<1>1. /\ px[1].presets \in Seq(PresetRecords) /\ px[1].active \in Options(Names)
      /\ Len(px[1].presets) \in Nat /\ DOMAIN px[1].presets = 1..Len(px[1].presets)
  BY ProxyIs, LenProperties
<1>2. px[1].presets = << >> <=> Len(px[1].presets) = 0
  BY <1>1, EmptySeq
<1>3. ActiveIndex(px) = IF px[1].active = << >> THEN 0 ELSE PresetIndex(px, px[1].active[1])
  BY DEF ActiveIndex
<1>4. ActiveIndex(px) \in 0..Len(px[1].presets)
  BY <1>1, <1>3, PresetIndexIs
<1>5. ASSUME ActiveIndex(px) # 0
      PROVE  /\ px[1].active # << >> /\ px[1].active[1] \in Names
             /\ px[1].active = <<px[1].active[1]>> /\ ActiveIndex(px) \in DOMAIN px[1].presets
             /\ Trim(px[1].presets[ActiveIndex(px)].name) = Trim(px[1].active[1])
  BY <1>1, <1>3, <1>5, PresetIndexIs, OptionIs
<1>6. \A j \in DOMAIN px[1].presets :
        px[1].active # << >> /\ Trim(px[1].presets[j].name) = Trim(px[1].active[1])
          => ActiveIndex(px) # 0
  BY <1>3, PresetIndexIs
<1>7. Virtual(px) <=> Len(px[1].presets) = 0
  BY <1>2 DEF Virtual
<1>8. DOMAIN px[1].presets = {} <=> Len(px[1].presets) = 0
  <2>1. Len(px[1].presets) # 0 => 1 \in DOMAIN px[1].presets
    BY <1>1
  <2>2. Len(px[1].presets) = 0 => DOMAIN px[1].presets = {}
    BY <1>1
  <2> QED BY <2>1, <2>2
<1>9. ActiveIndex(px) # 0 => ~Virtual(px)
  BY <1>1, <1>4, <1>7
<1>10. ~Virtual(px) => Shown(px) = IF ActiveIndex(px) = 0 THEN << >>
                                   ELSE <<px[1].presets[ActiveIndex(px)]>>
  BY DEF Shown, PresetAt
<1> QED
  BY <1>4, <1>5, <1>6, <1>7, <1>8, <1>9, <1>10

LEMMA RenameKept ==
  ASSUME NEW px \in Proxies, NEW m, IsMutation(m), m.op = "rename"
  PROVE  ProxyKept(px, Mutated(px, m).proxy)
<1> DEFINE i == PresetIndex(px, m.name)
           name == Trim(m.newName)
           qx == Mutated(px, m).proxy
           old == Trim(m.name)
           active == IF ActiveIs(px, old) THEN <<name>> ELSE px[1].active
<1>1. CASE qx = px
  BY <1>1, NothingDone
<1>2. CASE qx # px
  <2>1. /\ px # << >> /\ i \in DOMAIN px[1].presets /\ name \in Names /\ Trim(name) = name
        /\ ~IsBlank(name) /\ Trim(px[1].presets[i].name) = old
        /\ NameReplaced(px, qx, i, name, active)
        /\ old # name => \A j \in DOMAIN px[1].presets \ {i} : Trim(px[1].presets[j].name) # name
    BY <1>2, RenameIs
  <2> DEFINE ps == px[1].presets
             us == qx[1].presets
  <2>2. /\ qx \in Proxies /\ qx # << >> /\ qx[1].active = active /\ qx[1].enable = px[1].enable
        /\ Len(us) = Len(ps) /\ DOMAIN us = DOMAIN ps
        /\ \A j \in DOMAIN ps : j # i => us[j] = ps[j]
        /\ us[i].name = name /\ \A n \in Tables : us[i][n] = ps[i][n]
    BY <2>1 DEF NameReplaced
  <2>3. WellFormed(px) => DistinctNames(us) /\ \A j \in DOMAIN us : ValidRules(us[j])
    <3> SUFFICES ASSUME WellFormed(px)
                 PROVE  DistinctNames(us) /\ \A j \in DOMAIN us : ValidRules(us[j])
      OBVIOUS
    <3>1. DistinctNames(ps) /\ \A j \in DOMAIN ps : ValidRules(ps[j])
      BY <2>1 DEF WellFormed
    <3> HIDE DEF ps, us, i, name, old, active, qx
    <3>2. \A j \in DOMAIN us : ValidRules(us[j])
      BY <2>2, <3>1 DEF ValidRules
    <3>3. ASSUME NEW j \in DOMAIN us, NEW k \in DOMAIN us
          PROVE  ~IsBlank(us[j].name) /\ (Trim(us[j].name) = Trim(us[k].name) => j = k)
      <4>1. \A l \in DOMAIN ps \ {i} : Trim(ps[l].name) # name
        BY <2>1, <3>1 DEF DistinctNames, ps
      <4> QED BY <2>1, <2>2, <3>1, <4>1 DEF DistinctNames
    <3> QED BY <3>2, <3>3 DEF DistinctNames
  <2>4. WellFormed(px) => WellFormed(qx)
    BY <2>3 DEF WellFormed
  <2>5. ActiveIndex(px) # 0 => ActiveIndex(qx) # 0
    <3> SUFFICES ASSUME ActiveIndex(px) # 0 PROVE ActiveIndex(qx) # 0
      OBVIOUS
    <3> DEFINE k == ActiveIndex(px)
    <3>1. /\ px[1].active # << >> /\ k \in DOMAIN ps
          /\ Trim(ps[k].name) = Trim(px[1].active[1])
      BY <2>1, VirtualIs
    <3>2. CASE ActiveIs(px, old)
      <4>1. qx[1].active = <<name>> /\ us[i].name = name /\ i \in DOMAIN us
        BY <2>1, <2>2, <3>2
      <4>2. qx[1].active # << >> /\ qx[1].active[1] = name
        BY <4>1
      <4> QED BY <2>2, <4>1, <4>2, VirtualIs
    <3>3. CASE ~ActiveIs(px, old)
      <4>1. k # i
        BY <2>1, <3>1, <3>3 DEF ActiveIs
      <4>2. us[k] = ps[k] /\ qx[1].active = px[1].active /\ k \in DOMAIN us
        BY <2>2, <3>1, <3>3, <4>1
      <4> QED BY <2>2, <3>1, <4>2, VirtualIs
    <3> QED BY <3>2, <3>3
  <2>6. ~Virtual(px) /\ ~Virtual(qx)
    BY <2>1, <2>2, VirtualIs
  <2>7. Shown(px) # << >> => Shown(qx) # << >>
    BY <2>1, <2>2, <2>5, <2>6, VirtualIs
  <2>8. ValidProxy(px) => ValidProxy(qx)
    <3> SUFFICES ASSUME ValidProxy(px) PROVE ~ActiveDiagnosed(qx)
      BY <2>1, <2>3 DEF ValidProxy, WellFormed
    <3>1. ~ActiveDiagnosed(px) /\ ps # << >>
      BY <2>1, <2>6 DEF ValidProxy, Virtual
    <3>2. px[1].active # << >> /\ ~IsBlank(px[1].active[1]) /\ ActiveIndex(px) # 0
      BY <3>1 DEF ActiveDiagnosed
    <3>3. qx[1].active # << >> /\ ~IsBlank(qx[1].active[1])
      BY <2>1, <2>2, <3>2
    <3> QED BY <2>5, <3>2, <3>3 DEF ActiveDiagnosed
  <2>9. ActiveIsTrimmed(px) /\ View(qx) = View(px) => qx = px
    <3> SUFFICES ASSUME ActiveIsTrimmed(px), View(qx) = View(px) PROVE qx = px
      OBVIOUS
    <3>1. us = ps
      BY <2>6 DEF View
    <3>2. ps[i].name = name /\ old = name
      BY <2>1, <2>2, <3>1
    <3>3. qx[1].active = px[1].active
      <4>1. CASE ActiveIs(px, old)
        <5>1. px[1].active # << >> /\ px[1].active[1] = name
          BY <2>1, <3>2, <4>1 DEF ActiveIs, ActiveIsTrimmed
        <5>2. px[1].active = <<name>>
          BY <2>1, <5>1, ProxyIs, OptionIs
        <5> QED BY <2>2, <4>1, <5>2
      <4>2. CASE ~ActiveIs(px, old)
        BY <2>2, <4>2
      <4> QED BY <4>1, <4>2
    <3>4. qx[1] = px[1]
      <4>1. qx[1] \in ProxyRecords /\ px[1] \in ProxyRecords
        BY <2>1, <2>2, ProxyIs
      <4> QED BY <2>2, <3>1, <3>3, <4>1 DEF ProxyRecords
    <3> QED BY <2>1, <2>2, <3>4, ProxyIs
  <2> QED BY <2>2, <2>4, <2>7, <2>8, <2>9 DEF ProxyKept
<1> QED
  BY <1>1, <1>2
\* Another preset is active, or the mapping is enabled or not.
ProxySet(px, qx, active, enable) ==
  /\ qx \in Proxies /\ qx # << >> /\ qx[1].presets = px[1].presets
  /\ qx[1].active = active /\ qx[1].enable = enable
  /\ Virtual(qx) <=> Virtual(px)
  /\ \A n : PresetIndex(qx, n) = PresetIndex(px, n)
  /\ active = px[1].active => ActiveIndex(qx) = ActiveIndex(px)
  /\ WellFormed(px) => WellFormed(qx)
  /\ px[1].active = active /\ px[1].enable = enable => qx = px

LEMMA SettingIs ==
  ASSUME NEW px \in Proxies, px # << >>, NEW r \in ProxyRecords,
         r.presets = px[1].presets, NEW qx, qx = <<r>>
  PROVE  ProxySet(px, qx, r.active, r.enable)
<1>1. px = <<px[1]>> /\ px[1] \in ProxyRecords
  BY ProxyIs
<1>2. px[1].active = r.active /\ px[1].enable = r.enable => r = px[1]
  BY <1>1 DEF ProxyRecords
<1>3. qx # << >> /\ qx[1] = r /\ qx \in Proxies
  BY OptionOf DEF Proxies
<1>4. ASSUME NEW n PROVE PresetIndex(qx, n) = PresetIndex(px, n)
  BY <1>3 DEF PresetIndex
<1>5. r.active = px[1].active => ActiveIndex(qx) = ActiveIndex(px)
  BY <1>3, <1>4 DEF ActiveIndex
<1> QED
  BY <1>1, <1>2, <1>3, <1>4, <1>5 DEF Virtual, WellFormed, ProxySet

LEMMA EnableKept ==
  ASSUME NEW px \in Proxies, px = << >> \/ ~Virtual(px), NEW m, IsMutation(m), m.op = "enable"
  PROVE  ProxyKept(px, Mutated(px, m).proxy)
<1> DEFINE qx == Mutated(px, m).proxy
<1>1. CASE px = << >>
  <2>1. qx = px
    BY <1>1 DEF Mutated, SetGlobalEnabled, Rejected
  <2> QED BY <2>1, NothingDone
<1>2. CASE px # << >>
  <2>1. qx = <<[px[1] EXCEPT !.enable = m.enabled]>>
    BY <1>2 DEF Mutated, SetGlobalEnabled, Done
  <2>2. m.enabled \in BOOLEAN /\ px[1] \in ProxyRecords /\ px[1].active \in Options(Names)
    BY <1>2, MutationIs, ProxyIs
  <2> DEFINE r == [px[1] EXCEPT !.enable = m.enabled]
  <2>3. /\ r \in ProxyRecords /\ r.presets = px[1].presets
        /\ r.active = px[1].active /\ r.enable = m.enabled
    BY <2>2 DEF ProxyRecords
  <2>r. qx = <<r>>
    BY <2>1
  <2> HIDE DEF qx, r
  <2>4. ProxySet(px, qx, px[1].active, m.enabled)
    <3>1. ProxySet(px, qx, r.active, r.enable)
      BY <1>2, <2>3, <2>r, SettingIs
    <3> QED BY <2>3, <3>1
  <2>5. /\ qx \in Proxies /\ qx # << >> /\ qx[1].presets = px[1].presets
        /\ qx[1].active = px[1].active /\ qx[1].enable = m.enabled
        /\ ~Virtual(qx) /\ ~Virtual(px)
        /\ ActiveIndex(qx) = ActiveIndex(px)
        /\ WellFormed(px) => WellFormed(qx)
        /\ px[1].enable = m.enabled => qx = px
    BY <1>2, <2>4 DEF ProxySet
  <2>6. ValidProxy(px) => ValidProxy(qx)
    BY <1>2, <2>5 DEF ValidProxy, ActiveDiagnosed
  <2>7. Shown(px) # << >> => Shown(qx) # << >>
    BY <1>2, <2>5 DEF Shown, PresetAt
  <2>8. ASSUME View(qx) = View(px) PROVE qx = px
    <3>1. MappingShown(qx) = MappingShown(px)
      BY <2>8 DEF View
    <3>2. (~Virtual(qx) /\ m.enabled) = (~Virtual(px) /\ px[1].enable)
      BY <2>5, <3>1 DEF MappingShown
    <3>3. m.enabled = px[1].enable
      BY <2>2, <2>5, <3>2 DEF ProxyRecords
    <3> QED BY <2>5, <3>3
  <2> QED BY <2>5, <2>6, <2>7, <2>8 DEF ProxyKept, qx
<1> QED
  BY <1>1, <1>2

LEMMA TableKept ==
  ASSUME NEW px \in Proxies, NEW m, IsMutation(m), m.op \in TableOps
  PROVE  ProxyKept(px, Mutated(px, m).proxy)
<1> DEFINE qx == Mutated(px, m).proxy
           i == PresetIndex(px, m.preset)
           t == TableAfter(m, px[1].presets[i][m.table])
<1>1. CASE px = << >> \/ IsBlank(m.preset) \/ i = 0
  <2>1. Mutated(px, m) = Rejected(px)
    <3>1. CASE px # << >>
      BY <1>1, <3>1, TableMutationIs
    <3>2. CASE px = << >>
      <4>1. i = 0
        BY <3>2 DEF PresetIndex
      <4>2. Mutated(px, m) = MutatedPreset(px, i, m)
        BY DEF Mutated, TableOps
      <4> QED BY <4>1, <4>2 DEF MutatedPreset
    <3> QED BY <3>1, <3>2
  <2>2. qx = px
    BY <2>1 DEF Rejected
  <2> QED BY <2>2, NothingDone
<1>2. CASE ~(px = << >> \/ IsBlank(m.preset) \/ i = 0)
  <2>1. /\ i \in DOMAIN px[1].presets /\ px[1].presets[i][m.table] \in TableRecords
        /\ qx = WithTable(px, i, m, t)
    BY <1>2, TableMutationIs
  <2>2. m.table \in Tables
    BY MutationIs
  <2>3. /\ t \in TableRecords
        /\ RulesValid(m.table, px[1].presets[i][m.table]) => RulesValid(m.table, t)
    BY <2>1, TableAfterTyped, TableStaysValid
  <2> HIDE DEF t, i, qx
  <2>4. TableReplaced(px, qx, i, m.table, t)
    BY <1>2, <2>1, <2>2, <2>3, WithTableIs
  <2>5. /\ ActiveIndex(qx) = ActiveIndex(px)
        /\ WellFormed(px) => WellFormed(qx)
        /\ ValidProxy(px) => ValidProxy(qx)
    BY <1>2, <2>1, <2>2, <2>3, NewTableKeeps
  <2>6. /\ qx \in Proxies /\ qx # << >> /\ qx[1].active = px[1].active
        /\ qx[1].enable = px[1].enable /\ Len(qx[1].presets) = Len(px[1].presets)
    BY <2>4 DEF TableReplaced
  <2>7. ~Virtual(px) /\ ~Virtual(qx)
    BY <1>2, <2>1, <2>6, VirtualIs
  <2>8. Shown(px) # << >> => Shown(qx) # << >>
    BY <1>2, <2>5, <2>6, <2>7, VirtualIs
  <2>9. ASSUME View(qx) = View(px) PROVE qx = px
    <3>1. qx[1].presets = px[1].presets
      BY <2>7, <2>9 DEF View
    <3>2. qx[1] = px[1]
      <4>1. qx[1] \in ProxyRecords /\ px[1] \in ProxyRecords
        BY <1>2, <2>6, ProxyIs
      <4> QED BY <2>6, <3>1, <4>1 DEF ProxyRecords
    <3> QED BY <1>2, <2>6, <3>2, ProxyIs
  <2> QED BY <2>5, <2>6, <2>8, <2>9 DEF ProxyKept, qx
<1> QED
  BY <1>1, <1>2
(***************************************************************************)
(* The preset that is only shown, and the proxy an edit makes it part of.  *)
(***************************************************************************)
LEMMA DefaultIs ==
  /\ DefaultName \in Names /\ ~IsBlank(DefaultName) /\ Trim(DefaultName) = DefaultName
  /\ DefaultPreset \in PresetRecords /\ DefaultPreset.name = DefaultName
  /\ \A n \in Tables : DefaultPreset[n] = [enable |-> FALSE, rules |-> << >>]
<1>1. DefaultName \in Names /\ ~IsBlank(DefaultName) /\ Trim(DefaultName) = DefaultName
  BY EditorAssumption
<1>2. NoRules(FALSE) = [enable |-> FALSE, rules |-> << >>] /\ NoRules(FALSE) \in TableRecords
  BY EmptySeq DEF NoRules, TableRecords
<1>3. DefaultPreset = [name |-> DefaultName, remote |-> NoRules(FALSE), local |-> NoRules(FALSE)]
  BY DEF DefaultPreset, Preset
<1>4. DefaultPreset \in PresetRecords /\ DefaultPreset.name = DefaultName
  BY <1>1, <1>2, <1>3 DEF PresetRecords
<1>5. DefaultPreset["remote"] = NoRules(FALSE) /\ DefaultPreset["local"] = NoRules(FALSE)
  BY <1>3
<1> QED
  BY <1>1, <1>2, <1>4, <1>5 DEF Tables

LEMMA MaterializedIs ==
  /\ Materialized \in Proxies /\ Materialized # << >>
  /\ Materialized[1].presets = <<DefaultPreset>> /\ Materialized[1].active = <<DefaultName>>
  /\ Materialized[1].enable = FALSE
  /\ ~Virtual(Materialized) /\ ActiveIndex(Materialized) = 1
  /\ Shown(Materialized) = <<DefaultPreset>>
  /\ WellFormed(Materialized) /\ ValidProxy(Materialized) /\ ActiveIsTrimmed(Materialized)
<1> DEFINE r == [enable |-> FALSE, active |-> <<DefaultName>>, presets |-> <<DefaultPreset>>]
<1>1. Materialized = <<r>>
  BY DEF Materialized
<1>2. /\ r \in ProxyRecords /\ r.presets = <<DefaultPreset>> /\ r.active = <<DefaultName>>
      /\ r.enable = FALSE
  <2>1. <<DefaultName>> \in Options(Names)
    BY DefaultIs, OptionOf
  <2>2. <<DefaultPreset>> \in Seq(PresetRecords)
    BY DefaultIs
  <2> QED BY <2>1, <2>2 DEF ProxyRecords
<1> HIDE DEF r
<1>3. Materialized \in Proxies /\ Materialized # << >> /\ Materialized[1] = r
  BY <1>1, <1>2, OptionOf DEF Proxies
<1> DEFINE b == Materialized
           one == <<DefaultPreset>>
<1>4. /\ one \in Seq(PresetRecords) /\ Len(one) = 1 /\ one[1] = DefaultPreset /\ one # << >>
      /\ DOMAIN one = {1}
  BY DefaultIs
<1>5. b[1].presets = one /\ b[1].active = <<DefaultName>> /\ b[1].enable = FALSE
  BY <1>2, <1>3
<1> HIDE DEF one
<1>6. ~Virtual(b)
  BY <1>3, <1>4, <1>5 DEF Virtual
<1>7. ActiveIndex(b) = 1
  <2>1. b[1].active # << >> /\ b[1].active[1] = DefaultName
    BY <1>5
  <2>2. 1 \in DOMAIN b[1].presets /\ Trim(b[1].presets[1].name) = Trim(DefaultName)
    BY <1>4, <1>5, DefaultIs
  <2>3. ActiveIndex(b) # 0 /\ ActiveIndex(b) \in 0..1
    BY <1>3, <1>4, <1>5, <2>1, <2>2, VirtualIs
  <2> QED BY <2>3
<1>8. Shown(b) = <<DefaultPreset>>
  BY <1>3, <1>4, <1>5, <1>7, VirtualIs
<1>9. DistinctNames(one) /\ \A i \in DOMAIN one : ValidRules(one[i])
  <2>1. DistinctNames(one)
    BY <1>4, DefaultIs DEF DistinctNames
  <2>2. ValidRules(DefaultPreset)
    BY DefaultIs DEF ValidRules
  <2> QED BY <1>4, <2>1, <2>2
<1>10. WellFormed(b)
  BY <1>5, <1>9 DEF WellFormed
<1>11. ~ActiveDiagnosed(b)
  <2>1. b[1].active # << >> /\ b[1].active[1] = DefaultName
    BY <1>5
  <2> QED BY <1>7, <2>1, DefaultIs DEF ActiveDiagnosed
<1>12. ValidProxy(b)
  BY <1>5, <1>9, <1>11 DEF ValidProxy
<1>13. ActiveIsTrimmed(b)
  <2>1. b[1].active[1] = DefaultName
    BY <1>5
  <2> QED BY <2>1, DefaultIs DEF ActiveIsTrimmed
<1> QED
  BY <1>3, <1>4, <1>5, <1>6, <1>7, <1>8, <1>10, <1>12, <1>13 DEF one

\* It looks the same whether it is part of the document or not.
LEMMA VirtualLooks ==
  ASSUME NEW px \in Proxies, Virtual(px)
  PROVE  /\ View(px) = View(Materialized) /\ Shown(px) = Shown(Materialized)
         /\ Shown(px) = <<DefaultPreset>>
<1>1. MappingShown(px) = FALSE /\ MappingShown(Materialized) = FALSE
  BY MaterializedIs DEF MappingShown
<1>2. View(px) = [presets |-> <<DefaultPreset>>, shown |-> 1, enable |-> FALSE]
  BY <1>1 DEF View
<1>3. View(Materialized) = [presets |-> <<DefaultPreset>>, shown |-> 1, enable |-> FALSE]
  BY <1>1, MaterializedIs DEF View
<1> QED
  BY <1>2, <1>3, MaterializedIs DEF Shown

\* Two proxies show the same names.
ShownPresets(px) == IF Virtual(px) THEN <<DefaultPreset>> ELSE px[1].presets
SameShown(px, qx) ==
  /\ DOMAIN ShownPresets(qx) = DOMAIN ShownPresets(px)
  /\ \A i \in DOMAIN ShownPresets(px) : ShownPresets(qx)[i].name = ShownPresets(px)[i].name

LEMMA LooksShown ==
  ASSUME NEW px, NEW qx, View(qx) = View(px)
  PROVE  SameShown(px, qx) /\ SameShown(qx, px)
<1>1. ShownPresets(qx) = ShownPresets(px)
  BY DEF View, ShownPresets
<1> QED
  BY <1>1 DEF SameShown
\* Setting and table mutations leave the names; a rename that leaves them does nothing.
LEMMA TogglesKeepNames ==
  ASSUME NEW px \in Proxies, ~Virtual(px), NEW m, IsMutation(m), m.op \in TableOps \union {"enable"}
  PROVE  /\ Mutated(px, m).proxy # << >> /\ ~Virtual(Mutated(px, m).proxy)
         /\ SameShown(px, Mutated(px, m).proxy)
<1> DEFINE qx == Mutated(px, m).proxy
           i == PresetIndex(px, m.preset)
<1>0. px # << >>
  BY DEF Virtual
<1>1. CASE qx = px
  BY <1>0, <1>1 DEF SameShown
<1>2. CASE qx # px /\ m.op = "enable"
  <2>1. qx = <<[px[1] EXCEPT !.enable = m.enabled]>> /\ px[1] \in ProxyRecords
    BY <1>0, <1>2, ProxyIs DEF Mutated, SetGlobalEnabled, Done
  <2>2. qx # << >> /\ qx[1].presets = px[1].presets
    BY <2>1 DEF ProxyRecords
  <2> HIDE DEF qx
  <2>3. ~Virtual(qx)
    BY <1>0, <2>2 DEF Virtual
  <2> QED BY <2>2, <2>3 DEF SameShown, ShownPresets, qx
<1>3. CASE qx # px /\ m.op \in TableOps
  <2>1. ~(IsBlank(m.preset) \/ i = 0)
    BY <1>0, <1>3, TableMutationIs DEF Rejected
  <2>2. /\ i \in DOMAIN px[1].presets /\ px[1].presets[i][m.table] \in TableRecords
        /\ qx = WithTable(px, i, m, TableAfter(m, px[1].presets[i][m.table]))
    BY <1>0, <1>3, <2>1, TableMutationIs
  <2> DEFINE t == TableAfter(m, px[1].presets[i][m.table])
  <2>3. t \in TableRecords /\ m.table \in Tables
    BY <1>3, <2>2, TableAfterTyped, MutationIs
  <2> HIDE DEF t, i, qx
  <2>4. TableReplaced(px, qx, i, m.table, t)
    BY <1>0, <2>2, <2>3, WithTableIs DEF t
  <2>5. /\ qx \in Proxies /\ qx # << >> /\ Len(qx[1].presets) = Len(px[1].presets)
        /\ DOMAIN qx[1].presets = DOMAIN px[1].presets
        /\ \A j \in DOMAIN px[1].presets : qx[1].presets[j].name = px[1].presets[j].name
    BY <2>4 DEF TableReplaced
  <2>6. ~Virtual(qx)
    BY <1>0, <2>5, VirtualIs
  <2> QED BY <2>5, <2>6 DEF SameShown, ShownPresets, qx
<1> QED
  BY <1>1, <1>2, <1>3

LEMMA RenameSeen ==
  ASSUME NEW px \in Proxies, ~Virtual(px), NEW m, IsMutation(m), m.op = "rename",
         ActiveIsTrimmed(px), SameShown(px, Mutated(px, m).proxy)
  PROVE  Mutated(px, m).proxy = px
<1> DEFINE i == PresetIndex(px, m.name)
           name == Trim(m.newName)
           qx == Mutated(px, m).proxy
           old == Trim(m.name)
           active == IF ActiveIs(px, old) THEN <<name>> ELSE px[1].active
           ps == px[1].presets
           us == qx[1].presets
<1> SUFFICES ASSUME qx # px PROVE FALSE
  OBVIOUS
<1>1. /\ px # << >> /\ i \in DOMAIN ps /\ name \in Names /\ Trim(name) = name
      /\ ~IsBlank(name) /\ Trim(ps[i].name) = old
      /\ NameReplaced(px, qx, i, name, active)
  BY RenameIs
<1>2. /\ qx \in Proxies /\ qx # << >> /\ qx[1].active = active /\ qx[1].enable = px[1].enable
      /\ Len(us) = Len(ps) /\ DOMAIN us = DOMAIN ps
      /\ \A j \in DOMAIN ps : j # i => us[j] = ps[j]
      /\ us[i].name = name /\ \A n \in Tables : us[i][n] = ps[i][n]
  BY <1>1 DEF NameReplaced
<1>3. ~Virtual(qx)
  BY <1>1, <1>2, VirtualIs
<1>4. ps \in Seq(PresetRecords) /\ us \in Seq(PresetRecords)
  BY <1>1, <1>2, ProxyIs
<1>5. ps[i].name = name
  BY <1>1, <1>2, <1>3 DEF SameShown, ShownPresets
<1>6. us[i] = ps[i]
  <2>1. us[i] \in PresetRecords /\ ps[i] \in PresetRecords
    BY <1>1, <1>2, <1>4
  <2>2. us[i]["remote"] = ps[i]["remote"] /\ us[i]["local"] = ps[i]["local"]
    BY <1>2 DEF Tables
  <2> QED BY <1>2, <1>5, <2>1, <2>2 DEF PresetRecords
<1>7. us = ps
  <2>1. \A j \in DOMAIN ps : us[j] = ps[j]
    BY <1>2, <1>6
  <2>2. DOMAIN ps = 1..Len(ps)
    BY <1>4, LenProperties
  <2> QED BY <1>2, <1>4, <2>1, <2>2, SeqEqual
<1>8. qx[1].active = px[1].active
  <2>1. CASE ActiveIs(px, old)
    <3>1. px[1].active # << >> /\ px[1].active[1] = name
      BY <1>1, <1>5, <2>1 DEF ActiveIs, ActiveIsTrimmed
    <3>2. px[1].active = <<name>>
      BY <1>1, <3>1, ProxyIs, OptionIs
    <3> QED BY <1>2, <2>1, <3>2
  <2>2. CASE ~ActiveIs(px, old)
    BY <1>2, <2>2
  <2> QED BY <2>1, <2>2
<1>9. qx[1] = px[1]
  <2>1. qx[1] \in ProxyRecords /\ px[1] \in ProxyRecords
    BY <1>1, <1>2, ProxyIs
  <2> QED BY <1>2, <1>7, <1>8, <2>1 DEF ProxyRecords
<1> QED
  BY <1>1, <1>2, <1>9, ProxyIs

LEMMA DoneChanges ==
  ASSUME NEW q, NEW c \in BOOLEAN, NEW r, r = Done(q, c), r.changed
  PROVE  c /\ r.proxy = q
BY DEF Done

LEMMA RejectedChangesNot ==
  ASSUME NEW q, NEW r, r = Rejected(q), r.changed
  PROVE  FALSE
BY DEF Rejected

\* What an edit that changes something makes of the materialized proxy is another proxy.
LEMMA ChangedTableDiffers ==
  ASSUME NEW m, IsMutation(m), m.op \in TableOps,
         NEW r, r = Mutated(Materialized, m), r.changed
  PROVE  r.proxy # Materialized
<1> DEFINE b == Materialized
           i == PresetIndex(b, m.preset)
           t == b[1].presets[i][m.table]
           u == TableAfter(m, t)
<1>0. b \in Proxies /\ b # << >> /\ b[1].presets = <<DefaultPreset>>
  BY MaterializedIs
<1>1. ~(IsBlank(m.preset) \/ i = 0)
  BY <1>0, TableMutationIs, RejectedChangesNot
<1>2. /\ i \in DOMAIN b[1].presets /\ t \in TableRecords
      /\ Mutated(b, m).proxy = WithTable(b, i, m, u)
  BY <1>0, <1>1, TableMutationIs
<1>3. i = 1 /\ m.table \in Tables
  <2>1. DOMAIN <<DefaultPreset>> = {1}
    OBVIOUS
  <2> QED BY <1>0, <1>2, <2>1, MutationIs
<1>4. t = [enable |-> FALSE, rules |-> << >>]
  BY <1>0, <1>3, DefaultIs
<1>5. u \in TableRecords
  BY <1>2, TableAfterTyped
<1>6. r = MutatedTable(b, i, m, t)
  BY <1>1 DEF Mutated, TableOps, MutatedPreset
<1>7. DOMAIN t.rules = {} /\ Len(t.rules) = 0
  BY <1>4
<1>8. u # t
  <2>1. CASE m.op = "enable_table"
    <3>1. t.enable # m.enabled
      <4>1. r = Done(WithTable(b, i, m, [t EXCEPT !.enable = m.enabled]), t.enable # m.enabled)
        <5> HIDE DEF b, i, t
        <5> QED BY <1>6, <2>1 DEF MutatedTable, SetTableEnabled
      <4>2. (t.enable # m.enabled) \in BOOLEAN
        OBVIOUS
      <4> HIDE DEF b, i, t
      <4> QED BY <4>1, <4>2, DoneChanges
    <3>2. u = [t EXCEPT !.enable = m.enabled]
      BY <2>1 DEF TableAfter
    <3>3. u.enable = m.enabled
      BY <1>4, <3>2
    <3> QED BY <3>1, <3>3
  <2>2. CASE m.op = "insert_rule"
    <3>1. ~(~ValidFields(m.table, m.rule) \/ Place(m, t.rules) > Len(t.rules) + 1)
      <4>1. r = InsertRule(b, i, m, t)
        BY <1>6, <2>2 DEF MutatedTable
      <4> HIDE DEF b, i, t
      <4> QED BY <4>1, RejectedChangesNot DEF InsertRule
    <3>2. u = [t EXCEPT !.rules = InsertAt(t.rules, Place(m, t.rules), m.rule)]
      BY <2>2, <3>1 DEF TableAfter
    <3>3. u.rules = InsertAt(t.rules, Place(m, t.rules), m.rule)
      BY <1>4, <3>2
    <3>4. t.rules \in Seq(RuleRecords) /\ m.rule \in RuleRecords
      BY <1>2, <2>2, TableIs, MutationIs
    <3>5. Place(m, t.rules) \in Indices
      BY <2>2, <3>4, MutationIs, PlaceIs
    <3>6. Place(m, t.rules) \in 1..(Len(t.rules) + 1)
      BY <1>7, <3>1, <3>5 DEF Indices
    <3>7. Len(u.rules) = Len(t.rules) + 1
      <4> DEFINE at == Place(m, t.rules)
                 s == t.rules
      <4> HIDE DEF at, s
      <4>1. s \in Seq(RuleRecords) /\ at \in 1..(Len(s) + 1)
        BY <3>4, <3>6 DEF at, s
      <4>2. With(InsertAt(s, at, m.rule), s, at, m.rule)
        BY <3>4, <4>1, InsertedIs
      <4>3. u.rules = InsertAt(s, at, m.rule)
        BY <3>3 DEF at, s
      <4>4. Len(u.rules) = Len(s) + 1
        <5> HIDE DEF u
        <5> QED BY <4>2, <4>3 DEF With
      <4> QED BY <4>4 DEF s
    <3>8. Len(u.rules) # Len(t.rules)
      <4> HIDE DEF u, t
      <4> QED BY <1>7, <3>7
    <3> QED BY <3>8
  <2>3. CASE m.op \in {"update_rule", "delete_rule", "move_rule", "enable_rule"}
    <3>1. r = Rejected(b)
      BY <1>6, <1>7, <2>3 DEF MutatedTable, UpdateRule, DeleteRule, MoveRule, SetRuleEnabled
    <3> QED BY <3>1, RejectedChangesNot
  <2> QED BY <2>1, <2>2, <2>3 DEF TableOps
<1> HIDE DEF u, i
<1>9. TableReplaced(b, Mutated(b, m).proxy, i, m.table, u)
  <2> DEFINE qx == Mutated(b, m).proxy
  <2>1. qx = WithTable(b, i, m, u)
    BY <1>2
  <2> HIDE DEF qx, b
  <2>2. TableReplaced(b, qx, i, m.table, u)
    BY <1>0, <1>2, <1>3, <1>5, <2>1, WithTableIs
  <2> QED BY <2>2 DEF qx, b
<1>10. Mutated(b, m).proxy[1].presets[i][m.table] = u
  BY <1>3, <1>9 DEF TableReplaced
<1> QED
  BY <1>8, <1>10

LEMMA ChangedDiffers ==
  ASSUME NEW m, IsMutation(m), m.op \in TableOps \union {"enable", "rename"},
         NEW r, r = Mutated(Materialized, m), r.changed
  PROVE  r.proxy # Materialized
<1> DEFINE b == Materialized
<1>0. /\ b \in Proxies /\ b # << >> /\ b[1].presets = <<DefaultPreset>>
      /\ b[1].active = <<DefaultName>> /\ b[1].enable = FALSE
  BY MaterializedIs
<1>r. b[1] \in ProxyRecords
  BY <1>0, ProxyIs
<1>1. CASE m.op \in TableOps
  BY <1>1, ChangedTableDiffers
<1>2. CASE m.op = "enable"
  <2> DEFINE qx == <<[b[1] EXCEPT !.enable = m.enabled]>>
  <2>1. r = Done(qx, b[1].enable # m.enabled)
    BY <1>0, <1>2 DEF Mutated, SetGlobalEnabled
  <2>2. m.enabled # b[1].enable /\ r.proxy = qx
    BY <2>1, DoneChanges
  <2>3. qx[1].enable = m.enabled
    BY <1>r DEF ProxyRecords
  <2> QED BY <2>2, <2>3
<1>3. CASE m.op = "rename"
  <2> DEFINE i == PresetIndex(b, m.name)
             new == Trim(m.newName)
             active == b # << >> /\ ActiveIs(b, Trim(m.name))
             qx == <<[b[1] EXCEPT !.presets[i].name = new,
                                  !.active = IF active THEN <<new>> ELSE @]>>
             differs == b[1].presets[i].name # new \/ (active /\ b[1].active # <<new>>)
  <2>1. r = RenamePreset(b, i, Trim(m.name), new, active)
    BY <1>3 DEF Mutated
  <2>2. ~(IsBlank(Trim(m.name)) \/ IsBlank(new) \/ i = 0
          \/ RenameTakesAnothers(b, i, Trim(m.name), new))
    <3> HIDE DEF b, i, new, active
    <3> QED BY <2>1, RejectedChangesNot DEF RenamePreset
  <2>3. r = Done(qx, differs)
    BY <2>1, <2>2 DEF RenamePreset
  <2>4. i = 1
    <3>1. DOMAIN <<DefaultPreset>> = {1}
      OBVIOUS
    <3> QED BY <1>0, <2>2, <3>1, PresetIndexIs
  <2>5. differs /\ r.proxy = qx
    <3>1. differs \in BOOLEAN
      OBVIOUS
    <3> HIDE DEF differs, qx
    <3> QED BY <2>3, <3>1, DoneChanges
  <2>6. DefaultName # new
    <3>1. b[1].presets[i].name = DefaultName
      BY <1>0, <2>4, DefaultIs
    <3> QED BY <1>0, <2>5, <3>1
  <2>7. qx[1].presets[1].name = new
    <3>1. qx[1].presets = [b[1].presets EXCEPT ![i].name = new]
      BY <1>r DEF ProxyRecords
    <3>2. b[1].presets[1] \in PresetRecords
      BY <1>0, DefaultIs
    <3>3. [b[1].presets EXCEPT ![i].name = new][1] = [DefaultPreset EXCEPT !.name = new]
      BY <1>0, <2>4
    <3>4. [DefaultPreset EXCEPT !.name = new].name = new
      BY DefaultIs DEF PresetRecords
    <3> QED BY <3>1, <3>3, <3>4
  <2>8. b[1].presets[1].name = DefaultName
    BY <1>0, DefaultIs
  <2> QED BY <2>5, <2>6, <2>7, <2>8
<1> QED
  BY <1>1, <1>2, <1>3

\* An edit of the popup keeps the proxy, the preset that is only shown included.
LEMMA EditKept ==
  ASSUME NEW px \in Proxies, NEW m, IsMutation(m), m.op \in TableOps \union {"enable", "rename"},
         NEW qx, qx = MutateProxy(px, m).proxy
  PROVE  /\ ProxyKept(px, qx)
         /\ m.op # "rename" => SameShown(px, qx)
         /\ m.op = "rename" /\ ActiveIsTrimmed(px) /\ SameShown(px, qx) => qx = px
<1> DEFINE b == IF Virtual(px) THEN Materialized ELSE px
           r == Mutated(b, m)
<1>1. qx = IF r.changed THEN r.proxy ELSE px
  BY DEF MutateProxy, UnlessUnchanged, TableOps
<1>2. b \in Proxies /\ ~Virtual(b) /\ b # << >>
  BY MaterializedIs DEF Virtual
<1>3. ProxyKept(b, r.proxy)
  BY <1>2, RenameKept, TableKept, EnableKept
<1>4. /\ m.op # "rename" => SameShown(b, r.proxy)
      /\ m.op = "rename" /\ ActiveIsTrimmed(b) /\ SameShown(b, r.proxy) => r.proxy = b
  BY <1>2, TogglesKeepNames, RenameSeen
<1>5. CASE ~Virtual(px)
  <2>1. b = px
    BY <1>5
  <2>2. ProxyKept(px, px) /\ SameShown(px, px)
    BY NothingDone DEF SameShown
  <2> HIDE DEF b, r
  <2> QED BY <1>1, <1>3, <1>4, <2>1, <2>2
<1>6. CASE Virtual(px) /\ ~r.changed
  <2>1. ProxyKept(px, px) /\ SameShown(px, px)
    BY NothingDone DEF SameShown
  <2> QED BY <1>1, <1>6, <2>1
<1>7. CASE Virtual(px) /\ r.changed
  <2>1. b = Materialized /\ qx = r.proxy /\ qx # b
    BY <1>1, <1>7, ChangedDiffers
  <2>2. View(px) = View(b) /\ Shown(px) = Shown(b)
    BY <1>7, <2>1, VirtualLooks
  <2>3. ValidProxy(b) /\ WellFormed(b) /\ ActiveIsTrimmed(b)
    BY <2>1, MaterializedIs
  <2> HIDE DEF b, r
  <2>4. ProxyKept(px, qx)
    BY <1>3, <2>1, <2>2, <2>3 DEF ProxyKept
  <2>5. ShownPresets(px) = ShownPresets(b)
    BY <2>2 DEF View, ShownPresets
  <2>6. SameShown(px, qx) <=> SameShown(b, qx)
    BY <2>5 DEF SameShown
  <2> QED BY <1>4, <2>1, <2>3, <2>4, <2>6
<1> QED
  BY <1>5, <1>6, <1>7
\* The table of the preset on show after an edit of it.
LEMMA EditedTable ==
  ASSUME NEW px \in Proxies, Shown(px) # << >>, NEW m, IsMutation(m), m.op \in TableOps,
         m.preset = Shown(px)[1].name, NEW qx, qx = MutateProxy(px, m).proxy,
         NEW t, t = Shown(px)[1][m.table]
  PROVE  /\ t \in TableRecords /\ Shown(qx) # << >>
         /\ Shown(qx)[1][m.table].rules \in {t.rules, TableAfter(m, t).rules}
         /\ \A n \in Tables \ {m.table} : Shown(qx)[1][n].rules = Shown(px)[1][n].rules
<1> DEFINE b == IF Virtual(px) THEN Materialized ELSE px
           r == Mutated(b, m)
           i == ActiveIndex(b)
<1>1. qx = IF r.changed THEN r.proxy ELSE px
  BY DEF MutateProxy, UnlessUnchanged, TableOps
<1>2. b \in Proxies /\ ~Virtual(b) /\ b # << >> /\ Shown(b) = Shown(px)
  BY MaterializedIs, VirtualLooks DEF Virtual
<1>3. m.table \in Tables
  BY MutationIs
<1> HIDE DEF b, r
<1>4. /\ i # 0 /\ i \in DOMAIN b[1].presets /\ Shown(b) = <<b[1].presets[i]>>
      /\ b[1].active # << >> /\ Trim(b[1].presets[i].name) = Trim(b[1].active[1])
  BY <1>2, VirtualIs
<1>5. Shown(px)[1] = b[1].presets[i]
  BY <1>2, <1>4
<1>6. b[1].presets[i] \in PresetRecords /\ t = b[1].presets[i][m.table]
  BY <1>2, <1>4, <1>5, ProxyIs
<1>7. t \in TableRecords
  BY <1>3, <1>6 DEF PresetRecords, Tables
<1>8. CASE qx = px
  BY <1>7, <1>8
<1>9. CASE qx # px
  <2>1. qx = r.proxy
    BY <1>1, <1>9
  <2>2. CASE qx = b
    BY <1>2, <1>7, <2>2
  <2>3. CASE qx # b
    <3> DEFINE k == PresetIndex(b, m.preset)
               u == TableAfter(m, t)
    <3>1. k = i
      <4> DEFINE n == b[1].presets[i].name
                 o == b[1].active[1]
      <4>1. SameNamed(b, b) /\ Trim(n) = Trim(o)
        BY <1>4 DEF SameNamed
      <4>2. PresetIndex(b, n) = PresetIndex(b, o)
        <5> HIDE DEF n, o
        <5> QED BY <1>2, <4>1, SameNames
      <4>3. i = PresetIndex(b, o)
        BY <1>2, <1>4 DEF ActiveIndex
      <4> QED BY <1>5, <4>2, <4>3
    <3>2. ~IsBlank(m.preset)
      <4> SUFFICES ASSUME IsBlank(m.preset) PROVE FALSE
        OBVIOUS
      <4>1. Mutated(b, m) = Rejected(b)
        BY <1>2, TableMutationIs
      <4> QED BY <2>1, <2>3, <4>1 DEF Rejected, r
    <3>3. qx = WithTable(b, i, m, u)
      BY <1>2, <1>4, <1>6, <2>1, <3>1, <3>2, TableMutationIs DEF r
    <3>4. u \in TableRecords /\ (RulesValid(m.table, t) => RulesValid(m.table, u))
      BY <1>7, TableAfterTyped, TableStaysValid
    <3> HIDE DEF u, k, i
    <3>5. TableReplaced(b, qx, i, m.table, u)
      BY <1>2, <1>3, <1>4, <3>3, <3>4, WithTableIs
    <3>6. ActiveIndex(qx) = i
      BY <1>2, <1>3, <1>4, <1>6, <3>3, <3>4, NewTableKeeps DEF i
    <3>7. /\ qx \in Proxies /\ qx # << >>
          /\ \A n \in Tables :
               qx[1].presets[i][n] = IF n = m.table THEN u ELSE b[1].presets[i][n]
      BY <3>5 DEF TableReplaced
    <3>8. Shown(qx) = <<qx[1].presets[i]>>
      BY <1>4, <3>6, <3>7, VirtualIs
    <3>9. Shown(qx) # << >> /\ Shown(qx)[1] = qx[1].presets[i]
      BY <3>8
    <3>10. Shown(qx)[1][m.table] = TableAfter(m, t)
      BY <1>3, <3>7, <3>9 DEF u
    <3>11. ASSUME NEW n \in Tables \ {m.table}
           PROVE  Shown(qx)[1][n].rules = Shown(px)[1][n].rules
      BY <1>5, <3>7, <3>9
    <3> QED BY <1>7, <3>9, <3>10, <3>11
  <2> QED BY <2>2, <2>3
<1> QED
  BY <1>8, <1>9

\* A preset is made active.
LEMMA ActivateIs ==
  ASSUME NEW px \in Proxies, px # << >>, NEW n \in Names, PresetIndex(px, n) # 0,
         NEW r, r = Mutated(px, [op |-> "activate", name |-> <<n>>]),
         NEW qx, qx = IF r.ok THEN r.proxy ELSE px
  PROVE  /\ ProxyKept(px, qx) /\ qx # << >> /\ qx[1].presets = px[1].presets
         /\ WellFormed(px) => ValidProxy(qx)
         /\ ~Virtual(px) /\ ~Virtual(qx) /\ (IsBlank(n) \/ Shown(qx) # << >>)
<1> DEFINE new == Trim(n)
           q == [px[1] EXCEPT !.active = <<new>>]
           i == PresetIndex(px, n)
<1>1. i \in DOMAIN px[1].presets /\ Trim(px[1].presets[i].name) = new
  BY PresetIndexIs
<1>2. ~Virtual(px)
  BY <1>1, VirtualIs
<1>3. new \in Names /\ Trim(new) = new /\ (IsBlank(new) <=> IsBlank(n))
  BY TrimIs
<1>4. PresetIndex(px, new) = i
  <2>1. SameNamed(px, px) /\ Trim(new) = Trim(n)
    BY <1>3 DEF SameNamed
  <2> HIDE DEF new
  <2> QED BY <2>1, SameNames
<1>5. r = IF IsBlank(new) THEN Rejected(px) ELSE Done(<<q>>, px[1].active # <<new>>)
  BY <1>4 DEF Mutated, SetActivePreset
<1>6. CASE IsBlank(new)
  <2>1. qx = px
    BY <1>5, <1>6 DEF Rejected
  <2>2. ~WellFormed(px)
    BY <1>1, <1>3, <1>6, ProxyIs, TrimIs DEF WellFormed, DistinctNames
  <2> QED BY <1>2, <1>3, <1>6, <2>1, <2>2, NothingDone
<1>7. CASE ~IsBlank(new)
  <2>1. qx = <<q>>
    BY <1>5, <1>7 DEF Done
  <2>2. px[1] \in ProxyRecords /\ <<new>> \in Options(Names)
    BY <1>3, ProxyIs, OptionOf
  <2>3. /\ q \in ProxyRecords /\ q.presets = px[1].presets
        /\ q.active = <<new>> /\ q.enable = px[1].enable
    BY <2>2 DEF ProxyRecords
  <2> HIDE DEF q
  <2>4. ProxySet(px, qx, q.active, q.enable)
    BY <2>1, <2>3, SettingIs
  <2>5. /\ qx \in Proxies /\ qx # << >> /\ qx[1].presets = px[1].presets
        /\ qx[1].active = <<new>> /\ qx[1].enable = px[1].enable
        /\ ~Virtual(qx)
        /\ \A o : PresetIndex(qx, o) = PresetIndex(px, o)
        /\ WellFormed(px) => WellFormed(qx)
        /\ px[1].active = <<new>> => qx = px
    BY <1>2, <2>3, <2>4 DEF ProxySet
  <2>6. qx[1].active # << >> /\ qx[1].active[1] = new
    <3>1. qx[1].active = <<new>>
      BY <2>5
    <3>2. \A x, y : x = <<y>> => x # << >> /\ x[1] = y
      OBVIOUS
    <3> QED BY <3>1, <3>2
  <2>7. ActiveIndex(qx) = i
    BY <1>4, <2>5, <2>6 DEF ActiveIndex
  <2>8. Shown(qx) # << >>
    BY <1>1, <2>5, <2>7, VirtualIs
  <2>9. WellFormed(px) => ValidProxy(qx)
    <3>1. ~ActiveDiagnosed(qx)
      BY <1>7, <2>6, <2>7 DEF ActiveDiagnosed
    <3> QED BY <2>5, <3>1 DEF WellFormed, ValidProxy
  <2>10. ValidProxy(px) => WellFormed(px)
    BY DEF ValidProxy, WellFormed
  <2>11. ASSUME ActiveIsTrimmed(px), View(qx) = View(px) PROVE qx = px
    <3>1. ActiveIndex(px) = i
      BY <1>2, <2>5, <2>7, <2>11 DEF View
    <3>2. /\ px[1].active # << >> /\ px[1].active = <<px[1].active[1]>>
          /\ Trim(px[1].presets[i].name) = Trim(px[1].active[1])
      BY <3>1, VirtualIs
    <3>3. px[1].active[1] = new
      BY <1>1, <2>11, <3>2 DEF ActiveIsTrimmed
    <3> QED BY <2>5, <3>2, <3>3
  <2> QED BY <1>2, <2>5, <2>8, <2>9, <2>10, <2>11 DEF ProxyKept
<1> QED
  BY <1>6, <1>7

\* A preset is added at the end of a proxy.
PresetAdded(px, qx, e) ==
  /\ qx \in Proxies /\ qx # << >> /\ ~Virtual(qx)
  /\ Len(qx[1].presets) = IF px = << >> THEN 1 ELSE Len(px[1].presets) + 1
  /\ qx[1].presets[Len(qx[1].presets)] = e /\ Len(qx[1].presets) \in DOMAIN qx[1].presets
  /\ WellFormed(px) => WellFormed(qx)

LEMMA AddedIs ==
  ASSUME NEW px \in Proxies, NEW e \in PresetRecords, ~IsBlank(e.name), ValidRules(e),
         PresetIndex(px, e.name) = 0,
         NEW base \in ProxyRecords, px # << >> => base.presets = px[1].presets,
         px = << >> => base.presets = << >>,
         NEW qx, qx = <<[base EXCEPT !.presets = Append(@, e)]>>
  PROVE  PresetAdded(px, qx, e)
<1> DEFINE ps == base.presets
           us == Append(ps, e)
           q == [base EXCEPT !.presets = us]
<1>1. ps \in Seq(PresetRecords) /\ Len(ps) \in Nat /\ DOMAIN ps = 1..Len(ps)
  BY LenProperties DEF ProxyRecords
<1>2. /\ us \in Seq(PresetRecords) /\ Len(us) = Len(ps) + 1 /\ us[Len(ps) + 1] = e
      /\ \A j \in 1..Len(ps) : us[j] = ps[j]
  <2> HIDE DEF ps
  <2> QED BY <1>1, AppendProperties
<1>3. DOMAIN us = 1..(Len(ps) + 1)
  <2> HIDE DEF us
  <2> QED BY <1>1, <1>2, LenProperties
<1> HIDE DEF us
<1>4. qx = <<q>> /\ q \in ProxyRecords /\ q.presets = us
  BY <1>2 DEF ProxyRecords, us
<1> HIDE DEF q
<1>5. qx \in Proxies /\ qx # << >> /\ qx[1].presets = us
  <2>1. <<q>> \in Proxies
    BY <1>4, OptionOf DEF Proxies
  <2>2. \A x, y : x = <<y>> => x # << >> /\ x[1] = y
    OBVIOUS
  <2>3. qx # << >> /\ qx[1] = q
    BY <1>4, <2>2
  <2> QED BY <1>4, <2>1, <2>3
<1>6. ~Virtual(qx)
  <2>1. Virtual(qx) <=> Len(qx[1].presets) = 0
    BY <1>5, VirtualIs
  <2> HIDE DEF ps
  <2> QED BY <1>1, <1>2, <1>5, <2>1
<1>7. Len(ps) = IF px = << >> THEN 0 ELSE Len(px[1].presets)
  BY EmptySeq
<1>8. ASSUME WellFormed(px) PROVE WellFormed(qx)
  <2>1. DistinctNames(ps) /\ \A j \in DOMAIN ps : ValidRules(ps[j])
    <3>1. CASE px = << >>
      <4>1. DOMAIN ps = {}
        BY <1>1, <1>7, <3>1
      <4> QED BY <4>1 DEF DistinctNames
    <3>2. CASE px # << >>
      <4> HIDE DEF ps
      <4>1. ps = px[1].presets
        BY <3>2 DEF ps
      <4> QED BY <1>8, <3>2, <4>1 DEF WellFormed
    <3> QED BY <3>1, <3>2
  <2>2. \A j \in DOMAIN ps : Trim(ps[j].name) # Trim(e.name)
    <3>1. CASE px = << >>
      <4>1. DOMAIN ps = {}
        BY <1>1, <1>7, <3>1
      <4> QED BY <4>1
    <3>2. CASE px # << >>
      <4> HIDE DEF ps
      <4>1. ps = px[1].presets
        BY <3>2 DEF ps
      <4> QED BY <3>2, <4>1, PresetIndexIs
    <3> QED BY <3>1, <3>2
  <2> HIDE DEF ps
  <2>3. ASSUME NEW j \in DOMAIN us
        PROVE  \/ j \in DOMAIN ps /\ us[j] = ps[j]
               \/ j = Len(ps) + 1 /\ j \notin DOMAIN ps /\ us[j] = e
    <3>1. j \in 1..Len(ps) \/ j = Len(ps) + 1
      BY <1>1, <1>3
    <3>2. Len(ps) + 1 \notin 1..Len(ps)
      BY <1>1
    <3> QED BY <1>1, <1>2, <3>1, <3>2
  <2>4. ASSUME NEW j \in DOMAIN us, NEW k \in DOMAIN us
        PROVE  ~IsBlank(us[j].name) /\ (Trim(us[j].name) = Trim(us[k].name) => j = k)
    <3>1. CASE j \in DOMAIN ps /\ us[j] = ps[j]
      <4>1. CASE k \in DOMAIN ps /\ us[k] = ps[k]
        BY <2>1, <3>1, <4>1 DEF DistinctNames
      <4>2. CASE k = Len(ps) + 1 /\ us[k] = e
        BY <2>1, <2>2, <3>1, <4>2 DEF DistinctNames
      <4> QED BY <2>3, <4>1, <4>2
    <3>2. CASE j = Len(ps) + 1 /\ us[j] = e
      <4>1. CASE k \in DOMAIN ps /\ us[k] = ps[k]
        BY <2>2, <3>2, <4>1
      <4>2. CASE k = Len(ps) + 1 /\ us[k] = e
        BY <3>2, <4>2
      <4> QED BY <2>3, <4>1, <4>2
    <3> QED BY <2>3, <3>1, <3>2
  <2>5. \A j \in DOMAIN us : ValidRules(us[j])
    BY <2>1, <2>3
  <2>6. DistinctNames(us)
    BY <2>4 DEF DistinctNames
  <2> QED BY <1>5, <2>5, <2>6 DEF WellFormed
<1>9. Len(ps) + 1 \in 1..(Len(ps) + 1)
  BY <1>1
<1>10. Len(us) = IF px = << >> THEN 1 ELSE Len(px[1].presets) + 1
  <2> HIDE DEF ps
  <2> QED BY <1>2, <1>7
<1>11. us[Len(us)] = e /\ Len(us) \in DOMAIN us
  <2> HIDE DEF ps
  <2> QED BY <1>2, <1>3, <1>9
<1> HIDE DEF ps
<1> QED
  BY <1>5, <1>6, <1>8, <1>10, <1>11 DEF PresetAdded

\* What `create` does when it is accepted.
NamedAs(initial, n) == [initial EXCEPT !.name = n]
BaseOf(px) == IF px = << >> THEN DefaultProxy ELSE px[1]
CreateResult(px, n, initial, e, base, r) ==
  /\ e \in PresetRecords /\ e.name = n
  /\ \A t \in Tables : e[t] = initial[t]
  /\ base \in ProxyRecords
  /\ px # << >> => base = px[1]
  /\ px = << >> => base.presets = << >>
  /\ IF IsBlank(n) \/ PresetIndex(px, n) # 0 \/ ~ValidInitial(e) THEN r = Rejected(px)
     ELSE r = Done(<<[base EXCEPT !.presets = Append(@, e)]>>, TRUE)

LEMMA CreateIs ==
  ASSUME NEW px \in Proxies, NEW n \in Names, NEW initial \in PresetRecords,
         NEW e, e = NamedAs(initial, n),
         NEW r, r = CreatePreset(px, n, initial),
         NEW base, base = BaseOf(px)
  PROVE  CreateResult(px, n, initial, e, base, r)
<1>1. e \in PresetRecords /\ e.name = n /\ e["remote"] = initial["remote"] /\ e["local"] = initial["local"]
  BY DEF PresetRecords, NamedAs
<1>2. DefaultProxy \in ProxyRecords /\ DefaultProxy.presets = << >>
  BY OptionOf, EmptySeq DEF DefaultProxy, ProxyRecords
<1>3. base \in ProxyRecords
  BY <1>2, ProxyIs DEF BaseOf
<1>4. (px # << >> => base = px[1]) /\ (px = << >> => base.presets = << >>)
  BY <1>2 DEF BaseOf
<1>5. IF IsBlank(n) \/ PresetIndex(px, n) # 0 \/ ~ValidInitial(e) THEN r = Rejected(px)
      ELSE r = Done(<<[base EXCEPT !.presets = Append(@, e)]>>, TRUE)
  BY DEF CreatePreset, NamedAs, BaseOf
<1>6. \A t \in Tables : e[t] = initial[t]
  BY <1>1 DEF Tables
<1> QED
  BY <1>1, <1>3, <1>4, <1>5, <1>6 DEF CreateResult

LEMMA InitialIsValid ==
  ASSUME NEW e \in PresetRecords, ~IsBlank(e.name), ValidRules(e)
  PROVE  ValidInitial(e)
<1> DEFINE r == [enable |-> TRUE, active |-> <<e.name>>, presets |-> <<e>>]
           px == <<r>>
<1>1. e.name \in Names
  BY DEF PresetRecords
<1>2. r \in ProxyRecords /\ r.presets = <<e>> /\ r.active = <<e.name>>
  BY <1>1, OptionOf DEF ProxyRecords
<1> HIDE DEF r
<1>3. px \in Proxies /\ px # << >> /\ px[1] = r
  BY <1>2, OptionOf DEF Proxies
<1>4. DOMAIN r.presets = {1} /\ r.presets[1] = e
  BY <1>2
<1>5. DistinctNames(r.presets) /\ \A i \in DOMAIN r.presets : ValidRules(r.presets[i])
  BY <1>4 DEF DistinctNames
<1>6. r.active # << >> /\ r.active[1] = e.name
  BY <1>2
<1> HIDE DEF px
<1>7. ActiveIndex(px) # 0
  BY <1>3, <1>4, <1>6, VirtualIs
<1>8. ~ActiveDiagnosed(px)
  BY <1>3, <1>6, <1>7 DEF ActiveDiagnosed
<1>9. ValidProxy(px)
  BY <1>3, <1>5, <1>8 DEF ValidProxy
<1> QED
  BY <1>9 DEF ValidInitial, px, r

\* The popup creates a preset under the first fresh name that is not taken.
LEMMA FreshIs ==
  ASSUME NEW px \in Proxies, HasFresh(px), NEW n, n = FreshName(px)
  PROVE  n \in Names /\ ~IsBlank(n) /\ Trim(n) # DefaultName /\ PresetIndex(px, n) = 0
<1> DEFINE I == {i \in 1..Len(FreshNames) : PresetIndex(px, FreshNames[i]) = 0}
           k == SelectInSeq(FreshNames, LAMBDA name : PresetIndex(px, name) = 0)
<1>1. FreshNames \in Seq(Names) /\ Len(FreshNames) \in Nat
      /\ DOMAIN FreshNames = 1..Len(FreshNames)
  BY EditorAssumption, LenProperties
<1>2. k = IF I # {} THEN Min(I) ELSE 0
  BY DEF SelectInSeq
<1>3. I # {}
  BY <1>1 DEF HasFresh
<1>4. k \in I
  BY <1>1, <1>2, <1>3, LeastPlace
<1>5. n = FreshNames[k]
  BY DEF FreshName
<1> HIDE DEF k
<1>6. k \in DOMAIN FreshNames /\ PresetIndex(px, FreshNames[k]) = 0
  BY <1>1, <1>4
<1> QED
  BY <1>1, <1>5, <1>6, EditorAssumption, ElementOfSeq

LEMMA CreatedIs ==
  ASSUME NEW px \in Proxies, HasFresh(px),
         NEW cx, cx = WithCreated(px, Created(px, FreshName(px)))
  PROVE  \E e \in PresetRecords :
           PresetAdded(px, cx, e) /\ e.name # DefaultName /\ ~IsBlank(e.name)
<1> DEFINE n == Trim(FreshName(px))
           initial == Preset(FreshName(px), FALSE)
           base == BaseOf(px)
           r == CreatePreset(px, n, initial)
<1>1. /\ FreshName(px) \in Names /\ ~IsBlank(FreshName(px)) /\ n # DefaultName
      /\ PresetIndex(px, FreshName(px)) = 0
  BY FreshIs
<1>2. n \in Names /\ ~IsBlank(n) /\ Trim(n) = n
  BY <1>1, TrimIs
<1>3. initial \in PresetRecords /\ \A t \in Tables : initial[t].rules = << >>
  <2>1. NoRules(FALSE) \in TableRecords /\ NoRules(FALSE).rules = << >>
    BY EmptySeq DEF NoRules, TableRecords
  <2>2. initial = [name |-> FreshName(px), remote |-> NoRules(FALSE), local |-> NoRules(FALSE)]
    BY DEF Preset
  <2> HIDE DEF initial
  <2>3. initial["remote"] = NoRules(FALSE) /\ initial["local"] = NoRules(FALSE)
    BY <2>2
  <2>4. initial \in PresetRecords
    BY <1>1, <2>1, <2>2 DEF PresetRecords
  <2> QED BY <2>1, <2>3, <2>4 DEF Tables
<1> HIDE DEF n, initial
<1> DEFINE e == NamedAs(initial, n)
<1>d. e = NamedAs(initial, n) /\ r = CreatePreset(px, n, initial) /\ base = BaseOf(px)
  OBVIOUS
<1> HIDE DEF e, base, r
<1>c. CreateResult(px, n, initial, e, base, r)
  BY <1>2, <1>3, <1>d, CreateIs
<1>4. /\ e \in PresetRecords /\ e.name = n
      /\ \A t \in Tables : e[t] = initial[t]
      /\ base \in ProxyRecords
      /\ px # << >> => base = px[1]
      /\ px = << >> => base.presets = << >>
      /\ IF IsBlank(n) \/ PresetIndex(px, n) # 0 \/ ~ValidInitial(e) THEN r = Rejected(px)
         ELSE r = Done(<<[base EXCEPT !.presets = Append(@, e)]>>, TRUE)
  BY <1>c DEF CreateResult
<1>5. PresetIndex(px, n) = 0
  <2>1. CASE px = << >>
    BY <2>1 DEF PresetIndex
  <2>2. CASE px # << >>
    <3> DEFINE f == FreshName(px)
    <3>1. SameNamed(px, px) /\ Trim(n) = Trim(f)
      BY <1>2 DEF SameNamed, n
    <3>2. PresetIndex(px, f) = 0
      BY <1>1
    <3> HIDE DEF f
    <3> QED BY <2>2, <3>1, <3>2, SameNames
  <2> QED BY <2>1, <2>2
<1>6. ValidRules(e) /\ ~IsBlank(e.name)
  BY <1>2, <1>3, <1>4 DEF ValidRules
<1>7. r = Done(<<[base EXCEPT !.presets = Append(@, e)]>>, TRUE)
  BY <1>2, <1>4, <1>5, <1>6, InitialIsValid
<1>8. Mutated(px, [op |-> "create", name |-> FreshName(px), initial |-> initial]) = r
  BY <1>d DEF Mutated, n
<1>9. Created(px, FreshName(px)) = <<[base EXCEPT !.presets = Append(@, e)]>>
  <2>1. Created(px, FreshName(px)) = r.proxy
    BY <1>8 DEF Created, initial
  <2> QED BY <1>7, <2>1 DEF Done
<1>10. CASE px # << >>
  <2>1. cx = <<[base EXCEPT !.presets = Append(@, e)]>>
    BY <1>9, <1>10 DEF WithCreated
  <2>2. PresetIndex(px, e.name) = 0 /\ base.presets = px[1].presets
    BY <1>4, <1>5, <1>10
  <2>3. PresetAdded(px, cx, e)
    BY <1>4, <1>6, <1>10, <2>1, <2>2, AddedIs
  <2> QED BY <1>1, <1>4, <1>6, <2>3
<1>11. CASE px = << >>
  <2> DEFINE off == [base EXCEPT !.enable = FALSE]
  <2>1. off \in ProxyRecords /\ off.presets = << >>
    BY <1>4, <1>11 DEF ProxyRecords
  <2>2. cx = <<[off EXCEPT !.presets = Append(@, e)]>>
    <3>1. cx = <<[[base EXCEPT !.presets = Append(@, e)] EXCEPT !.enable = FALSE]>>
      BY <1>9, <1>11 DEF WithCreated
    <3>2. [[base EXCEPT !.presets = Append(@, e)] EXCEPT !.enable = FALSE]
            = [off EXCEPT !.presets = Append(@, e)]
      BY <1>4 DEF ProxyRecords
    <3> QED BY <3>1, <3>2
  <2> HIDE DEF off
  <2>3. PresetIndex(px, e.name) = 0
    BY <1>4, <1>5
  <2>4. PresetAdded(px, cx, e)
    BY <1>4, <1>6, <1>11, <2>1, <2>2, <2>3, AddedIs
  <2> QED BY <1>1, <1>4, <1>6, <2>4
<1> QED
  BY <1>10, <1>11

\* A fresh preset is created and made active.
LEMMA FreshKept ==
  ASSUME NEW px \in Proxies, HasFresh(px),
         NEW cx, cx = WithCreated(px, Created(px, FreshName(px))),
         NEW n, n = cx[1].presets[Len(cx[1].presets)].name,
         NEW r, r = Mutated(cx, [op |-> "activate", name |-> <<n>>]),
         NEW qx, qx = IF r.ok THEN r.proxy ELSE cx
  PROVE  ProxyKept(px, qx) /\ cx \in Proxies /\ cx # << >> /\ Shown(qx) # << >>
<1>1. PICK e \in PresetRecords : PresetAdded(px, cx, e) /\ e.name # DefaultName /\ ~IsBlank(e.name)
  BY CreatedIs
<1>2. /\ cx \in Proxies /\ cx # << >> /\ ~Virtual(cx)
      /\ Len(cx[1].presets) = IF px = << >> THEN 1 ELSE Len(px[1].presets) + 1
      /\ cx[1].presets[Len(cx[1].presets)] = e /\ Len(cx[1].presets) \in DOMAIN cx[1].presets
      /\ WellFormed(px) => WellFormed(cx)
  BY <1>1 DEF PresetAdded
<1>3. n \in Names /\ n = e.name
  BY <1>2 DEF PresetRecords
<1>4. PresetIndex(cx, n) # 0
  BY <1>2, <1>3, PresetIndexIs
<1>5. /\ ProxyKept(cx, qx) /\ qx # << >> /\ qx[1].presets = cx[1].presets
      /\ WellFormed(cx) => ValidProxy(qx)
      /\ ~Virtual(qx) /\ Shown(qx) # << >>
  BY <1>1, <1>2, <1>3, <1>4, ActivateIs
<1>6. ValidProxy(px) => WellFormed(px)
  BY DEF ValidProxy, WellFormed
<1>7. View(qx) # View(px)
  <2> SUFFICES ASSUME View(qx) = View(px) PROVE FALSE
    OBVIOUS
  <2>1. ShownPresets(px) = cx[1].presets
    <3>1. ShownPresets(px) = ShownPresets(qx)
      BY DEF View, ShownPresets
    <3>2. ShownPresets(qx) = qx[1].presets /\ qx[1].presets = cx[1].presets
      <4>1. ~Virtual(qx) /\ qx[1].presets = cx[1].presets
        BY <1>5
      <4> QED BY <4>1 DEF ShownPresets
    <3> QED BY <3>1, <3>2
  <2>2. CASE Virtual(px)
    <3>1. Len(cx[1].presets) = 1
      <4>1. CASE px = << >>
        BY <1>2, <4>1
      <4>2. CASE px # << >>
        BY <1>2, <2>2, <4>2, VirtualIs
      <4> QED BY <4>1, <4>2
    <3>2. cx[1].presets = <<DefaultPreset>>
      BY <2>1, <2>2 DEF ShownPresets
    <3>3. e = DefaultPreset
      BY <1>2, <3>1, <3>2
    <3> QED BY <1>1, <3>3, DefaultIs
  <2>3. CASE ~Virtual(px)
    <3>1. px # << >> /\ cx[1].presets = px[1].presets
      BY <2>1, <2>3 DEF ShownPresets, Virtual
    <3>2. Len(px[1].presets) \in Nat
      BY <3>1, ProxyIs, LenProperties
    <3>3. Len(px[1].presets) = Len(px[1].presets) + 1
      BY <1>2, <3>1
    <3> QED BY <3>2, <3>3
  <2> QED BY <2>2, <2>3
<1> QED
  BY <1>2, <1>5, <1>6, <1>7 DEF ProxyKept

\* The document stays well formed whichever mutation the control service is asked for.
LEMMA DeletedIs ==
  ASSUME NEW px \in Proxies, px # << >>, NEW i \in DOMAIN px[1].presets,
         NEW r \in ProxyRecords, r.presets = RemoveAt(px[1].presets, i),
         NEW qx, qx = <<r>>
  PROVE  qx \in Proxies /\ (WellFormed(px) => WellFormed(qx))
<1> DEFINE ps == px[1].presets
           us == r.presets
<1>1. ps \in Seq(PresetRecords) /\ Len(ps) \in Nat /\ DOMAIN ps = 1..Len(ps)
  BY ProxyIs, LenProperties
<1>2. us \in Seq(PresetRecords) /\ Len(us) \in Nat /\ DOMAIN us = 1..Len(us)
  BY LenProperties DEF ProxyRecords
<1>3. /\ Len(us) = Len(ps) - 1
      /\ \A k \in 1..(Len(ps) - 1) : us[k] = IF k < i THEN ps[k] ELSE ps[k + 1]
  BY <1>1, RemovedIs DEF Without
<1>4. qx \in Proxies /\ qx # << >> /\ qx[1] = r
  BY OptionOf DEF Proxies
<1> HIDE DEF ps, us
<1> DEFINE old(k) == IF k < i THEN k ELSE k + 1
<1>5. \A k \in DOMAIN us : old(k) \in DOMAIN ps /\ us[k] = ps[old(k)]
  BY <1>1, <1>2, <1>3
<1>6. \A j, k \in DOMAIN us : old(j) = old(k) => j = k
  BY <1>1, <1>2 DEF ps
<1> HIDE DEF old
<1>7. DistinctNames(ps) => DistinctNames(us)
  BY <1>5, <1>6 DEF DistinctNames
<1>8. (\A j \in DOMAIN ps : ValidRules(ps[j])) => \A j \in DOMAIN us : ValidRules(us[j])
  BY <1>5
<1> QED
  BY <1>4, <1>7, <1>8 DEF WellFormed, ps, us

LEMMA MutationKeepsForm ==
  ASSUME NEW px \in Proxies, NEW m, IsMutation(m), NEW qx, qx = Mutated(px, m).proxy
  PROVE  qx \in Proxies /\ (WellFormed(px) => WellFormed(qx))
<1>1. CASE m.op \in TableOps
  BY <1>1, TableKept DEF ProxyKept
<1>2. CASE m.op = "rename"
  BY <1>2, RenameKept DEF ProxyKept
<1>3. CASE m.op = "enable"
  <2>1. CASE px = << >>
    <3>1. qx = px
      BY <1>3, <2>1 DEF Mutated, SetGlobalEnabled, Rejected
    <3> QED BY <3>1
  <2>2. CASE px # << >>
    <3> DEFINE r == [px[1] EXCEPT !.enable = m.enabled]
    <3>1. qx = <<r>>
      BY <1>3, <2>2 DEF Mutated, SetGlobalEnabled, Done
    <3>2. r \in ProxyRecords /\ r.presets = px[1].presets
      BY <1>3, <2>2, MutationIs, ProxyIs DEF ProxyRecords
    <3> HIDE DEF r
    <3>3. ProxySet(px, qx, r.active, r.enable)
      BY <2>2, <3>1, <3>2, SettingIs
    <3> QED BY <3>3 DEF ProxySet
  <2> QED BY <2>1, <2>2
<1>4. CASE m.op = "activate"
  <2> DEFINE next == IF m.name = << >> THEN << >> ELSE <<Trim(m.name[1])>>
             r == [px[1] EXCEPT !.active = next]
  <2>1. next \in Options(Names)
    BY <1>4, MutationIs, OptionIs, OptionOf, TrimIs
  <2>2. Mutated(px, m) = SetActivePreset(px, next)
    BY <1>4 DEF Mutated
  <2> HIDE DEF next
  <2>3. qx = px \/ (px # << >> /\ qx = <<r>>)
    BY <2>2 DEF SetActivePreset, Rejected, Done
  <2>4. CASE px # << >> /\ qx = <<r>>
    <3>1. r \in ProxyRecords /\ r.presets = px[1].presets
      BY <2>1, <2>4, ProxyIs DEF ProxyRecords
    <3> HIDE DEF r
    <3>2. ProxySet(px, qx, r.active, r.enable)
      BY <2>4, <3>1, SettingIs
    <3> QED BY <3>2 DEF ProxySet
  <2> QED BY <2>3, <2>4
<1>5. CASE m.op = "delete"
  <2> DEFINE i == PresetIndex(px, m.name)
             n == Trim(m.name)
             next == IF ActiveIs(px, n) THEN << >> ELSE px[1].active
             r == [px[1] EXCEPT !.presets = RemoveAt(@, i), !.active = next]
  <2>1. Mutated(px, m) = DeletePreset(px, i, n)
    BY <1>5 DEF Mutated
  <2>2. CASE IsBlank(n) \/ i = 0
    <3>1. qx = px
      <4>1. Mutated(px, m) = Rejected(px)
        BY <2>1, <2>2 DEF DeletePreset
      <4> QED BY <4>1 DEF Rejected
    <3> QED BY <3>1
  <2>3. CASE ~(IsBlank(n) \/ i = 0)
    <3>1. px # << >>
      BY <2>3 DEF PresetIndex
    <3>2. i \in DOMAIN px[1].presets
      BY <2>3, <3>1, PresetIndexIs
    <3>3. qx = <<r>>
      BY <2>1, <2>3 DEF DeletePreset, Done
    <3>4. next \in Options(Names) /\ px[1] \in ProxyRecords
      BY <3>1, ProxyIs, OptionOf
    <3>5. RemoveAt(px[1].presets, i) \in Seq(PresetRecords)
      BY <3>1, <3>2, ProxyIs, RemovedIs
    <3> HIDE DEF next, i, n
    <3>6. r \in ProxyRecords /\ r.presets = RemoveAt(px[1].presets, i)
      BY <3>4, <3>5 DEF ProxyRecords
    <3> HIDE DEF r
    <3> QED BY <3>1, <3>2, <3>3, <3>6, DeletedIs
  <2> QED BY <2>2, <2>3
<1>6. CASE m.op = "create"
  <2> DEFINE n == Trim(m.name)
             e == NamedAs(m.initial, n)
             base == BaseOf(px)
             r == CreatePreset(px, n, m.initial)
  <2>1. m.name \in Names /\ m.initial \in PresetRecords /\ n \in Names
    BY <1>6, MutationIs, TrimIs
  <2>2. Mutated(px, m) = r
    BY <1>6 DEF Mutated
  <2>3. e = NamedAs(m.initial, n) /\ r = CreatePreset(px, n, m.initial) /\ base = BaseOf(px)
    OBVIOUS
  <2> HIDE DEF n, e, base, r
  <2>4. CreateResult(px, n, m.initial, e, base, r)
    BY <2>1, <2>3, CreateIs
  <2>5. CASE IsBlank(n) \/ PresetIndex(px, n) # 0 \/ ~ValidInitial(e)
    <3>1. qx = px
      <4>1. Mutated(px, m) = Rejected(px)
        BY <2>2, <2>4, <2>5 DEF CreateResult
      <4> QED BY <4>1 DEF Rejected
    <3> QED BY <3>1
  <2>6. CASE ~(IsBlank(n) \/ PresetIndex(px, n) # 0 \/ ~ValidInitial(e))
    <3>1. qx = <<[base EXCEPT !.presets = Append(@, e)]>>
      BY <2>2, <2>4, <2>6 DEF CreateResult, Done
    <3>2. /\ e \in PresetRecords /\ e.name = n /\ base \in ProxyRecords
          /\ px # << >> => base.presets = px[1].presets
          /\ px = << >> => base.presets = << >>
      BY <2>4 DEF CreateResult
    <3>3. ValidRules(e)
      <4> DEFINE only == [enable |-> TRUE, active |-> <<e.name>>, presets |-> <<e>>]
      <4>1. ValidProxy(<<only>>)
        BY <2>6 DEF ValidInitial
      <4>2. \A i \in DOMAIN only.presets : ValidRules(only.presets[i])
        BY <4>1 DEF ValidProxy
      <4>3. 1 \in DOMAIN only.presets /\ only.presets[1] = e
        OBVIOUS
      <4> HIDE DEF only
      <4> QED BY <4>2, <4>3
    <3>4. ~IsBlank(e.name) /\ PresetIndex(px, e.name) = 0
      BY <2>6, <3>2
    <3>5. PresetAdded(px, qx, e)
      BY <3>1, <3>2, <3>3, <3>4, AddedIs
    <3> QED BY <3>5 DEF PresetAdded
  <2> QED BY <2>5, <2>6
<1> QED
  BY <1>1, <1>2, <1>3, <1>4, <1>5, <1>6, MutationIs DEF Ops

(***************************************************************************)
(* The popup.                                                              *)
(***************************************************************************)
LEMMA PopupIs ==
  ASSUME NEW p \in Popups
  PROVE  /\ p.visible \in BOOLEAN /\ p.focus \in {"topics", "content"} /\ p.topic \in Topics
         /\ p.row \in Indices /\ p.mode \in Modes /\ p.draft \in Documents
         /\ p.original \in Documents
BY DEF Popups

LEMMA DocumentIs ==
  ASSUME NEW d \in Documents
  PROVE  /\ d.port \in STRING /\ d.certificate \in [dir : STRING, file : STRING]
         /\ d.record \in BOOLEAN /\ d.autoExpand \in BOOLEAN
         /\ d.prefilter \in [enable : BOOLEAN, patterns : Seq([pattern : STRING, enable : BOOLEAN])]
         /\ d.prefilter.patterns \in Seq([pattern : STRING, enable : BOOLEAN])
         /\ d.proxy \in Proxies
BY DEF Documents

LEMMA ModeIs ==
  ASSUME NEW m \in Modes
  PROVE  /\ m.kind \in {"browse", "unsaved", "select", "rules", "rule", "patterns", "pattern", "field"}
         /\ m.kind = "select" => m = Selecting(m.box) /\ m.box \in Boxes
         /\ m.kind = "rules" =>
              m = RuleTable(m.table, m.index) /\ m.table \in Tables /\ m.index \in Indices
         /\ m.kind = "rule" =>
              /\ m = RuleEditor(m.table, m.index, m.from, m.to)
              /\ m.table \in Tables /\ m.index \in Indices /\ m.from \in RuleTexts /\ m.to \in RuleTexts
         /\ m.kind = "patterns" => m = PatternTable(m.index) /\ m.index \in Indices
         /\ m.kind = "pattern" =>
              m = PatternEditor(m.index, m.glob) /\ m.index \in Indices /\ m.glob \in STRING
         /\ m.kind = "field" =>
              /\ m = Field(m.widget, m.value)
              /\ m.widget \in {"port", "dir", "file", "name"} /\ m.value \in Names
BY DEF Modes, Selecting, RuleTable, RuleEditor, PatternTable, PatternEditor, Field

LEMMA ModeOf ==
  /\ Browse \in Modes /\ Unsaved \in Modes
  /\ \A box \in Boxes : Selecting(box) \in Modes
  /\ \A table \in Tables, index \in Indices :
       /\ RuleTable(table, index) \in Modes
       /\ \A from, to \in RuleTexts : RuleEditor(table, index, from, to) \in Modes
  /\ \A index \in Indices : PatternTable(index) \in Modes
  /\ \A index \in Indices, glob \in STRING : PatternEditor(index, glob) \in Modes
  /\ \A widget \in {"port", "dir", "file", "name"}, value \in Names : Field(widget, value) \in Modes
BY DEF Modes, Browse, Unsaved, Selecting, RuleTable, RuleEditor, PatternTable, PatternEditor, Field

LEMMA ClampedIs ==
  ASSUME NEW index \in Int, NEW count \in Nat
  PROVE  /\ Clamped(index, count) \in Indices
         /\ Clamped(index, count) = 1 \/ Clamped(index, count) \in 1..count
         /\ index \in 1..count => Clamped(index, count) = index
         /\ count # 0 => Clamped(index, count) \in 1..count
<1>1. Min({index, count}) = IF index <= count THEN index ELSE count
  BY MaxMin
<1>2. Min({index, count}) \in Int
  BY <1>1
<1>3. Clamped(index, count)
        = IF 1 >= Min({index, count}) THEN 1 ELSE Min({index, count})
  BY <1>2, MaxMin DEF Clamped
<1> QED
  BY <1>1, <1>3 DEF Indices

LEMMA ShownIs ==
  ASSUME NEW px \in Proxies
  PROVE  /\ Shown(px) # << >> => Shown(px)[1] \in PresetRecords
         /\ Shown(px) # << >> => Shown(px)[1].name \in Names
         /\ \A t \in Tables : Shown(px) # << >> =>
              Shown(px)[1][t] \in TableRecords /\ RulesIn(Shown(px), t) = Shown(px)[1][t].rules
         /\ \A t \in Tables : RulesIn(Shown(px), t) \in Seq(RuleRecords)
<1>1. Shown(px) # << >> => Shown(px)[1] \in PresetRecords
  <2>1. CASE Virtual(px)
    <3>1. Shown(px) = <<DefaultPreset>>
      BY <2>1 DEF Shown
    <3> QED BY <3>1, DefaultIs
  <2>2. CASE ~Virtual(px)
    <3>1. px # << >>
      BY <2>2 DEF Virtual
    <3> SUFFICES ASSUME Shown(px) # << >> PROVE Shown(px)[1] \in PresetRecords
      OBVIOUS
    <3>2. /\ ActiveIndex(px) \in DOMAIN px[1].presets
          /\ Shown(px) = <<px[1].presets[ActiveIndex(px)]>>
      BY <2>2, <3>1, VirtualIs
    <3> QED BY <3>1, <3>2, ProxyIs
  <2> QED BY <2>1, <2>2
<1>2. ASSUME NEW t \in Tables, Shown(px) # << >>
      PROVE  Shown(px)[1][t] \in TableRecords /\ RulesIn(Shown(px), t) = Shown(px)[1][t].rules
  BY <1>1, <1>2 DEF PresetRecords, Tables, RulesIn
<1>3. ASSUME NEW t \in Tables PROVE RulesIn(Shown(px), t) \in Seq(RuleRecords)
  <2>1. CASE Shown(px) = << >>
    BY <2>1, EmptySeq DEF RulesIn
  <2>2. CASE Shown(px) # << >>
    BY <1>2, <2>2, TableIs
  <2> QED BY <2>1, <2>2
<1> QED
  BY <1>1, <1>2, <1>3 DEF PresetRecords

LEMMA TopicsAre == Topics = {"server", "certificate", "recording", "interface", "proxy"}
BY DEF Topics, Range, TopicOrder

LEMMA RowsAre ==
  ASSUME NEW topic \in Topics, NEW px
  PROVE  /\ Len(Widgets(topic, px)) \in Indices
         /\ DOMAIN Widgets(topic, px) = 1..Len(Widgets(topic, px))
         /\ topic = "recording" => Len(Widgets(topic, px)) = 3
         /\ topic = "proxy" => Len(Widgets(topic, px)) = IF Shown(px) = << >> THEN 1 ELSE 7
         /\ \A qx : (Shown(px) # << >> => Shown(qx) # << >>)
              => DOMAIN Widgets(topic, px) \subseteq DOMAIN Widgets(topic, qx)
<1> DEFINE size(x) == IF topic = "certificate" THEN 2
                      ELSE IF topic = "recording" THEN 3
                      ELSE IF topic = "proxy" /\ Shown(x) # << >> THEN 7
                      ELSE 1
<1>1. ASSUME NEW x
      PROVE  /\ Len(Widgets(topic, x)) = size(x)
             /\ DOMAIN Widgets(topic, x) = 1..Len(Widgets(topic, x))
  <2>1. CASE topic = "server"
    BY <2>1 DEF Widgets
  <2>2. CASE topic = "certificate"
    BY <2>2 DEF Widgets
  <2>3. CASE topic = "recording"
    BY <2>3 DEF Widgets
  <2>4. CASE topic = "interface"
    BY <2>4 DEF Widgets
  <2>5. CASE topic = "proxy" /\ Shown(x) = << >>
    <3>1. Widgets(topic, x) = <<"preset">>
      BY <2>5 DEF Widgets
    <3> QED BY <2>5, <3>1
  <2>6. CASE topic = "proxy" /\ Shown(x) # << >>
    <3>1. Widgets(topic, x) = <<"preset", "name", "enable", "enable_remote", "remote_rules",
                               "enable_local", "local_rules">>
      BY <2>6 DEF Widgets
    <3> QED BY <2>6, <3>1
  <2> QED BY <2>1, <2>2, <2>3, <2>4, <2>5, <2>6, TopicsAre
<1>6. \A x : size(x) \in 1..7
  OBVIOUS
<1>2. ASSUME NEW qx, Shown(px) # << >> => Shown(qx) # << >>
      PROVE  DOMAIN Widgets(topic, px) \subseteq DOMAIN Widgets(topic, qx)
  <2>1. /\ Len(Widgets(topic, px)) \in Nat /\ Len(Widgets(topic, qx)) \in Nat
        /\ Len(Widgets(topic, px)) <= Len(Widgets(topic, qx))
    <3>1. size(px) <= size(qx)
      BY <1>2
    <3> HIDE DEF size
    <3> QED BY <1>1, <1>6, <3>1
  <2>2. 1..Len(Widgets(topic, px)) \subseteq 1..Len(Widgets(topic, qx))
    BY <2>1
  <2> QED BY <1>1, <2>2
<1>3. Len(Widgets(topic, px)) \in Indices
  <2> HIDE DEF size
  <2> QED BY <1>1, <1>6 DEF Indices
<1>4. topic = "recording" => Len(Widgets(topic, px)) = 3
  BY <1>1
<1>5. topic = "proxy" => Len(Widgets(topic, px)) = IF Shown(px) = << >> THEN 1 ELSE 7
  BY <1>1
<1> QED
  BY <1>1, <1>2, <1>3, <1>4, <1>5

RowFits(p) == p.row \in DOMAIN RowsOf(p)

LEMMA RowsOfIs ==
  ASSUME NEW p \in Popups
  PROVE  /\ Len(RowsOf(p)) \in Indices /\ DOMAIN RowsOf(p) = 1..Len(RowsOf(p))
         /\ RowFits(p) => ClampRow(p) = p
<1>1. Len(RowsOf(p)) \in Indices /\ DOMAIN RowsOf(p) = 1..Len(RowsOf(p))
  BY RowsAre, PopupIs DEF RowsOf
<1>2. ASSUME RowFits(p) PROVE ClampRow(p) = p
  <2> DEFINE a == p.row
             b == Len(RowsOf(p))
  <2>1. a \in Int /\ b \in Int /\ a <= b
    BY <1>1, <1>2 DEF RowFits, Indices
  <2>2. Min({a, b}) = a
    <3> HIDE DEF a, b
    <3> QED BY <2>1, MaxMin
  <2> QED BY <2>2 DEF ClampRow, Popups
<1> QED
  BY <1>1, <1>2

\* What is in place in each mode.
ListFits(index, list) == index = 1 \/ index \in DOMAIN list
ModeFits(p, topic, mode) ==
  /\ mode.kind = "rules" => ListFits(mode.index, Rules(p, mode.table))
  /\ mode.kind = "rule" => mode.index \in DOMAIN Rules(p, mode.table)
  /\ mode.kind = "patterns" => ListFits(mode.index, Patterns(p)) /\ topic = "recording"
  /\ mode.kind = "pattern" => mode.index \in DOMAIN Patterns(p) /\ topic = "recording"
  /\ mode.kind = "field" => (mode.widget = "name" => Shown(p.draft.proxy) # << >>)
  /\ mode.kind = "select" => InWindow(mode.box, Items(p.draft.proxy))

Sound(p) == p \in Popups /\ RowFits(p) /\ ModeFits(p, p.topic, p.mode)

\* The same draft in the same popup, or another that is as good.
SameDraft(p, q) == q.visible = p.visible /\ q.original = p.original /\ q.draft = p.draft
DraftKept(p, q) ==
  /\ q.visible = p.visible /\ q.original = p.original
  /\ p.draft.port # "0" => q.draft.port # "0"
  /\ ProxyKept(p.draft.proxy, q.draft.proxy)

LEMMA DraftsKept ==
  /\ \A p \in Popups : SameDraft(p, p) /\ DraftKept(p, p)
  /\ \A p \in Popups, q \in Popups : SameDraft(p, q) => DraftKept(p, q)
  /\ \A p \in Popups, q \in Popups, r \in Popups :
       /\ SameDraft(p, q) /\ DraftKept(q, r) => DraftKept(p, r)
       /\ DraftKept(p, q) /\ SameDraft(q, r) => DraftKept(p, r)
       /\ SameDraft(p, q) /\ SameDraft(q, r) => SameDraft(p, r)
<1>1. ASSUME NEW p \in Popups PROVE ProxyKept(p.draft.proxy, p.draft.proxy)
  BY PopupIs, DocumentIs, NothingDone
<1> QED
  BY <1>1 DEF SameDraft, DraftKept

\* The user is elsewhere, the draft is the same.
MovedTo(p, q, topic, row, mode) ==
  /\ q \in Popups /\ SameDraft(p, q) /\ q.topic = topic /\ q.row = row /\ q.mode = mode
  /\ \A t : Rules(q, t) = Rules(p, t)
  /\ Patterns(q) = Patterns(p)
  /\ topic = p.topic => RowsOf(q) = RowsOf(p)
  /\ topic = p.topic /\ row = p.row /\ RowFits(p) => RowFits(q)
  /\ RowsOf(q) = Widgets(topic, p.draft.proxy)

Onto(p, focus, topic, row, mode) ==
  [p EXCEPT !.focus = focus, !.topic = topic, !.row = row, !.mode = mode]

LEMMA MovedToIs ==
  ASSUME NEW p \in Popups, NEW focus \in {"topics", "content"}, NEW topic \in Topics,
         NEW row \in Indices, NEW mode \in Modes, NEW q,
         q = Onto(p, focus, topic, row, mode)
  PROVE  MovedTo(p, q, topic, row, mode)
<1>1. /\ q \in Popups /\ q.topic = topic /\ q.row = row /\ q.mode = mode
      /\ q.visible = p.visible /\ q.original = p.original /\ q.draft = p.draft
  BY DEF Popups, Onto
<1> QED
  BY <1>1 DEF MovedTo, SameDraft, Rules, Patterns, RowsOf, RowFits

LEMMA NewMode ==
  ASSUME NEW p \in Popups, NEW mode \in Modes, NEW q, q = [p EXCEPT !.mode = mode]
  PROVE  MovedTo(p, q, p.topic, p.row, mode)
<1>1. q = [p EXCEPT !.focus = p.focus, !.topic = p.topic, !.row = p.row, !.mode = mode]
  BY DEF Popups
<1>2. /\ q \in Popups /\ q.topic = p.topic /\ q.row = p.row /\ q.mode = mode
      /\ q.visible = p.visible /\ q.original = p.original /\ q.draft = p.draft
  BY DEF Popups
<1> QED
  BY <1>2 DEF MovedTo, SameDraft, Rules, Patterns, RowsOf, RowFits

\* A change of mode is sound when the mode fits what there is.
LEMMA MovedIsSound ==
  ASSUME NEW p \in Popups, NEW topic, NEW row, NEW mode, NEW q,
         MovedTo(p, q, topic, row, mode), row \in DOMAIN Widgets(topic, p.draft.proxy),
         ModeFits(p, topic, mode)
  PROVE  Sound(q)
<1>1. /\ \A t : Rules(q, t) = Rules(p, t)
      /\ Patterns(q) = Patterns(p) /\ q.draft.proxy = p.draft.proxy
  BY DEF MovedTo, SameDraft
<1>2. ModeFits(q, topic, mode)
  BY <1>1 DEF ModeFits
<1> QED
  BY <1>2 DEF MovedTo, Sound, RowFits

\* Another proxy in the draft.
ProxyChanged(p, q, qx) ==
  /\ q \in Popups /\ q.visible = p.visible /\ q.original = p.original
  /\ q.topic = p.topic /\ q.row = p.row /\ q.mode = p.mode /\ q.focus = p.focus
  /\ q.draft.proxy = qx /\ q.draft.port = p.draft.port /\ Patterns(q) = Patterns(p)
  /\ RowFits(p) => RowFits(q)
  /\ qx = p.draft.proxy => q = p

LEMMA NewProxy ==
  ASSUME NEW p \in Popups, NEW qx \in Proxies,
         Shown(p.draft.proxy) # << >> => Shown(qx) # << >>,
         NEW q, q = [p EXCEPT !.draft.proxy = qx]
  PROVE  ProxyChanged(p, q, qx)
<1> DEFINE d == [p.draft EXCEPT !.proxy = qx]
<1>1. p.draft \in Documents
  BY PopupIs
<1>2. /\ d \in Documents /\ d.proxy = qx /\ d.port = p.draft.port /\ d.prefilter = p.draft.prefilter
      /\ qx = p.draft.proxy => d = p.draft
  BY <1>1 DEF Documents
<1>3. q = [p EXCEPT !.draft = d]
  BY DEF Popups
<1> HIDE DEF d
<1>4. /\ q \in Popups /\ q.visible = p.visible /\ q.original = p.original /\ q.focus = p.focus
      /\ q.topic = p.topic /\ q.row = p.row /\ q.mode = p.mode /\ q.draft = d
      /\ d = p.draft => q = p
  BY <1>2, <1>3 DEF Popups
<1>5. DOMAIN RowsOf(p) \subseteq DOMAIN RowsOf(q)
  <2>1. RowsOf(p) = Widgets(p.topic, p.draft.proxy) /\ RowsOf(q) = Widgets(p.topic, qx)
    BY <1>2, <1>4 DEF RowsOf
  <2>2. p.topic \in Topics
    BY PopupIs
  <2> QED BY <2>1, <2>2, RowsAre
<1> QED
  BY <1>2, <1>4, <1>5 DEF ProxyChanged, Patterns, RowFits

\* What leads to a sound popup, with a draft that is as good or the same.
Kept(p, q) == Sound(q) /\ DraftKept(p, q)
Stays(p, q) == Sound(q) /\ SameDraft(p, q)

LEMMA ModeStays ==
  ASSUME NEW p \in Popups, RowFits(p), NEW mode \in Modes, ModeFits(p, p.topic, mode),
         NEW q, q = [p EXCEPT !.mode = mode]
  PROVE  Stays(p, q) /\ MovedTo(p, q, p.topic, p.row, mode)
<1>1. MovedTo(p, q, p.topic, p.row, mode)
  BY NewMode
<1>2. p.row \in DOMAIN Widgets(p.topic, p.draft.proxy)
  BY DEF RowFits, RowsOf
<1>3. Sound(q)
  BY <1>1, <1>2, MovedIsSound
<1> QED
  BY <1>1, <1>3 DEF Stays, MovedTo

LEMMA StaysIsKept ==
  ASSUME NEW p \in Popups, NEW q, Stays(p, q)
  PROVE  Kept(p, q)
<1>1. q \in Popups
  BY DEF Stays, Sound
<1> QED
  BY <1>1, DraftsKept DEF Stays, Kept

LEMMA KeptThenStays ==
  ASSUME NEW p \in Popups, NEW q \in Popups, NEW r, DraftKept(p, q), Stays(q, r)
  PROVE  Kept(p, r)
<1>1. r \in Popups
  BY DEF Stays, Sound
<1> QED
  BY <1>1, DraftsKept DEF Stays, Kept

LEMMA RulesAre ==
  ASSUME NEW p \in Popups, NEW table \in Tables
  PROVE  /\ Rules(p, table) \in Seq(RuleRecords) /\ Len(Rules(p, table)) \in Nat
         /\ DOMAIN Rules(p, table) = 1..Len(Rules(p, table))
         /\ \A i \in DOMAIN Rules(p, table) : i \in Indices /\ Rules(p, table)[i] \in RuleRecords
<1>1. p.draft.proxy \in Proxies
  BY PopupIs, DocumentIs
<1>2. Rules(p, table) \in Seq(RuleRecords)
  BY <1>1, ShownIs DEF Rules
<1> QED
  BY <1>2, LenProperties, ElementOfSeq DEF Indices

LEMMA PatternsAre ==
  ASSUME NEW p \in Popups
  PROVE  /\ Patterns(p) \in Seq([pattern : STRING, enable : BOOLEAN]) /\ Len(Patterns(p)) \in Nat
         /\ DOMAIN Patterns(p) = 1..Len(Patterns(p))
         /\ \A i \in DOMAIN Patterns(p) :
              i \in Indices /\ Patterns(p)[i] \in [pattern : STRING, enable : BOOLEAN]
<1> DEFINE S == [pattern : STRING, enable : BOOLEAN]
<1>1. Patterns(p) \in Seq(S)
  BY PopupIs, DocumentIs DEF Patterns
<1> HIDE DEF S
<1>2. /\ Len(Patterns(p)) \in Nat /\ DOMAIN Patterns(p) = 1..Len(Patterns(p))
      /\ \A i \in DOMAIN Patterns(p) : Patterns(p)[i] \in S
  BY <1>1, LenProperties, ElementOfSeq
<1>3. \A i \in 1..Len(Patterns(p)) : i \in Indices
  BY <1>2 DEF Indices
<1> QED
  BY <1>1, <1>2, <1>3 DEF S

\* The cursor goes to a rule, or to the first place of a table without one.
LEMMA SelectRuleIs ==
  ASSUME NEW p \in Popups, RowFits(p), NEW table \in Tables, NEW index \in Int,
         NEW q, q = SelectRule(p, table, index)
  PROVE  /\ Stays(p, q)
         /\ MovedTo(p, q, p.topic, p.row, RuleTable(table, Clamped(index, Len(Rules(p, table)))))
<1> DEFINE at == Clamped(index, Len(Rules(p, table)))
           mode == RuleTable(table, at)
<1>1. at \in Indices /\ ListFits(at, Rules(p, table))
  BY RulesAre, ClampedIs DEF ListFits
<1> HIDE DEF at
<1>2. mode \in Modes
  BY <1>1, ModeOf
<1>3. ModeFits(p, p.topic, mode)
  BY <1>1 DEF ModeFits, RuleTable
<1>4. q = [p EXCEPT !.mode = mode]
  BY DEF SelectRule, at
<1> HIDE DEF mode
<1> QED
  BY <1>2, <1>3, <1>4, ModeStays DEF mode, at

LEMMA StartRuleIs ==
  ASSUME NEW p, Sound(p), NEW table \in Tables, NEW index, NEW q, q = StartRule(p, table, index)
  PROVE  Stays(p, q) /\ (q = p \/ q.mode.kind = "rule")
<1>1. p \in Popups /\ RowFits(p)
  BY DEF Sound
<1>2. CASE index \notin DOMAIN Rules(p, table)
  BY <1>1, <1>2, DraftsKept DEF StartRule, EditRule, Stays
<1>3. CASE index \in DOMAIN Rules(p, table)
  <2> DEFINE rule == Rules(p, table)[index]
             mode == RuleEditor(table, index, rule.from, rule.to)
  <2>1. index \in Indices /\ rule \in RuleRecords
    BY <1>1, <1>3, RulesAre
  <2>2. mode \in Modes
    BY <2>1, ModeOf DEF RuleRecords
  <2>3. ModeFits(p, p.topic, mode) /\ mode.kind = "rule"
    BY <1>3 DEF ModeFits, RuleEditor
  <2>4. q = [p EXCEPT !.mode = mode]
    BY <1>3 DEF StartRule, EditRule
  <2> HIDE DEF mode
  <2>5. Stays(p, q) /\ q.mode = mode
    BY <1>1, <2>2, <2>3, <2>4, ModeStays DEF MovedTo
  <2> QED BY <2>3, <2>5
<1> QED
  BY <1>2, <1>3

\* The mutations the popup makes.
LEMMA PopupMutations ==
  ASSUME NEW n \in Names, NEW table \in Tables
  PROVE  /\ \A at \in Indices, rule \in RuleRecords :
              IsMutation([op |-> "insert_rule", preset |-> n, table |-> table,
                          index |-> <<at>>, rule |-> rule])
         /\ \A i \in Indices :
              IsMutation([op |-> "delete_rule", preset |-> n, table |-> table, index |-> i])
         /\ \A i \in Indices, j \in Indices :
              IsMutation([op |-> "move_rule", preset |-> n, table |-> table, from |-> i, to |-> j])
         /\ \A i \in Indices, on \in BOOLEAN :
              IsMutation([op |-> "enable_rule", preset |-> n, table |-> table, index |-> i,
                          enabled |-> on])
         /\ \A i \in Indices, from \in RuleTexts, to \in RuleTexts :
              IsMutation([op |-> "update_rule", preset |-> n, table |-> table, index |-> i,
                          from |-> from, to |-> to])
         /\ \A on \in BOOLEAN :
              IsMutation([op |-> "enable_table", preset |-> n, table |-> table, enabled |-> on])
<1> USE DEF IsMutation, MutationsOf, Ops, TableOps
<1>1. ASSUME NEW at \in Indices, NEW rule \in RuleRecords
      PROVE  IsMutation([op |-> "insert_rule", preset |-> n, table |-> table,
                         index |-> <<at>>, rule |-> rule])
  <2>1. <<at>> \in Options(Indices)
    BY OptionOf
  <2> QED BY <2>1
<1>2. ASSUME NEW i \in Indices
      PROVE  IsMutation([op |-> "delete_rule", preset |-> n, table |-> table, index |-> i])
  OBVIOUS
<1>3. ASSUME NEW i \in Indices, NEW j \in Indices
      PROVE  IsMutation([op |-> "move_rule", preset |-> n, table |-> table, from |-> i, to |-> j])
  OBVIOUS
<1>4. ASSUME NEW i \in Indices, NEW on \in BOOLEAN
      PROVE  IsMutation([op |-> "enable_rule", preset |-> n, table |-> table, index |-> i,
                         enabled |-> on])
  OBVIOUS
<1>5. ASSUME NEW i \in Indices, NEW from \in RuleTexts, NEW to \in RuleTexts
      PROVE  IsMutation([op |-> "update_rule", preset |-> n, table |-> table, index |-> i,
                         from |-> from, to |-> to])
  OBVIOUS
<1>6. ASSUME NEW on \in BOOLEAN
      PROVE  IsMutation([op |-> "enable_table", preset |-> n, table |-> table, enabled |-> on])
  OBVIOUS
<1> QED
  BY <1>1, <1>2, <1>3, <1>4, <1>5, <1>6

\* An edit of the preset on show.
Edited(p, q) ==
  /\ q \in Popups /\ q.topic = p.topic /\ q.row = p.row /\ q.mode = p.mode
  /\ RowFits(q) /\ DraftKept(p, q) /\ Patterns(q) = Patterns(p)

LEMMA EditIs ==
  ASSUME NEW p \in Popups, RowFits(p), NEW m, IsMutation(m),
         m.op \in TableOps \union {"enable", "rename"}, NEW q, q = Edit(p, m)
  PROVE  /\ Edited(p, q) /\ q.draft.proxy = MutateProxy(p.draft.proxy, m).proxy
         /\ m.op # "rename" => SameShown(p.draft.proxy, q.draft.proxy)
         /\ m.op = "rename" /\ ActiveIsTrimmed(p.draft.proxy)
              /\ SameShown(p.draft.proxy, q.draft.proxy) => q = p
<1> DEFINE px == p.draft.proxy
           qx == MutateProxy(px, m).proxy
<1>1. px \in Proxies
  BY PopupIs, DocumentIs
<1>2. /\ ProxyKept(px, qx)
      /\ m.op # "rename" => SameShown(px, qx)
      /\ m.op = "rename" /\ ActiveIsTrimmed(px) /\ SameShown(px, qx) => qx = px
  BY <1>1, EditKept
<1>3. q = [p EXCEPT !.draft.proxy = qx]
  BY DEF Edit
<1> HIDE DEF qx
<1>4. ProxyChanged(p, q, qx)
  BY <1>2, <1>3, NewProxy DEF ProxyKept
<1>5. DraftKept(p, q)
  BY <1>2, <1>4 DEF ProxyChanged, DraftKept
<1> QED
  BY <1>2, <1>4, <1>5 DEF Edited, ProxyChanged, qx

\* An edit of one table of it.
TableEdited(p, q, m) ==
  /\ Edited(p, q) /\ SameShown(p.draft.proxy, q.draft.proxy)
  /\ Rules(q, m.table) = Rules(p, m.table)
       \/ \E t \in TableRecords : Rules(p, m.table) = t.rules
                                    /\ Rules(q, m.table) = TableAfter(m, t).rules
  /\ \A n \in Tables \ {m.table} : Rules(q, n) = Rules(p, n)

LEMMA EditShownIs ==
  ASSUME NEW p \in Popups, RowFits(p), NEW m, m.op \in TableOps, m.preset = ShownName(p),
         Shown(p.draft.proxy) # << >> => IsMutation(m),
         NEW q, q = EditShown(p, m)
  PROVE  TableEdited(p, q, m)
<1> DEFINE px == p.draft.proxy
           qx == q.draft.proxy
<1>1. px \in Proxies
  BY PopupIs, DocumentIs
<1>2. CASE Shown(px) = << >>
  <2>1. q = p
    BY <1>2 DEF EditShown
  <2> QED BY <2>1, DraftsKept DEF TableEdited, Edited, SameShown
<1>3. CASE Shown(px) # << >>
  <2>1. q = Edit(p, m) /\ IsMutation(m)
    BY <1>3 DEF EditShown
  <2>2. /\ Edited(p, q) /\ qx = MutateProxy(px, m).proxy /\ SameShown(px, qx)
    <3>1. m.op # "rename"
      BY DEF TableOps
    <3> QED BY <2>1, <3>1, EditIs
  <2> DEFINE t == Shown(px)[1][m.table]
  <2>3. /\ t \in TableRecords /\ Shown(qx) # << >>
        /\ Shown(qx)[1][m.table].rules \in {t.rules, TableAfter(m, t).rules}
        /\ \A n \in Tables \ {m.table} : Shown(qx)[1][n].rules = Shown(px)[1][n].rules
    <3> HIDE DEF px, qx
    <3>1. m.preset = Shown(px)[1].name
      BY DEF ShownName, px
    <3> QED BY <1>1, <1>3, <2>1, <2>2, <3>1, EditedTable
  <2>4. \A n : Rules(p, n) = Shown(px)[1][n].rules /\ Rules(q, n) = Shown(qx)[1][n].rules
    BY <1>3, <2>3 DEF Rules, RulesIn
  <2> QED BY <2>2, <2>3, <2>4 DEF TableEdited
<1> QED
  BY <1>2, <1>3

(***************************************************************************)
(* The list and the cursor after an edit.                                  *)
(***************************************************************************)
LEMMA RemovedInserted ==
  ASSUME NEW S, NEW s \in Seq(S), NEW e \in S, NEW i \in 1..(Len(s) + 1),
         NEW u, u = InsertAt(s, i, e)
  PROVE  u \in Seq(S) /\ Len(u) = Len(s) + 1 /\ RemoveAt(u, i) = s
<1>0. Len(s) \in Nat
  BY LenProperties
<1>1. u \in Seq(S) /\ With(u, s, i, e)
  BY InsertedIs
<1>2. Len(u) = Len(s) + 1 /\ i \in DOMAIN u
  BY <1>0, <1>1, LenProperties DEF With
<1>3. RemoveAt(u, i) \in Seq(S) /\ Without(RemoveAt(u, i), u, i)
  BY <1>1, <1>2, RemovedIs
<1> DEFINE v == RemoveAt(u, i)
<1> HIDE DEF v
<1>4. /\ v \in Seq(S) /\ Len(v) = Len(s)
      /\ \A k \in 1..Len(s) : v[k] = IF k < i THEN u[k] ELSE u[k + 1]
  BY <1>0, <1>2, <1>3 DEF Without, v
<1>5. \A k \in 1..(Len(s) + 1) : u[k] = IF k < i THEN s[k] ELSE IF k = i THEN e ELSE s[k - 1]
  BY <1>1 DEF With
<1>6. ASSUME NEW k \in 1..Len(s) PROVE v[k] = s[k]
  <2>1. CASE k < i
    BY <1>0, <1>4, <1>5, <2>1
  <2>2. CASE ~(k < i)
    <3>1. k + 1 \in 1..(Len(s) + 1) /\ ~(k + 1 < i) /\ k + 1 # i /\ (k + 1) - 1 = k
      BY <1>0, <2>2
    <3> QED BY <1>4, <1>5, <2>2, <3>1
  <2> QED BY <2>1, <2>2
<1>7. v = s
  BY <1>4, <1>6, SeqEqual
<1> QED
  BY <1>1, <1>2, <1>7 DEF v

LEMMA RemovedMoved ==
  ASSUME NEW S, NEW s \in Seq(S), NEW from \in DOMAIN s, NEW to \in DOMAIN s, from # to,
         NEW u, u = Moved(s, from, to)
  PROVE  u \in Seq(S) /\ Len(u) = Len(s) /\ RemoveAt(u, to) = RemoveAt(s, from)
<1>1. /\ RemoveAt(s, from) \in Seq(S) /\ to \in 1..(Len(RemoveAt(s, from)) + 1) /\ s[from] \in S
      /\ u = InsertAt(RemoveAt(s, from), to, s[from])
      /\ u \in Seq(S) /\ Len(u) = Len(s)
  BY MovedIs
<1> DEFINE v == RemoveAt(s, from)
           e == s[from]
<1>2. v \in Seq(S) /\ to \in 1..(Len(v) + 1) /\ e \in S /\ u = InsertAt(v, to, e)
  BY <1>1
<1> HIDE DEF v, e
<1>3. RemoveAt(u, to) = v
  BY <1>2, RemovedInserted
<1> QED
  BY <1>1, <1>3 DEF v

LEMMA RemovedAlike ==
  ASSUME NEW S, NEW s \in Seq(S), NEW u \in Seq(S), NEW i \in DOMAIN s, ButFor(u, s, i)
  PROVE  RemoveAt(u, i) = RemoveAt(s, i)
<1>1. Len(s) \in Nat /\ DOMAIN s = 1..Len(s) /\ Len(u) = Len(s) /\ DOMAIN u = DOMAIN s
  BY LenProperties DEF ButFor
<1>2. /\ RemoveAt(s, i) \in Seq(S) /\ Without(RemoveAt(s, i), s, i)
      /\ RemoveAt(u, i) \in Seq(S) /\ Without(RemoveAt(u, i), u, i)
  BY <1>1, RemovedIs
<1> DEFINE v == RemoveAt(s, i)
           w == RemoveAt(u, i)
<1> HIDE DEF v, w
<1>3. /\ v \in Seq(S) /\ w \in Seq(S) /\ Len(v) = Len(s) - 1 /\ Len(w) = Len(v)
      /\ \A k \in 1..(Len(s) - 1) : /\ v[k] = IF k < i THEN s[k] ELSE s[k + 1]
                                    /\ w[k] = IF k < i THEN u[k] ELSE u[k + 1]
  BY <1>1, <1>2 DEF Without, v, w
<1>4. ASSUME NEW k \in 1..(Len(s) - 1) PROVE w[k] = v[k]
  <2>1. k < i => k \in DOMAIN s \ {i}
    BY <1>1
  <2>2. ~(k < i) => k + 1 \in DOMAIN s \ {i}
    BY <1>1
  <2> QED BY <1>3, <2>1, <2>2 DEF ButFor
<1>5. w = v
  BY <1>3, <1>4, SeqEqual
<1> QED
  BY <1>5 DEF v, w

\* The change is at the place the cursor was at, or goes to.
LEMMA ChangesAre ==
  ASSUME NEW S, NEW s \in Seq(S), NEW u \in Seq(S), NEW at, NEW to
  PROVE  /\ Len(u) = Len(s) + 1 /\ RemoveAt(u, to) = s => ChangedAt(s, u, at, to)
         /\ Len(u) = Len(s) /\ RemoveAt(s, at) = RemoveAt(u, to) => ChangedAt(s, u, at, to)
         /\ Len(u) = Len(s) /\ RemoveAt(s, to) = RemoveAt(u, to) => ChangedAt(s, u, at, to)
         /\ Len(u) = Len(s) - 1 /\ u = RemoveAt(s, at) => ChangedAt(s, u, at, to)
<1>1. Len(s) \in Nat /\ Len(u) \in Nat
  BY LenProperties
<1> QED
  BY <1>1 DEF ChangedAt

\* What a step in a table does.
RuleStep(p, q, table, index) ==
  /\ Kept(p, q) /\ SameShown(p.draft.proxy, q.draft.proxy) /\ Patterns(q) = Patterns(p)
  /\ q.topic = p.topic
  /\ q.mode.kind = "rules" /\ q.mode.table = table /\ Rules(q, table) # Rules(p, table)
       => ChangedAt(Rules(p, table), Rules(q, table), index, q.mode.index)

LEMMA StaysIsRuleStep ==
  ASSUME NEW p \in Popups, NEW q, Stays(p, q), q.topic = p.topic, NEW table, NEW index
  PROVE  RuleStep(p, q, table, index)
<1>1. /\ Rules(q, table) = Rules(p, table) /\ Patterns(q) = Patterns(p)
      /\ SameShown(p.draft.proxy, q.draft.proxy)
  BY DEF Stays, SameDraft, Rules, Patterns, SameShown
<1> QED
  BY <1>1, StaysIsKept DEF RuleStep

\* A table is edited and the cursor goes to a place of it.
LEMMA EditThenSelect ==
  ASSUME NEW p, Sound(p), NEW table \in Tables, NEW index \in Indices, NEW to \in Int,
         NEW m, m.table = table, NEW e, TableEdited(p, e, m),
         NEW q, q = SelectRule(e, table, to),
         Rules(e, table) # Rules(p, table) =>
           ChangedAt(Rules(p, table), Rules(e, table), index, Clamped(to, Len(Rules(e, table))))
  PROVE  RuleStep(p, q, table, index) /\ q.mode.kind = "rules"
<1>1. /\ e \in Popups /\ RowFits(e) /\ DraftKept(p, e) /\ Patterns(e) = Patterns(p)
      /\ e.topic = p.topic /\ SameShown(p.draft.proxy, e.draft.proxy)
  BY DEF TableEdited, Edited
<1> DEFINE at == Clamped(to, Len(Rules(e, table)))
<1>2. Stays(e, q) /\ MovedTo(e, q, e.topic, e.row, RuleTable(table, at))
  BY <1>1, SelectRuleIs
<1>3. Kept(p, q)
  BY <1>1, <1>2, KeptThenStays DEF Sound
<1>4. /\ Rules(q, table) = Rules(e, table) /\ Patterns(q) = Patterns(e) /\ q.topic = e.topic
      /\ q.draft = e.draft /\ q.mode = RuleTable(table, at)
  BY <1>2 DEF MovedTo, SameDraft
<1> HIDE DEF at
<1>5. q.mode.kind = "rules" /\ q.mode.index = at
  BY <1>4 DEF RuleTable
<1> QED
  BY <1>1, <1>3, <1>4, <1>5 DEF RuleStep, at

LEMMA NameShown ==
  ASSUME NEW p \in Popups, Shown(p.draft.proxy) # << >>
  PROVE  ShownName(p) \in Names
BY PopupIs, DocumentIs, ShownIs DEF ShownName

LEMMA AddRuleIs ==
  ASSUME NEW p, Sound(p), NEW table \in Tables, NEW at \in Indices, NEW e, e = AddRuleAt(p, table, at)
  PROVE  /\ TableEdited(p, e, [op |-> "insert_rule", preset |-> ShownName(p), table |-> table,
                               index |-> <<at>>, rule |-> AddedRule[table]])
         /\ Rules(e, table) = Rules(p, table)
              \/ /\ at \in 1..(Len(Rules(p, table)) + 1)
                 /\ Rules(e, table) = InsertAt(Rules(p, table), at, AddedRule[table])
<1> DEFINE m == [op |-> "insert_rule", preset |-> ShownName(p), table |-> table,
                 index |-> <<at>>, rule |-> AddedRule[table]]
<1>1. p \in Popups /\ RowFits(p) /\ AddedRule[table] \in RuleRecords
  BY EditorAssumption DEF Sound
<1>2. /\ m.op = "insert_rule" /\ m.op \in TableOps /\ m.preset = ShownName(p) /\ m.table = table
      /\ m.index = <<at>> /\ m.rule = AddedRule[table]
  BY DEF TableOps
<1>3. Shown(p.draft.proxy) # << >> => IsMutation(m)
  BY <1>1, NameShown, PopupMutations
<1>4. e = EditShown(p, m)
  BY DEF AddRuleAt
<1> HIDE DEF m
<1>5. TableEdited(p, e, m)
  BY <1>1, <1>2, <1>3, <1>4, EditShownIs
<1>6. ASSUME NEW t \in TableRecords, t.rules = Rules(p, table), IsMutation(m)
      PROVE  \/ TableAfter(m, t).rules = t.rules
             \/ /\ at \in 1..(Len(t.rules) + 1)
                /\ TableAfter(m, t).rules = InsertAt(t.rules, at, AddedRule[table])
  <2>1. Place(m, t.rules) = at
    <3>1. <<at>> # << >> /\ <<at>>[1] = at
      OBVIOUS
    <3> QED BY <1>2, <3>1 DEF Place
  <2>2. \/ TableAfter(m, t) = t
        \/ /\ Place(m, t.rules) \in 1..(Len(t.rules) + 1)
           /\ TableAfter(m, t).rules = InsertAt(t.rules, Place(m, t.rules), m.rule)
    BY <1>2, <1>6, InsertAfter
  <2> QED BY <1>2, <2>1, <2>2
<1>7. Rules(e, table) = Rules(p, table)
        \/ /\ at \in 1..(Len(Rules(p, table)) + 1)
           /\ Rules(e, table) = InsertAt(Rules(p, table), at, AddedRule[table])
  <2>1. CASE Shown(p.draft.proxy) = << >>
    <3>1. e = p
      BY <1>4, <2>1 DEF EditShown
    <3> QED BY <3>1
  <2>2. CASE Shown(p.draft.proxy) # << >>
    BY <1>2, <1>3, <1>5, <1>6, <2>2 DEF TableEdited
  <2> QED BY <2>1, <2>2
<1> QED
  BY <1>5, <1>7 DEF m

LEMMA AddRuleStep ==
  ASSUME NEW p, Sound(p), NEW table \in Tables, NEW index \in Indices,
         NEW q, q = AddRule(p, table, index)
  PROVE  RuleStep(p, q, table, index)
<1> DEFINE s == Rules(p, table)
           at == Below(index, Len(s))
           e == AddRuleAt(p, table, at)
           m == [op |-> "insert_rule", preset |-> ShownName(p), table |-> table,
                 index |-> <<at>>, rule |-> AddedRule[table]]
<1>1. p \in Popups /\ s \in Seq(RuleRecords) /\ Len(s) \in Nat /\ AddedRule[table] \in RuleRecords
  BY RulesAre, EditorAssumption DEF Sound
<1>2. at \in Indices
  <2> DEFINE n == Len(s)
  <2>1. index \in Int /\ index >= 1 /\ n \in Nat
    BY <1>1 DEF Indices
  <2> HIDE DEF s, n
  <2>2. Min({index + 1, n + 1}) = IF index + 1 <= n + 1 THEN index + 1 ELSE n + 1
    BY <2>1, MaxMin
  <2> QED BY <2>1, <2>2 DEF Below, Indices, n
<1> HIDE DEF at
<1>3. /\ TableEdited(p, e, m) /\ m.table = table
      /\ \/ Rules(e, table) = s
         \/ at \in 1..(Len(s) + 1) /\ Rules(e, table) = InsertAt(s, at, AddedRule[table])
  <2>1. e = AddRuleAt(p, table, at) /\ s = Rules(p, table)
    OBVIOUS
  <2> HIDE DEF e, s, m
  <2>2. /\ TableEdited(p, e, [op |-> "insert_rule", preset |-> ShownName(p), table |-> table,
                              index |-> <<at>>, rule |-> AddedRule[table]])
        /\ Rules(e, table) = Rules(p, table)
             \/ /\ at \in 1..(Len(Rules(p, table)) + 1)
                /\ Rules(e, table) = InsertAt(Rules(p, table), at, AddedRule[table])
    BY <1>2, <2>1, AddRuleIs
  <2>3. m.table = table
    BY DEF m
  <2>4. TableEdited(p, e, m)
    BY <2>2 DEF m
  <2>5. \/ Rules(e, table) = s
        \/ at \in 1..(Len(s) + 1) /\ Rules(e, table) = InsertAt(s, at, AddedRule[table])
    BY <2>2 DEF s
  <2> QED BY <2>3, <2>4, <2>5
<1>4. q = SelectRule(e, table, at)
  BY DEF AddRule, AddRuleBelow, at
<1> HIDE DEF e, m
<1>5. e \in Popups
  BY <1>3 DEF TableEdited, Edited
<1>6. ASSUME Rules(e, table) # s
      PROVE  ChangedAt(s, Rules(e, table), index, Clamped(at, Len(Rules(e, table))))
  <2>1. /\ Rules(e, table) \in Seq(RuleRecords) /\ Len(Rules(e, table)) = Len(s) + 1
        /\ RemoveAt(Rules(e, table), at) = s
    BY <1>1, <1>3, <1>6, RemovedInserted
  <2>2. Clamped(at, Len(Rules(e, table))) = at
    <3>1. at \in Int /\ Len(Rules(e, table)) \in Nat /\ at \in 1..Len(Rules(e, table))
      BY <1>1, <1>3, <1>6, <2>1
    <3> QED BY <3>1, ClampedIs
  <2> QED BY <1>1, <2>1, <2>2, ChangesAre
<1> QED
  BY <1>2, <1>3, <1>4, <1>6, EditThenSelect DEF Indices

LEMMA RemoveRuleStep ==
  ASSUME NEW p, Sound(p), NEW table \in Tables, NEW index \in Indices,
         NEW q, q = RemoveRule(p, table, index)
  PROVE  RuleStep(p, q, table, index)
<1> DEFINE s == Rules(p, table)
           m == [op |-> "delete_rule", preset |-> ShownName(p), table |-> table, index |-> index]
           e == EditShown(p, m)
<1>1. p \in Popups /\ RowFits(p) /\ s \in Seq(RuleRecords) /\ Len(s) \in Nat
  BY RulesAre DEF Sound
<1>2. CASE index \notin DOMAIN s
  <2>1. q = SelectRule(p, table, index)
    BY <1>2 DEF RemoveRule
  <2>2. Stays(p, q) /\ q.topic = p.topic
    BY <1>1, <2>1, SelectRuleIs DEF Indices, MovedTo
  <2> QED BY <1>1, <2>2, StaysIsRuleStep
<1>3. CASE index \in DOMAIN s
  <2>1. q = SelectRule(e, table, index)
    BY <1>3 DEF RemoveRule
  <2>2. /\ m.op = "delete_rule" /\ m.op \in TableOps /\ m.preset = ShownName(p)
        /\ m.table = table /\ m.index = index
    BY DEF TableOps
  <2>3. Shown(p.draft.proxy) # << >> => IsMutation(m)
    BY <1>1, NameShown, PopupMutations
  <2>e. e = EditShown(p, m)
    OBVIOUS
  <2> HIDE DEF m, e
  <2>4. TableEdited(p, e, m)
    BY <1>1, <2>2, <2>3, <2>e, EditShownIs
  <2>5. e \in Popups
    BY <2>4 DEF TableEdited, Edited
  <2>6. ASSUME Rules(e, table) # s
        PROVE  ChangedAt(s, Rules(e, table), index, Clamped(index, Len(Rules(e, table))))
    <3>1. Shown(p.draft.proxy) # << >>
      BY <2>6, <2>e DEF EditShown
    <3>2. PICK t \in TableRecords : s = t.rules /\ Rules(e, table) = TableAfter(m, t).rules
      BY <2>2, <2>4, <2>6 DEF TableEdited
    <3>3. Rules(e, table) = RemoveAt(s, index)
      BY <2>2, <2>3, <2>6, <3>1, <3>2, DeleteAfter
    <3>4. Rules(e, table) \in Seq(RuleRecords) /\ Len(Rules(e, table)) = Len(s) - 1
      BY <1>1, <1>3, <3>3, RemovedIs DEF Without
    <3> QED BY <1>1, <3>3, <3>4, ChangesAre
  <2> QED BY <2>1, <2>2, <2>4, <2>6, EditThenSelect DEF Indices
<1> QED
  BY <1>2, <1>3

LEMMA ShiftRuleStep ==
  ASSUME NEW p, Sound(p), NEW table \in Tables, NEW index \in Indices, NEW to \in Int,
         NEW q, q = ShiftRule(p, table, index, to)
  PROVE  RuleStep(p, q, table, index)
<1> DEFINE s == Rules(p, table)
           m == [op |-> "move_rule", preset |-> ShownName(p), table |-> table,
                 from |-> index, to |-> to]
           e == EditShown(p, m)
<1>1. p \in Popups /\ RowFits(p) /\ s \in Seq(RuleRecords) /\ Len(s) \in Nat
      /\ \A i \in DOMAIN s : i \in Indices
  BY RulesAre DEF Sound
<1>2. CASE ~({index, to} \subseteq DOMAIN s)
  <2>1. q = SelectRule(p, table, to)
    BY <1>2 DEF ShiftRule, MoveShown
  <2>2. Stays(p, q) /\ q.topic = p.topic
    BY <1>1, <2>1, SelectRuleIs DEF MovedTo
  <2> QED BY <1>1, <2>2, StaysIsRuleStep
<1>3. CASE {index, to} \subseteq DOMAIN s
  <2>1. q = SelectRule(e, table, to)
    BY <1>3 DEF ShiftRule, MoveShown
  <2>2. /\ m.op = "move_rule" /\ m.op \in TableOps /\ m.preset = ShownName(p)
        /\ m.table = table /\ m.from = index /\ m.to = to
    BY DEF TableOps
  <2>3. Shown(p.draft.proxy) # << >> => IsMutation(m)
    BY <1>1, <1>3, NameShown, PopupMutations
  <2>e. e = EditShown(p, m)
    OBVIOUS
  <2> HIDE DEF m, e
  <2>4. TableEdited(p, e, m)
    BY <1>1, <2>2, <2>3, <2>e, EditShownIs
  <2>5. e \in Popups
    BY <2>4 DEF TableEdited, Edited
  <2>6. ASSUME Rules(e, table) # s
        PROVE  ChangedAt(s, Rules(e, table), index, Clamped(to, Len(Rules(e, table))))
    <3>1. Shown(p.draft.proxy) # << >>
      BY <2>6, <2>e DEF EditShown
    <3>2. PICK t \in TableRecords : s = t.rules /\ Rules(e, table) = TableAfter(m, t).rules
      BY <2>2, <2>4, <2>6 DEF TableEdited
    <3>3. index # to /\ Rules(e, table) = Moved(s, index, to)
      BY <2>2, <2>3, <2>6, <3>1, <3>2, MoveAfter
    <3>4. /\ Rules(e, table) \in Seq(RuleRecords) /\ Len(Rules(e, table)) = Len(s)
          /\ RemoveAt(Rules(e, table), to) = RemoveAt(s, index)
      BY <1>1, <1>3, <3>3, RemovedMoved
    <3>5. Clamped(to, Len(Rules(e, table))) = to
      <4>1. to \in 1..Len(Rules(e, table)) /\ Len(Rules(e, table)) \in Nat
        BY <1>1, <1>3, <3>4, LenProperties
      <4> QED BY <4>1, ClampedIs
    <3> QED BY <1>1, <3>4, <3>5, ChangesAre
  <2> QED BY <2>1, <2>2, <2>4, <2>6, EditThenSelect
<1> QED
  BY <1>2, <1>3

\* The cursor stays on the rule that is switched on or off.
LEMMA ToggleRuleStep ==
  ASSUME NEW p, Sound(p), NEW table \in Tables, NEW index, p.mode = RuleTable(table, index),
         NEW at, NEW q, q = ToggleRule(p, table, index)
  PROVE  RuleStep(p, q, table, at)
<1> DEFINE s == Rules(p, table)
           on == ~s[index].enable
           m == [op |-> "enable_rule", preset |-> ShownName(p), table |-> table,
                 index |-> index, enabled |-> on]
<1>1. /\ p \in Popups /\ RowFits(p) /\ s \in Seq(RuleRecords) /\ Len(s) \in Nat
      /\ DOMAIN s = 1..Len(s)
      /\ \A i \in DOMAIN s : i \in Indices /\ s[i] \in RuleRecords
  BY RulesAre DEF Sound
<1>2. CASE index \notin DOMAIN s
  <2>1. q = p
    BY <1>2 DEF ToggleRule
  <2>2. Stays(p, q) /\ q.topic = p.topic
    BY <1>1, <2>1, DraftsKept DEF Stays
  <2> QED BY <1>1, <2>2, StaysIsRuleStep
<1>3. CASE index \in DOMAIN s
  <2>1. q = EditShown(p, m)
    BY <1>3 DEF ToggleRule
  <2>2. /\ m.op = "enable_rule" /\ m.op \in TableOps /\ m.preset = ShownName(p)
        /\ m.table = table /\ m.index = index
    BY DEF TableOps
  <2>3. Shown(p.draft.proxy) # << >> => IsMutation(m)
    <3>1. on \in BOOLEAN /\ index \in Indices
      BY <1>1, <1>3 DEF RuleRecords
    <3> HIDE DEF on
    <3> QED BY <1>1, <3>1, NameShown, PopupMutations
  <2> HIDE DEF m
  <2>4. TableEdited(p, q, m)
    BY <1>1, <2>1, <2>2, <2>3, EditShownIs
  <2>5. q \in Popups /\ RowFits(q) /\ q.mode = p.mode /\ q.topic = p.topic
    BY <2>4 DEF TableEdited, Edited
  <2>6. Rules(q, table) = s \/ ButFor(Rules(q, table), s, index)
    <3> SUFFICES ASSUME Rules(q, table) # s PROVE ButFor(Rules(q, table), s, index)
      OBVIOUS
    <3>1. Shown(p.draft.proxy) # << >>
      BY <2>1 DEF EditShown
    <3>2. PICK t \in TableRecords : s = t.rules /\ Rules(q, table) = TableAfter(m, t).rules
      BY <2>2, <2>4 DEF TableEdited
    <3> QED BY <2>2, <2>3, <3>1, <3>2, ToggleAfter
  <2>7. Rules(q, table) \in Seq(RuleRecords)
    BY <2>5, RulesAre
  <2>8. DOMAIN Rules(q, table) = DOMAIN s /\ Len(Rules(q, table)) = Len(s)
    BY <1>1, <2>6, <2>7, LenProperties DEF ButFor
  <2>9. ModeFits(q, q.topic, q.mode)
    <3>1. index \in DOMAIN Rules(q, table)
      BY <1>3, <2>8
    <3> QED BY <2>5, <3>1 DEF ModeFits, RuleTable, ListFits
  <2>10. Kept(p, q)
    BY <2>4, <2>5, <2>9 DEF Kept, Sound, TableEdited, Edited
  <2>11. q.mode.index = index
    BY <2>5 DEF RuleTable
  <2>12. ASSUME Rules(q, table) # s PROVE ChangedAt(s, Rules(q, table), at, index)
    <3>1. RemoveAt(Rules(q, table), index) = RemoveAt(s, index)
      BY <1>1, <1>3, <2>6, <2>7, <2>12, RemovedAlike
    <3> QED BY <1>1, <2>7, <2>8, <3>1, ChangesAre
  <2> QED BY <2>4, <2>10, <2>11, <2>12 DEF RuleStep, TableEdited, Edited
<1> QED
  BY <1>2, <1>3

\* Enter in the editor of a rule.
LEMMA ApplyRuleStep ==
  ASSUME NEW p, Sound(p), p.mode.kind = "rule", NEW q, q = ApplyRule(p)
  PROVE  RuleStep(p, q, p.mode.table, p.mode.index)
<1> DEFINE table == p.mode.table
           index == p.mode.index
           s == Rules(p, table)
           m == [op |-> "update_rule", preset |-> ShownName(p), table |-> table,
                 index |-> index, from |-> p.mode.from, to |-> p.mode.to]
           e == EditShown(p, m)
<1>1. /\ p \in Popups /\ RowFits(p) /\ table \in Tables /\ index \in Indices
      /\ p.mode.from \in RuleTexts /\ p.mode.to \in RuleTexts /\ index \in DOMAIN s
  BY PopupIs, ModeIs DEF Sound, ModeFits
<1>2. s \in Seq(RuleRecords) /\ Len(s) \in Nat /\ DOMAIN s = 1..Len(s)
  BY <1>1, RulesAre
<1>3. q = SelectRule(e, table, index)
  BY DEF ApplyRule
<1>4. /\ m.op = "update_rule" /\ m.op \in TableOps /\ m.preset = ShownName(p)
      /\ m.table = table /\ m.index = index
  BY DEF TableOps
<1>5. Shown(p.draft.proxy) # << >> => IsMutation(m)
  BY <1>1, NameShown, PopupMutations
<1>e. e = EditShown(p, m)
  OBVIOUS
<1> HIDE DEF m, e
<1>6. TableEdited(p, e, m)
  BY <1>1, <1>4, <1>5, <1>e, EditShownIs
<1>7. e \in Popups
  BY <1>6 DEF TableEdited, Edited
<1> HIDE DEF table, index
<1>8. ASSUME Rules(e, table) # s
      PROVE  ChangedAt(s, Rules(e, table), index, Clamped(index, Len(Rules(e, table))))
  <2>1. Shown(p.draft.proxy) # << >>
    BY <1>8, <1>e DEF EditShown
  <2>2. PICK t \in TableRecords : s = t.rules /\ Rules(e, table) = TableAfter(m, t).rules
    BY <1>4, <1>6, <1>8 DEF TableEdited
  <2>3. ButFor(Rules(e, table), s, index)
    BY <1>4, <1>5, <1>8, <2>1, <2>2, UpdateAfter
  <2>4. Rules(e, table) \in Seq(RuleRecords)
    BY <1>1, <1>7, RulesAre
  <2>5. Len(Rules(e, table)) = Len(s)
    BY <1>2, <2>3, <2>4, LenProperties DEF ButFor
  <2>6. RemoveAt(Rules(e, table), index) = RemoveAt(s, index)
    BY <1>1, <1>2, <2>3, <2>4, RemovedAlike
  <2>7. Clamped(index, Len(Rules(e, table))) = index
    <3>1. index \in Int /\ Len(Rules(e, table)) \in Nat /\ index \in 1..Len(Rules(e, table))
      BY <1>1, <1>2, <2>5 DEF Indices
    <3> QED BY <3>1, ClampedIs
  <2> QED BY <1>2, <2>4, <2>5, <2>6, <2>7, ChangesAre
<1> QED
  BY <1>1, <1>3, <1>4, <1>6, <1>8, EditThenSelect DEF Indices, table, index

(***************************************************************************)
(* The select.                                                             *)
(***************************************************************************)
ItemRecords == [id : Int, label : STRING \union {NoText}, role : {"value", "action"}]

LEMMA ItemsAre ==
  ASSUME NEW px \in Proxies, NEW items, items = Items(px)
  PROVE  /\ items \in Seq(ItemRecords) /\ Len(items) \in Indices /\ DOMAIN items = 1..Len(items)
         /\ items[Len(items)].role = "action"
         /\ \A i \in DOMAIN items : \/ items[i].id \in {0, -1}
                                    \/ px # << >> /\ items[i].id \in DOMAIN px[1].presets
<1> DEFINE last == [id |-> -1, label |-> NoText, role |-> "action"]
           s == IF Virtual(px) THEN PresetItems(<<DefaultPreset>>, TRUE)
                ELSE PresetItems(px[1].presets, FALSE)
<1>1. /\ s \in Seq(ItemRecords)
      /\ \A i \in DOMAIN s : s[i].id = 0 \/ (px # << >> /\ s[i].id \in DOMAIN px[1].presets)
  <2>1. CASE Virtual(px)
    <3>1. DefaultPreset.name.text \in STRING /\ DOMAIN <<DefaultPreset>> = 1..1
          /\ <<DefaultPreset>>[1] = DefaultPreset
      BY DefaultIs DEF PresetRecords, Names
    <3> DEFINE one == [id |-> 0, label |-> DefaultPreset.name.text, role |-> "value"]
    <3>2. s = [i \in 1..1 |-> one]
      BY <2>1, <3>1 DEF PresetItems
    <3>3. one \in ItemRecords /\ one.id = 0
      BY <3>1 DEF ItemRecords
    <3> HIDE DEF one, s
    <3>4. s \in [1..1 -> ItemRecords] /\ 1 \in Nat
      BY <3>2, <3>3
    <3>5. s \in Seq(ItemRecords)
      BY <3>4, SeqDef
    <3> QED BY <3>2, <3>3, <3>5
  <2>2. CASE ~Virtual(px)
    <3>1. px # << >>
      BY <2>2 DEF Virtual
    <3> DEFINE presets == px[1].presets
    <3>2. /\ Len(presets) \in Nat /\ DOMAIN presets = 1..Len(presets)
          /\ \A i \in DOMAIN presets : presets[i].name.text \in STRING
      <4>1. presets \in Seq(PresetRecords)
        BY <3>1, ProxyIs
      <4> HIDE DEF presets
      <4>2. Len(presets) \in Nat /\ DOMAIN presets = 1..Len(presets)
        BY <4>1, LenProperties
      <4>3. \A i \in DOMAIN presets : presets[i] \in PresetRecords
        BY <4>1, <4>2, ElementOfSeq
      <4> QED BY <4>2, <4>3 DEF PresetRecords, Names
    <3>3. s = [i \in DOMAIN presets |-> [id |-> i, label |-> presets[i].name.text, role |-> "value"]]
      BY <2>2 DEF PresetItems
    <3> HIDE DEF presets, s
    <3>4. \A i \in DOMAIN presets : s[i] \in ItemRecords /\ s[i].id = i
      BY <3>2, <3>3 DEF ItemRecords
    <3>5. s \in [1..Len(presets) -> ItemRecords]
      BY <3>2, <3>3, <3>4
    <3>6. s \in Seq(ItemRecords)
      BY <3>2, <3>5, SeqDef
    <3> QED BY <3>1, <3>2, <3>4, <3>5, <3>6 DEF presets
  <2> QED BY <2>1, <2>2
<1>2. last \in ItemRecords /\ last.role = "action" /\ last.id = -1
  BY DEF ItemRecords
<1>3. items = Append(s, last)
  BY DEF Items
<1> HIDE DEF s, last
<1>4. /\ items \in Seq(ItemRecords) /\ Len(items) = Len(s) + 1 /\ items[Len(s) + 1] = last
      /\ \A i \in 1..Len(s) : items[i] = s[i]
  BY <1>1, <1>2, <1>3, AppendProperties
<1>5. Len(s) \in Nat /\ DOMAIN s = 1..Len(s) /\ DOMAIN items = 1..Len(items)
  BY <1>1, <1>4, LenProperties
<1> QED
  BY <1>1, <1>2, <1>4, <1>5 DEF Indices

\* The action is left by every filter.
LEMMA CountIs ==
  ASSUME NEW px \in Proxies, NEW items, items = Items(px), NEW filter
  PROVE  Count(items, filter) \in Nat /\ Count(items, filter) >= 1
<1> DEFINE n == Len(items)
           shown == Resolved(items, filter)
<1>1. n \in Nat /\ n \in DOMAIN items /\ DOMAIN items = 1..n /\ items[n].role = "action"
  BY ItemsAre DEF Indices
<1>2. n \in shown /\ shown \subseteq 1..n
  BY <1>1 DEF Resolved
<1> HIDE DEF shown, n
<1>3. IsFiniteSet(1..n) /\ Cardinality(1..n) \in Nat
  BY <1>1, FS_Interval, FS_CardinalityType
<1>4. IsFiniteSet(shown) /\ Cardinality(shown) \in Nat
  BY <1>2, <1>3, FS_Subset, FS_CardinalityType
<1>5. Cardinality(shown) # 0
  BY <1>2, <1>4, FS_EmptySet
<1> QED
  BY <1>4, <1>5 DEF Count, shown

\* The focus stays on an item, and in the window.
BoxFits(box, items) == box \in Boxes /\ InWindow(box, items)

LEMMA MoveFocusIs ==
  ASSUME NEW px \in Proxies, NEW items, items = Items(px), NEW box \in Boxes, NEW to \in Nat,
         NEW next, next = MoveFocus(box, items, to)
  PROVE  BoxFits(next, items)
<1> DEFINE count == Count(items, box.filter)
           f == Min({to, count - 1})
           o == Min({box.offset, count - 1})
<1>1. count \in Nat /\ count >= 1 /\ box.offset \in Nat /\ box.filter \in Filters
  BY CountIs DEF Boxes
<1>2. /\ f = IF to <= count - 1 THEN to ELSE count - 1
      /\ o = IF box.offset <= count - 1 THEN box.offset ELSE count - 1
  <2> HIDE DEF count
  <2>1. to \in Int /\ box.offset \in Int /\ count - 1 \in Int
    BY <1>1
  <2> QED BY <2>1, MaxMin
<1>3. f \in Nat /\ o \in Nat /\ f < count
  <2> HIDE DEF count, f, o
  <2> QED BY <1>1, <1>2
<1> DEFINE b == [box EXCEPT !.focus = f, !.offset = o]
<1>4. ClampFocus([box EXCEPT !.focus = to], items) = b
  <2>1. [box EXCEPT !.focus = to].filter = box.filter /\ [box EXCEPT !.focus = to].focus = to
        /\ [box EXCEPT !.focus = to].offset = box.offset
    BY DEF Boxes
  <2>2. count # 0
    BY <1>1
  <2> QED BY <2>1, <2>2 DEF ClampFocus, Boxes
<1>5. b.focus = f /\ b.offset = o /\ b.filter = box.filter /\ b \in Boxes
  <2> HIDE DEF f, o
  <2> QED BY <1>3 DEF Boxes
<1>6. next = EnsureFocusVisible(b)
  BY <1>4 DEF MoveFocus
<1> HIDE DEF count, f, o, b
<1> DEFINE v == IF f < o THEN f ELSE IF f >= o + MaxVisible THEN f + 1 - MaxVisible ELSE o
<1>7. v \in Nat /\ f \in v..(v + MaxVisible - 1)
  BY <1>3, EditorAssumption
<1>8. next = [b EXCEPT !.offset = v]
  BY <1>5, <1>6 DEF EnsureFocusVisible
<1> HIDE DEF v
<1>9. next \in Boxes /\ next.focus = f /\ next.offset = v /\ next.filter = box.filter
  BY <1>5, <1>7, <1>8 DEF Boxes
<1> QED
  BY <1>3, <1>7, <1>9 DEF BoxFits, InWindow, count

LEMMA OpenBoxIs ==
  ASSUME NEW px \in Proxies, NEW items, items = Items(px), NEW selected \in Nat
  PROVE  BoxFits(OpenBox(items, selected), items)
<1> DEFINE first == Max({selected - 1, 0})
           box == [filter |-> NoText, focus |-> first, offset |-> 0]
<1>1. first \in Nat
  BY MaxMin
<1> HIDE DEF first
<1>2. box \in Boxes /\ box = [box EXCEPT !.focus = first]
  BY <1>1 DEF Boxes, Filters
<1>3. OpenBox(items, selected) = EnsureFocusVisible(ClampFocus([box EXCEPT !.focus = first], items))
  BY <1>2 DEF OpenBox, first
<1> HIDE DEF box
<1> QED
  BY <1>1, <1>2, <1>3, MoveFocusIs DEF MoveFocus

LEMMA ScrollUpIs ==
  ASSUME NEW px \in Proxies, NEW items, items = Items(px), NEW box, BoxFits(box, items),
         NEW next, next = ScrollUp(box, items)
  PROVE  BoxFits(next, items)
<1> DEFINE count == Count(items, box.filter)
           o == Max({box.offset - 1, 0})
           f == Min({box.focus, o + MaxVisible - 1})
           b == [box EXCEPT !.offset = o, !.focus = f]
<1>1. /\ count \in Nat /\ count >= 1 /\ MaxVisible \in Nat /\ MaxVisible >= 1
      /\ box \in Boxes /\ box.offset \in Nat /\ box.focus \in Nat
  BY CountIs, EditorAssumption DEF Boxes, BoxFits
<1>2. box.focus < count /\ box.focus \in box.offset..(box.offset + MaxVisible - 1)
  <2> HIDE DEF count
  <2>1. count # 0
    BY <1>1
  <2> QED BY <2>1 DEF BoxFits, InWindow, count
<1>3. o = IF box.offset - 1 >= 0 THEN box.offset - 1 ELSE 0
  BY <1>1, MaxMin
<1>4. o \in Nat /\ o <= box.offset
  <2> HIDE DEF o
  <2> QED BY <1>1, <1>3
<1>5. f = IF box.focus <= o + MaxVisible - 1 THEN box.focus ELSE o + MaxVisible - 1
  <2> DEFINE end == o + MaxVisible - 1
  <2> HIDE DEF o
  <2>1. end \in Int /\ box.focus \in Int /\ f = Min({box.focus, end})
    BY <1>1, <1>4
  <2> HIDE DEF end, f
  <2>2. f = IF box.focus <= end THEN box.focus ELSE end
    BY <2>1, MaxMin
  <2> QED BY <2>2 DEF end
<1>6. f \in Nat /\ f < count /\ f \in o..(o + MaxVisible - 1) /\ o < count
  <2> HIDE DEF o, f, count
  <2> QED BY <1>1, <1>2, <1>4, <1>5
<1> HIDE DEF o, f
<1>7. b.focus = f /\ b.offset = o /\ b.filter = box.filter /\ b \in Boxes
      /\ b = [box EXCEPT !.offset = o, !.focus = f]
  BY <1>1, <1>4, <1>6 DEF Boxes
<1>8. next = ClampFocus(b, items)
  BY DEF ScrollUp, o, f
<1>9. Min({f, count - 1}) = f /\ Min({o, count - 1}) = o
  <2> HIDE DEF count
  <2>1. f \in Int /\ o \in Int /\ count - 1 \in Int /\ f <= count - 1 /\ o <= count - 1
    BY <1>1, <1>4, <1>6
  <2> QED BY <2>1, MaxMin
<1> HIDE DEF b
<1>10. next = b
  <2>1. count # 0 /\ Count(items, b.filter) = count
    BY <1>1, <1>7
  <2> HIDE DEF count
  <2>2. next = [b EXCEPT !.focus = Min({@, count - 1}), !.offset = Min({@, count - 1})]
    BY <1>8, <2>1 DEF ClampFocus
  <2> QED BY <1>7, <1>9, <2>2 DEF Boxes
<1> QED
  BY <1>6, <1>7, <1>10 DEF BoxFits, InWindow

LEMMA ScrollDownIs ==
  ASSUME NEW px \in Proxies, NEW items, items = Items(px), NEW box, BoxFits(box, items),
         NEW next, next = ScrollDown(box, items)
  PROVE  BoxFits(next, items)
<1> DEFINE count == Count(items, box.filter)
           last == Max({count - MaxVisible, 0})
           o == Min({box.offset + 1, last})
           f == IF box.focus < o THEN o ELSE box.focus
           b == [box EXCEPT !.offset = o, !.focus = f]
<1>1. /\ count \in Nat /\ count >= 1 /\ MaxVisible \in Nat /\ MaxVisible >= 1
      /\ box \in Boxes /\ box.offset \in Nat /\ box.focus \in Nat
  BY CountIs, EditorAssumption DEF Boxes, BoxFits
<1>2. box.focus < count /\ box.focus \in box.offset..(box.offset + MaxVisible - 1)
  <2> HIDE DEF count
  <2>1. count # 0
    BY <1>1
  <2> QED BY <2>1 DEF BoxFits, InWindow, count
<1>3. last = IF count - MaxVisible >= 0 THEN count - MaxVisible ELSE 0
  <2> HIDE DEF count
  <2>1. count - MaxVisible \in Int
    BY <1>1
  <2> QED BY <2>1, MaxMin
<1>4. last \in Nat /\ last < count /\ count <= last + MaxVisible
  <2> HIDE DEF last, count
  <2> QED BY <1>1, <1>3
<1>5. o = IF box.offset + 1 <= last THEN box.offset + 1 ELSE last
  <2> HIDE DEF last
  <2>1. box.offset + 1 \in Int /\ last \in Int
    BY <1>1, <1>4
  <2> QED BY <2>1, MaxMin
<1>6. o \in Nat /\ o < count /\ f \in Nat /\ f < count /\ f \in o..(o + MaxVisible - 1)
  <2> HIDE DEF o, last, count
  <2> QED BY <1>1, <1>2, <1>4, <1>5
<1> HIDE DEF f
<1>7. b.focus = f /\ b.offset = o /\ b.filter = box.filter /\ b \in Boxes
      /\ b = [box EXCEPT !.offset = o, !.focus = f]
  <2> HIDE DEF o
  <2> QED BY <1>1, <1>6 DEF Boxes
<1>8. next = ClampFocus(b, items)
  BY DEF ScrollDown, f
<1> HIDE DEF o
<1>9. Min({f, count - 1}) = f /\ Min({o, count - 1}) = o
  <2> HIDE DEF count
  <2>1. f \in Int /\ o \in Int /\ count - 1 \in Int /\ f <= count - 1 /\ o <= count - 1
    BY <1>1, <1>6
  <2> QED BY <2>1, MaxMin
<1> HIDE DEF b
<1>10. next = b
  <2>1. count # 0 /\ Count(items, b.filter) = count
    BY <1>1, <1>7
  <2> HIDE DEF count
  <2>2. next = [b EXCEPT !.focus = Min({@, count - 1}), !.offset = Min({@, count - 1})]
    BY <1>8, <2>1 DEF ClampFocus
  <2> QED BY <1>7, <1>9, <2>2 DEF Boxes
<1> QED
  BY <1>6, <1>7, <1>10 DEF BoxFits, InWindow

LEMMA SelectMovesFit ==
  ASSUME NEW px \in Proxies, NEW items, items = Items(px), NEW box, BoxFits(box, items),
         NEW next \in SelectMoves(box, items)
  PROVE  BoxFits(next, items)
<1>1. box \in Boxes /\ box.focus \in Nat /\ MaxVisible \in Nat /\ MaxVisible >= 1
  BY EditorAssumption DEF BoxFits, Boxes
<1>2. CASE next \in FocusMoves(box, items)
  <2>1. \A step \in {1, MaxVisible} : Max({box.focus - step, 0}) \in Nat /\ box.focus + step \in Nat
    <3> TAKE step \in {1, MaxVisible}
    <3>1. step \in Nat /\ box.focus - step \in Int
      BY <1>1
    <3>2. Max({box.focus - step, 0}) = IF box.focus - step >= 0 THEN box.focus - step ELSE 0
      BY <3>1, MaxMin
    <3> QED BY <1>1, <3>1, <3>2
  <2>2. PICK to \in Nat : next = MoveFocus(box, items, to)
    BY <1>2, <2>1 DEF FocusMoves
  <2> QED BY <1>1, <2>2, MoveFocusIs
<1>3. CASE next \in {ScrollUp(box, items), ScrollDown(box, items)}
  BY <1>3, ScrollUpIs, ScrollDownIs
<1>4. CASE \E typed \in Filters : next = SetFilter(box, typed)
  <2>1. PICK typed \in Filters : next = SetFilter(box, typed)
    BY <1>4
  <2>2. CASE box.filter = typed
    BY <2>1, <2>2 DEF SetFilter
  <2>3. CASE box.filter # typed
    <3>1. next = [filter |-> typed, focus |-> 0, offset |-> 0]
      BY <2>1, <2>3 DEF SetFilter
    <3>2. next \in Boxes /\ next.focus = 0 /\ next.offset = 0
      BY <3>1 DEF Boxes
    <3>3. 0 < Count(items, next.filter)
      BY CountIs
    <3>4. 0 \in 0..(0 + MaxVisible - 1)
      BY <1>1
    <3> QED BY <3>2, <3>3, <3>4 DEF BoxFits, InWindow
  <2> QED BY <2>2, <2>3
<1> QED
  BY <1>2, <1>3, <1>4 DEF SelectMoves

LEMMA StartSelectIs ==
  ASSUME NEW p \in Popups, NEW q, q = StartSelect(p)
  PROVE  Stays(p, q) /\ q.mode.kind = "select"
<1> DEFINE px == p.draft.proxy
           items == Items(px)
           selected == IF Virtual(px) THEN 1 ELSE ActiveIndex(px)
           box == OpenBox(items, selected)
           mode == Selecting(box)
<1>1. px \in Proxies
  BY PopupIs, DocumentIs
<1>2. selected \in Nat
  <2> SUFFICES ASSUME ~Virtual(px) PROVE ActiveIndex(px) \in Nat
    OBVIOUS
  <2>1. px # << >>
    BY DEF Virtual
  <2> HIDE DEF px
  <2> QED BY <1>1, <2>1, VirtualIs
<1>3. items = Items(px)
  OBVIOUS
<1> HIDE DEF selected, items
<1>4. BoxFits(box, items)
  BY <1>1, <1>2, <1>3, OpenBoxIs
<1> HIDE DEF box
<1>5. mode \in Modes /\ mode.kind = "select" /\ mode.box = box
  BY <1>4, ModeOf DEF BoxFits, Selecting
<1>6. q = Onto(p, "content", "proxy", 1, mode)
  BY DEF StartSelect, Onto, box, items, selected
<1> HIDE DEF mode
<1>7. "proxy" \in Topics /\ 1 \in Indices
  BY TopicsAre DEF Indices
<1>8. MovedTo(p, q, "proxy", 1, mode)
  BY <1>5, <1>6, <1>7, MovedToIs
<1>9. 1 \in DOMAIN Widgets("proxy", px)
  <2> HIDE DEF px
  <2> QED BY <1>7, RowsAre DEF Indices
<1>10. ModeFits(p, "proxy", mode)
  BY <1>3, <1>4, <1>5 DEF ModeFits, BoxFits
<1>11. Sound(q)
  BY <1>8, <1>9, <1>10, MovedIsSound
<1> QED
  BY <1>5, <1>8, <1>11 DEF Stays, MovedTo

\* What the widgets of the rows stand for.
LEMMA WidgetsAre ==
  ASSUME NEW p \in Popups, NEW row \in DOMAIN RowsOf(p), NEW w, w = RowsOf(p)[row]
  PROVE  /\ w = "patterns" => p.topic = "recording" /\ row = 3
         /\ w \in {"name", "enable"} \union DOMAIN TableOf \union DOMAIN EnableOf
              => p.topic = "proxy" /\ Shown(p.draft.proxy) # << >>
         /\ w = "preset" => p.topic = "proxy"
<1> DEFINE px == p.draft.proxy
<1>1. RowsOf(p) = Widgets(p.topic, px) /\ p.topic \in Topics
  BY PopupIs DEF RowsOf
<1>2. DOMAIN TableOf = {"remote_rules", "local_rules"} /\ DOMAIN EnableOf = {"enable_remote", "enable_local"}
  BY DEF TableOf, EnableOf
<1> HIDE DEF px
<1>3. CASE p.topic = "server"
  <2>1. RowsOf(p) = <<"port">>
    BY <1>1, <1>3 DEF Widgets
  <2>2. w = "port"
    BY <2>1
  <2> QED BY <1>2, <2>2
<1>4. CASE p.topic = "certificate"
  <2>1. RowsOf(p) = <<"dir", "file">>
    BY <1>1, <1>4 DEF Widgets
  <2>2. w \in {"dir", "file"}
    BY <2>1
  <2> QED BY <1>2, <2>2
<1>5. CASE p.topic = "recording"
  <2>1. RowsOf(p) = <<"record", "prefilter", "patterns">>
    BY <1>1, <1>5 DEF Widgets
  <2>2. \/ row = 1 /\ w = "record"
        \/ row = 2 /\ w = "prefilter"
        \/ row = 3 /\ w = "patterns"
    BY <2>1
  <2> QED BY <1>2, <1>5, <2>2
<1>6. CASE p.topic = "interface"
  <2>1. RowsOf(p) = <<"auto_expand">>
    BY <1>1, <1>6 DEF Widgets
  <2>2. w = "auto_expand"
    BY <2>1
  <2> QED BY <1>2, <2>2
<1>7. CASE p.topic = "proxy"
  <2>1. CASE Shown(px) = << >>
    <3>1. RowsOf(p) = <<"preset">>
      BY <1>1, <1>7, <2>1 DEF Widgets
    <3>2. w = "preset"
      BY <3>1
    <3> QED BY <1>2, <1>7, <3>2
  <2>2. CASE Shown(px) # << >>
    <3>1. RowsOf(p) = <<"preset", "name", "enable", "enable_remote", "remote_rules",
                        "enable_local", "local_rules">>
      BY <1>1, <1>7, <2>2 DEF Widgets
    <3>2. w \in {"preset", "name", "enable", "enable_remote", "remote_rules",
                 "enable_local", "local_rules"}
      BY <3>1
    <3> QED BY <1>7, <2>2, <3>2 DEF px
  <2> QED BY <2>1, <2>2
<1> QED
  BY <1>1, <1>3, <1>4, <1>5, <1>6, <1>7, TopicsAre

LEMMA StartWidgetIs ==
  ASSUME NEW p, Sound(p), NEW q, q = StartEdit(p)
  PROVE  Stays(p, q)
<1> DEFINE w == RowsOf(p)[p.row]
           px == p.draft.proxy
<1>1. p \in Popups /\ RowFits(p)
  BY DEF Sound
<1>2. q = StartWidget(p, w)
  BY <1>1, RowsOfIs DEF StartEdit, StartRow, Widget, WidgetIn, RowFits
<1>3. /\ w = "patterns" => p.topic = "recording"
      /\ w \in {"name"} \union DOMAIN TableOf => Shown(px) # << >>
  BY <1>1, WidgetsAre DEF RowFits
<1>4. /\ px \in Proxies /\ p.draft.port \in STRING
      /\ p.draft.certificate \in [dir : STRING, file : STRING]
  BY <1>1, PopupIs, DocumentIs
<1> HIDE DEF w
<1>5. ASSUME NEW widget \in {"port", "dir", "file", "name"}, NEW value \in Names,
             q = [p EXCEPT !.mode = Field(widget, value)],
             widget = "name" => Shown(px) # << >>
      PROVE  Stays(p, q)
  <2> DEFINE mode == Field(widget, value)
  <2>1. mode \in Modes /\ ModeFits(p, p.topic, mode)
    BY <1>5, ModeOf DEF ModeFits, Field
  <2> HIDE DEF mode
  <2>2. q = [p EXCEPT !.mode = mode]
    BY <1>5 DEF mode
  <2> QED BY <1>1, <2>1, <2>2, ModeStays
<1>6. CASE w = "port"
  <2>1. q = [p EXCEPT !.mode = Field("port", Plain(p.draft.port))]
    BY <1>2, <1>6 DEF StartWidget, TableOf
  <2>2. Plain(p.draft.port) \in Names
    BY <1>4 DEF Plain, Names
  <2> QED BY <1>5, <2>1, <2>2
<1>7. CASE w \in {"dir", "file"}
  <2>1. q = [p EXCEPT !.mode = Field(w, Plain(p.draft.certificate[w]))]
    BY <1>2, <1>7 DEF StartWidget, TableOf
  <2>2. Plain(p.draft.certificate[w]) \in Names
    BY <1>4, <1>7 DEF Plain, Names
  <2> QED BY <1>5, <1>7, <2>1, <2>2
<1>8. CASE w = "name"
  <2>1. q = [p EXCEPT !.mode = Field("name", Shown(px)[1].name)]
    BY <1>2, <1>8 DEF StartWidget, TableOf
  <2>2. Shown(px)[1].name \in Names /\ Shown(px) # << >>
    BY <1>3, <1>4, <1>8, ShownIs
  <2> QED BY <1>5, <2>1, <2>2
<1>9. CASE w = "patterns"
  <2> DEFINE mode == PatternTable(1)
  <2>1. mode \in Modes /\ ModeFits(p, p.topic, mode)
    BY <1>3, <1>9, ModeOf DEF ModeFits, PatternTable, Indices, ListFits
  <2>2. q = [p EXCEPT !.mode = mode]
    BY <1>2, <1>9 DEF StartWidget, TableOf
  <2> HIDE DEF mode
  <2> QED BY <1>1, <2>1, <2>2, ModeStays
<1>10. CASE w = "preset"
  <2>1. q = StartSelect(p)
    BY <1>2, <1>10 DEF StartWidget, TableOf
  <2> QED BY <1>1, <2>1, StartSelectIs
<1>11. CASE w \in DOMAIN TableOf
  <2>1. w \notin {"port", "dir", "file", "name", "patterns", "preset"} /\ TableOf[w] \in Tables
    BY <1>11 DEF TableOf, Tables
  <2> DEFINE mode == RuleTable(TableOf[w], 1)
  <2>2. mode \in Modes /\ ModeFits(p, p.topic, mode)
    BY <2>1, ModeOf DEF ModeFits, RuleTable, Indices, ListFits
  <2>3. q = [p EXCEPT !.mode = mode]
    BY <1>2, <1>11, <2>1 DEF StartWidget
  <2> HIDE DEF mode
  <2> QED BY <1>1, <2>2, <2>3, ModeStays
<1>12. CASE w \notin {"port", "dir", "file", "name", "patterns", "preset"} \union DOMAIN TableOf
  <2>1. q = p
    BY <1>2, <1>12 DEF StartWidget, TableOf
  <2> QED BY <1>1, <2>1, DraftsKept DEF Stays
<1> QED
  BY <1>6, <1>7, <1>8, <1>9, <1>10, <1>11, <1>12

\* A change of the draft while the user is on the rows.
LEMMA BrowseEdited ==
  ASSUME NEW p \in Popups, NEW q, q \in Popups, RowFits(q), q.mode.kind \in {"browse", "unsaved"}
  PROVE  Sound(q)
BY DEF Sound, ModeFits

LEMMA ToggleWidgetIs ==
  ASSUME NEW p, Sound(p), p.mode.kind = "browse", NEW q, q = ToggleRow(p)
  PROVE  Kept(p, q) /\ SameShown(p.draft.proxy, q.draft.proxy) /\ q.mode = p.mode
<1> DEFINE w == RowsOf(p)[p.row]
           px == p.draft.proxy
<1>1. p \in Popups /\ RowFits(p)
  BY DEF Sound
<1>2. q = ToggleWidget(p, w)
  BY <1>1, RowsOfIs DEF ToggleRow, ToggleAt, Widget, WidgetIn, RowFits
<1>3. w \in {"enable"} \union DOMAIN EnableOf => Shown(px) # << >>
  BY <1>1, WidgetsAre DEF RowFits
<1>4. px \in Proxies /\ p.draft \in Documents
  BY <1>1, PopupIs, DocumentIs
<1> HIDE DEF w
<1>5. ASSUME NEW d \in Documents, d.proxy = px, d.port = p.draft.port, q = [p EXCEPT !.draft = d]
      PROVE  Kept(p, q) /\ SameShown(px, q.draft.proxy) /\ q.mode = p.mode
  <2>1. /\ q \in Popups /\ q.visible = p.visible /\ q.original = p.original /\ q.topic = p.topic
        /\ q.row = p.row /\ q.mode = p.mode /\ q.draft = d
    BY <1>1, <1>5 DEF Popups
  <2>2. RowsOf(q) = RowsOf(p)
    BY <1>5, <2>1 DEF RowsOf
  <2>3. Sound(q)
    BY <1>1, <2>1, <2>2, BrowseEdited DEF RowFits
  <2>4. DraftKept(p, q)
    BY <1>4, <1>5, <2>1, NothingDone DEF DraftKept
  <2> QED BY <1>5, <2>1, <2>3, <2>4 DEF Kept, SameShown
<1>6. CASE w = "record"
  <2> DEFINE d == [p.draft EXCEPT !.record = ~@]
  <2>1. q = [p EXCEPT !.draft.record = ~@]
    BY <1>2, <1>6 DEF ToggleWidget, EnableOf
  <2>2. q = [p EXCEPT !.draft = d]
    BY <1>1, <2>1 DEF Popups
  <2>3. d \in Documents /\ d.proxy = px /\ d.port = p.draft.port
    BY <1>4 DEF Documents
  <2> HIDE DEF d
  <2> QED BY <1>5, <2>2, <2>3
<1>7. CASE w = "prefilter"
  <2> DEFINE f == [p.draft.prefilter EXCEPT !.enable = ~@]
             d == [p.draft EXCEPT !.prefilter = f]
  <2>1. q = [p EXCEPT !.draft.prefilter.enable = ~@]
    BY <1>2, <1>7 DEF ToggleWidget, EnableOf
  <2>2. q = [p EXCEPT !.draft = d]
    BY <1>1, <2>1 DEF Popups
  <2>3. f \in [enable : BOOLEAN, patterns : Seq([pattern : STRING, enable : BOOLEAN])]
    <3> DEFINE S == Seq([pattern : STRING, enable : BOOLEAN])
    <3>1. p.draft.prefilter \in [enable : BOOLEAN, patterns : S]
      BY <1>4, DocumentIs
    <3> HIDE DEF S
    <3>2. f \in [enable : BOOLEAN, patterns : S]
      BY <3>1
    <3> QED BY <3>2 DEF S
  <2> HIDE DEF f
  <2>4. d \in Documents /\ d.proxy = px /\ d.port = p.draft.port
    BY <1>4, <2>3 DEF Documents
  <2> HIDE DEF d
  <2> QED BY <1>5, <2>2, <2>4
<1>8. CASE w = "auto_expand"
  <2> DEFINE d == [p.draft EXCEPT !.autoExpand = ~@]
  <2>1. q = [p EXCEPT !.draft.autoExpand = ~@]
    BY <1>2, <1>8 DEF ToggleWidget, EnableOf
  <2>2. q = [p EXCEPT !.draft = d]
    BY <1>1, <2>1 DEF Popups
  <2>3. d \in Documents /\ d.proxy = px /\ d.port = p.draft.port
    BY <1>4 DEF Documents
  <2> HIDE DEF d
  <2> QED BY <1>5, <2>2, <2>3
<1>9. ASSUME Edited(p, q), SameShown(px, q.draft.proxy)
      PROVE  Kept(p, q) /\ SameShown(px, q.draft.proxy) /\ q.mode = p.mode
  BY <1>1, <1>9, BrowseEdited DEF Edited, Kept
<1>10. CASE w = "enable"
  <2> DEFINE m == [op |-> "enable", enabled |-> ~MappingShown(px)]
  <2>1. q = Edit(p, m)
    BY <1>2, <1>10 DEF ToggleWidget, EnableOf
  <2>2. IsMutation(m) /\ m.op = "enable"
    <3> DEFINE on == ~MappingShown(px)
    <3>1. on \in BOOLEAN
      OBVIOUS
    <3> HIDE DEF on
    <3> QED BY <3>1 DEF IsMutation, MutationsOf, Ops
  <2> HIDE DEF m
  <2>3. Edited(p, q) /\ SameShown(px, q.draft.proxy)
    BY <1>1, <2>1, <2>2, EditIs
  <2> QED BY <1>9, <2>3
<1>11. CASE w \in DOMAIN EnableOf
  <2> DEFINE table == EnableOf[w]
             on == ~Shown(px)[1][table].enable
             m == [op |-> "enable_table", preset |-> ShownName(p), table |-> table, enabled |-> on]
  <2>1. w \notin {"record", "prefilter", "auto_expand", "enable"} /\ table \in Tables
    BY <1>11 DEF EnableOf, Tables
  <2>2. q = EditShown(p, m)
    BY <1>2, <1>11, <2>1 DEF ToggleWidget, EnableTable
  <2>3. m.op = "enable_table" /\ m.op \in TableOps /\ m.preset = ShownName(p)
    BY DEF TableOps
  <2> HIDE DEF table
  <2>4. Shown(px) # << >> => IsMutation(m)
    <3>1. Shown(px) # << >> => ShownName(p) \in Names
      BY <1>1, NameShown
    <3>2. on \in BOOLEAN
      OBVIOUS
    <3> HIDE DEF on
    <3> QED BY <2>1, <3>1, <3>2, PopupMutations
  <2> HIDE DEF m
  <2>5. TableEdited(p, q, m)
    BY <1>1, <2>2, <2>3, <2>4, EditShownIs
  <2> QED BY <1>9, <2>5 DEF TableEdited
<1>12. CASE w \notin {"record", "prefilter", "auto_expand", "enable"} \union DOMAIN EnableOf
  <2>1. q = p
    BY <1>2, <1>12 DEF ToggleWidget, EnableOf
  <2> QED BY <1>1, <2>1, DraftsKept DEF Kept, SameShown
<1> QED
  BY <1>6, <1>7, <1>8, <1>10, <1>11, <1>12

(***************************************************************************)
(* The prefilter patterns.                                                 *)
(***************************************************************************)
PatternRecords == [pattern : STRING, enable : BOOLEAN]

\* The patterns of the draft are others, everything else is the same.
PatternsChanged(p, w, patterns) ==
  /\ w \in Popups /\ w.visible = p.visible /\ w.original = p.original
  /\ w.topic = p.topic /\ w.row = p.row /\ w.mode = p.mode
  /\ w.draft.proxy = p.draft.proxy /\ DraftKept(p, w) /\ Patterns(w) = patterns
  /\ RowsOf(w) = RowsOf(p)

LEMMA NewPatterns ==
  ASSUME NEW p \in Popups, NEW patterns \in Seq(PatternRecords),
         NEW w, w = WithPatterns(p, patterns)
  PROVE  PatternsChanged(p, w, patterns)
<1> DEFINE f == [p.draft.prefilter EXCEPT !.patterns = patterns]
           d == [p.draft EXCEPT !.prefilter = f]
<1>1. /\ p.draft \in Documents /\ p.draft.proxy \in Proxies
      /\ p.draft.prefilter \in [enable : BOOLEAN, patterns : Seq(PatternRecords)]
  BY PopupIs, DocumentIs DEF PatternRecords
<1>2. f \in [enable : BOOLEAN, patterns : Seq(PatternRecords)] /\ f.patterns = patterns
  BY <1>1
<1>3. w = [p EXCEPT !.draft = d]
  BY <1>1 DEF WithPatterns, Popups
<1> HIDE DEF f
<1>4. d \in Documents /\ d.proxy = p.draft.proxy /\ d.port = p.draft.port /\ d.prefilter = f
  BY <1>1, <1>2 DEF Documents, PatternRecords
<1> HIDE DEF d
<1>5. /\ w \in Popups /\ w.visible = p.visible /\ w.original = p.original
      /\ w.topic = p.topic /\ w.row = p.row /\ w.mode = p.mode /\ w.draft = d
  BY <1>3, <1>4 DEF Popups
<1>6. ProxyKept(p.draft.proxy, p.draft.proxy)
  BY <1>1, NothingDone
<1> QED
  BY <1>2, <1>4, <1>5, <1>6 DEF PatternsChanged, DraftKept, Patterns, RowsOf

\* What a step in the patterns does; nothing else of the draft changes.
PatternStep(p, q, at) ==
  /\ Kept(p, q) /\ q.draft.proxy = p.draft.proxy
  /\ q.mode.kind = "patterns" /\ Patterns(q) # Patterns(p)
       => ChangedAt(Patterns(p), Patterns(q), at, q.mode.index)

\* The cursor goes to a pattern.
LEMMA SelectPatternIs ==
  ASSUME NEW p \in Popups, NEW index \in Int, NEW q, q = SelectPattern(p, index)
  PROVE  /\ Stays(p, q) /\ Patterns(q) = Patterns(p) /\ q.topic = "recording"
         /\ q.mode = PatternTable(Clamped(index, Len(Patterns(p))))
<1> DEFINE at == Clamped(index, Len(Patterns(p)))
           mode == PatternTable(at)
<1>1. at \in Indices /\ ListFits(at, Patterns(p))
  BY PatternsAre, ClampedIs DEF ListFits
<1> HIDE DEF at
<1>2. mode \in Modes /\ ModeFits(p, "recording", mode)
  BY <1>1, ModeOf DEF ModeFits, PatternTable
<1>3. q = Onto(p, "content", "recording", 3, mode)
  BY DEF SelectPattern, Onto, at
<1> HIDE DEF mode
<1>4. "recording" \in Topics /\ 3 \in Indices
  BY TopicsAre DEF Indices
<1>5. MovedTo(p, q, "recording", 3, mode)
  BY <1>2, <1>3, <1>4, MovedToIs
<1>6. 3 \in DOMAIN Widgets("recording", p.draft.proxy)
  BY <1>4, RowsAre
<1>7. Sound(q)
  BY <1>2, <1>5, <1>6, MovedIsSound
<1> QED
  BY <1>5, <1>7 DEF Stays, MovedTo, mode, at

\* The patterns change and the cursor goes to one of them.
LEMMA ChangeThenSelect ==
  ASSUME NEW p \in Popups, NEW w, NEW patterns, PatternsChanged(p, w, patterns),
         NEW to \in Int, NEW q, q = SelectPattern(w, to), NEW at,
         patterns # Patterns(p) =>
           ChangedAt(Patterns(p), patterns, at, Clamped(to, Len(patterns)))
  PROVE  PatternStep(p, q, at)
<1>1. w \in Popups /\ DraftKept(p, w) /\ Patterns(w) = patterns /\ w.draft.proxy = p.draft.proxy
  BY DEF PatternsChanged
<1> DEFINE i == Clamped(to, Len(patterns))
<1>2. Stays(w, q) /\ Patterns(q) = patterns /\ q.mode = PatternTable(i)
  BY <1>1, SelectPatternIs
<1> HIDE DEF i
<1>3. q.mode.index = i /\ q.draft = w.draft
  BY <1>2 DEF PatternTable, Stays, SameDraft
<1>4. Kept(p, q)
  BY <1>1, <1>2, KeptThenStays
<1> QED
  BY <1>1, <1>2, <1>3, <1>4 DEF PatternStep, i

LEMMA SelectPatternStep ==
  ASSUME NEW p \in Popups, NEW to \in Int, NEW q, q = SelectPattern(p, to), NEW at
  PROVE  PatternStep(p, q, at)
<1>1. Stays(p, q) /\ Patterns(q) = Patterns(p)
  BY SelectPatternIs
<1>2. Kept(p, q)
  BY <1>1, StaysIsKept
<1> QED
  BY <1>1, <1>2 DEF PatternStep, Stays, SameDraft

LEMMA AddPatternStep ==
  ASSUME NEW p \in Popups, NEW to \in 1..(Len(Patterns(p)) + 1), NEW q, q = AddPattern(p, to), NEW at
  PROVE  PatternStep(p, q, at)
<1> DEFINE s == Patterns(p)
           e == [pattern |-> AddedGlob, enable |-> TRUE]
           u == InsertAt(s, to, e)
           w == WithPatterns(p, u)
<1>1. s \in Seq(PatternRecords) /\ Len(s) \in Nat /\ e \in PatternRecords
  BY PatternsAre, EditorAssumption DEF PatternRecords
<1>2. q = SelectPattern(w, to)
  BY DEF AddPattern
<1>3. to \in 1..(Len(s) + 1) /\ u = InsertAt(s, to, e) /\ w = WithPatterns(p, u)
  OBVIOUS
<1> HIDE DEF s, e, u, w
<1>4. u \in Seq(PatternRecords) /\ Len(u) = Len(s) + 1 /\ RemoveAt(u, to) = s
  BY <1>1, <1>3, RemovedInserted
<1>5. PatternsChanged(p, w, u)
  BY <1>3, <1>4, NewPatterns
<1>6. to \in Int /\ Len(u) \in Nat /\ to \in 1..Len(u)
  BY <1>1, <1>3, <1>4
<1>7. Clamped(to, Len(u)) = to
  BY <1>6, ClampedIs
<1>8. ChangedAt(s, u, at, Clamped(to, Len(u)))
  BY <1>1, <1>4, <1>7, ChangesAre
<1> QED
  BY <1>2, <1>5, <1>6, <1>8, ChangeThenSelect DEF s

LEMMA RemovePatternStep ==
  ASSUME NEW p \in Popups, NEW index \in Indices, NEW q, q = RemovePattern(p, index)
  PROVE  PatternStep(p, q, index)
<1> DEFINE s == Patterns(p)
           u == RemoveAt(s, index)
           w == WithPatterns(p, u)
<1>1. s \in Seq(PatternRecords) /\ Len(s) \in Nat /\ index \in Int
  BY PatternsAre DEF PatternRecords, Indices
<1>2. CASE index \notin DOMAIN s
  <2>1. q = SelectPattern(p, index)
    BY <1>2 DEF RemovePattern
  <2> QED BY <1>1, <2>1, SelectPatternStep
<1>3. CASE index \in DOMAIN s
  <2>1. q = SelectPattern(w, index)
    BY <1>3 DEF RemovePattern
  <2>2. u = RemoveAt(s, index) /\ w = WithPatterns(p, u) /\ s = Patterns(p)
    OBVIOUS
  <2> HIDE DEF s, u, w
  <2>3. u \in Seq(PatternRecords) /\ Len(u) = Len(s) - 1
    BY <1>1, <1>3, <2>2, RemovedIs DEF Without
  <2>4. PatternsChanged(p, w, u)
    BY <2>2, <2>3, NewPatterns
  <2>5. ChangedAt(s, u, index, Clamped(index, Len(u)))
    BY <1>1, <2>2, <2>3, ChangesAre
  <2> QED BY <1>1, <2>1, <2>2, <2>4, <2>5, ChangeThenSelect
<1> QED
  BY <1>2, <1>3

\* Two neighbours change places: each is among the others what it was.
LEMMA SwappedIs ==
  ASSUME NEW S, NEW s \in Seq(S), NEW i \in DOMAIN s, i + 1 \in DOMAIN s,
         NEW u, u = Swapped(s, i, i + 1)
  PROVE  /\ u \in Seq(S) /\ Len(u) = Len(s)
         /\ RemoveAt(u, i) = RemoveAt(s, i + 1) /\ RemoveAt(u, i + 1) = RemoveAt(s, i)
<1> DEFINE n == Len(s)
<1>1. /\ n \in Nat /\ DOMAIN s = 1..n /\ i \in 1..n /\ i + 1 \in 1..n
      /\ \A k \in 1..n : s[k] \in S
  BY LenProperties, ElementOfSeq
<1> HIDE DEF n
<1>2. /\ DOMAIN u = 1..n
      /\ \A k \in 1..n : u[k] = IF k = i THEN s[i + 1] ELSE IF k = i + 1 THEN s[i] ELSE s[k]
  <2>1. u = [[s EXCEPT ![i] = s[i + 1]] EXCEPT ![i + 1] = s[i]]
    BY DEF Swapped
  <2>2. i # i + 1
    BY <1>1
  <2> QED BY <1>1, <2>1, <2>2
<1>3. u \in Seq(S) /\ Len(u) = n
  <2>1. s \in [1..n -> S]
    BY <1>1
  <2>2. u = [[s EXCEPT ![i] = s[i + 1]] EXCEPT ![i + 1] = s[i]]
    BY DEF Swapped
  <2>3. u \in [1..n -> S]
    BY <1>1, <2>1, <2>2
  <2>4. u \in Seq(S)
    BY <1>1, <2>3, SeqDef
  <2> QED BY <1>1, <1>2, <2>4, LenProperties
<1>4. \A j \in {i, i + 1} :
        /\ RemoveAt(s, j) \in Seq(S) /\ Without(RemoveAt(s, j), s, j)
        /\ RemoveAt(u, j) \in Seq(S) /\ Without(RemoveAt(u, j), u, j)
  BY <1>1, <1>2, <1>3, RemovedIs
<1> DEFINE a == RemoveAt(u, i)
           b == RemoveAt(s, i + 1)
           c == RemoveAt(u, i + 1)
           d == RemoveAt(s, i)
<1>5. /\ a \in Seq(S) /\ b \in Seq(S) /\ c \in Seq(S) /\ d \in Seq(S)
      /\ Without(a, u, i) /\ Without(b, s, i + 1) /\ Without(c, u, i + 1) /\ Without(d, s, i)
  BY <1>4
<1> HIDE DEF a, b, c, d
<1>6. /\ Len(a) = n - 1 /\ Len(b) = n - 1 /\ Len(c) = n - 1 /\ Len(d) = n - 1
      /\ \A k \in 1..(n - 1) : /\ a[k] = IF k < i THEN u[k] ELSE u[k + 1]
                               /\ b[k] = IF k < i + 1 THEN s[k] ELSE s[k + 1]
                               /\ c[k] = IF k < i + 1 THEN u[k] ELSE u[k + 1]
                               /\ d[k] = IF k < i THEN s[k] ELSE s[k + 1]
  BY <1>3, <1>5 DEF Without, n
<1>7. ASSUME NEW k \in 1..(n - 1) PROVE a[k] = b[k] /\ c[k] = d[k]
  <2>1. k \in 1..n /\ k + 1 \in 1..n /\ i \in Int /\ k \in Int
    BY <1>1
  <2>2. /\ u[k] = IF k = i THEN s[i + 1] ELSE IF k = i + 1 THEN s[i] ELSE s[k]
        /\ u[k + 1] = IF k + 1 = i THEN s[i + 1] ELSE IF k + 1 = i + 1 THEN s[i] ELSE s[k + 1]
    BY <1>2, <2>1
  <2>3. /\ a[k] = IF k < i THEN u[k] ELSE u[k + 1]
        /\ b[k] = IF k < i + 1 THEN s[k] ELSE s[k + 1]
        /\ c[k] = IF k < i + 1 THEN u[k] ELSE u[k + 1]
        /\ d[k] = IF k < i THEN s[k] ELSE s[k + 1]
    BY <1>6
  <2>4. CASE k < i
    BY <2>1, <2>2, <2>3, <2>4
  <2>5. CASE k = i
    BY <2>1, <2>2, <2>3, <2>5
  <2>6. CASE k > i
    BY <2>1, <2>2, <2>3, <2>6
  <2> QED BY <2>1, <2>4, <2>5, <2>6
<1>8. a = b /\ c = d
  BY <1>5, <1>6, <1>7, SeqEqual
<1> QED
  BY <1>3, <1>8 DEF a, b, c, d, n

LEMMA RaisePatternStep ==
  ASSUME NEW p \in Popups, NEW index \in Indices, ListFits(index, Patterns(p)),
         NEW q, q = RaisePattern(p, index)
  PROVE  PatternStep(p, q, index)
<1> DEFINE s == Patterns(p)
           to == Max({index - 1, 1})
           u == Swapped(s, index - 1, index)
           w == WithPatterns(p, u)
<1>1. s \in Seq(PatternRecords) /\ Len(s) \in Nat /\ DOMAIN s = 1..Len(s) /\ index \in Int /\ index >= 1
  BY PatternsAre DEF PatternRecords, Indices
<1>2. to = IF index - 1 >= 1 THEN index - 1 ELSE 1
  BY <1>1, MaxMin
<1>3. to \in Int
  <2> HIDE DEF to
  <2> QED BY <1>1, <1>2
<1>4. CASE ~(index > 1)
  <2>1. q = SelectPattern(p, to)
    BY <1>4 DEF RaisePattern
  <2> HIDE DEF to
  <2> QED BY <1>3, <2>1, SelectPatternStep
<1>5. CASE index > 1
  <2>1. q = SelectPattern(w, to)
    BY <1>5 DEF RaisePattern
  <2>2. w = WithPatterns(p, u) /\ s = Patterns(p)
    OBVIOUS
  <2>3. to = index - 1 /\ index \in DOMAIN s /\ to \in DOMAIN s /\ to + 1 = index /\ to + 1 \in DOMAIN s
    <3> HIDE DEF to, s
    <3>1. index \in DOMAIN s
      BY <1>1, <1>5 DEF ListFits, s
    <3> QED BY <1>1, <1>2, <1>5, <3>1
  <2>4. u = Swapped(s, to, to + 1)
    <3> HIDE DEF to, s
    <3> QED BY <2>3
  <2> HIDE DEF s, to, u, w
  <2>5. /\ u \in Seq(PatternRecords) /\ Len(u) = Len(s)
        /\ RemoveAt(u, to) = RemoveAt(s, to + 1)
    <3>1. /\ s \in Seq(PatternRecords) /\ to \in DOMAIN s /\ to + 1 \in DOMAIN s
          /\ u = Swapped(s, to, to + 1)
      BY <1>1, <2>3, <2>4
    <3> QED BY <3>1, SwappedIs
  <2>6. PatternsChanged(p, w, u)
    BY <2>2, <2>5, NewPatterns
  <2>7. Clamped(to, Len(u)) = to
    <3>1. to \in 1..Len(u) /\ Len(u) \in Nat
      BY <1>1, <2>3, <2>5
    <3> QED BY <1>3, <3>1, ClampedIs
  <2>8. ChangedAt(s, u, index, Clamped(to, Len(u)))
    BY <1>1, <2>3, <2>5, <2>7, ChangesAre
  <2> QED BY <1>3, <2>1, <2>2, <2>6, <2>8, ChangeThenSelect
<1> QED
  BY <1>4, <1>5

LEMMA LowerPatternStep ==
  ASSUME NEW p \in Popups, NEW index \in Indices, ListFits(index, Patterns(p)),
         NEW q, q = LowerPattern(p, index)
  PROVE  PatternStep(p, q, index)
<1> DEFINE s == Patterns(p)
           to == index + 1
           u == Swapped(s, index, to)
           w == WithPatterns(p, u)
<1>1. /\ s \in Seq(PatternRecords) /\ Len(s) \in Nat /\ DOMAIN s = 1..Len(s)
      /\ index \in Int /\ index >= 1 /\ to \in Int
  BY PatternsAre DEF PatternRecords, Indices
<1>2. CASE to \notin DOMAIN s
  <2>1. q = SelectPattern(p, to)
    BY <1>2 DEF LowerPattern
  <2> QED BY <1>1, <2>1, SelectPatternStep
<1>3. CASE to \in DOMAIN s
  <2>1. q = SelectPattern(w, to)
    BY <1>3 DEF LowerPattern
  <2>2. w = WithPatterns(p, u) /\ s = Patterns(p) /\ u = Swapped(s, index, index + 1) /\ to = index + 1
    OBVIOUS
  <2>3. index \in DOMAIN s /\ index + 1 \in DOMAIN s
    <3> HIDE DEF s
    <3> QED BY <1>1, <1>3
  <2> HIDE DEF s, to, u, w
  <2>5. /\ u \in Seq(PatternRecords) /\ Len(u) = Len(s)
        /\ RemoveAt(u, index + 1) = RemoveAt(s, index)
    BY <1>1, <2>2, <2>3, SwappedIs
  <2>6. PatternsChanged(p, w, u)
    BY <2>2, <2>5, NewPatterns
  <2>7. Clamped(to, Len(u)) = to
    <3>1. to \in 1..Len(u) /\ Len(u) \in Nat
      BY <1>1, <1>3, <2>5
    <3> QED BY <1>1, <3>1, ClampedIs
  <2>8. ChangedAt(s, u, index, Clamped(to, Len(u)))
    BY <1>1, <2>2, <2>5, <2>7, ChangesAre
  <2> QED BY <1>1, <2>1, <2>2, <2>6, <2>8, ChangeThenSelect
<1> QED
  BY <1>2, <1>3

\* A pattern is other than it was.
Replaced(s, i, e) == [s EXCEPT ![i] = e]

LEMMA PatternReplaced ==
  ASSUME NEW s \in Seq(PatternRecords), NEW i \in DOMAIN s, NEW e \in PatternRecords,
         NEW u, u = Replaced(s, i, e)
  PROVE  /\ u \in Seq(PatternRecords) /\ Len(u) = Len(s) /\ DOMAIN u = DOMAIN s
         /\ RemoveAt(u, i) = RemoveAt(s, i)
<1>1. /\ u \in Seq(PatternRecords) /\ Len(u) = Len(s)
      /\ Len(s) \in Nat /\ DOMAIN s = 1..Len(s)
  BY ExceptSeq, LenProperties DEF Replaced
<1>2. DOMAIN u = DOMAIN s /\ ButFor(u, s, i)
  BY <1>1 DEF ButFor, Replaced
<1> QED
  BY <1>1, <1>2, RemovedAlike

LEMMA TogglePatternStep ==
  ASSUME NEW p, Sound(p), NEW index, p.mode = PatternTable(index), NEW at,
         NEW q, q = TogglePattern(p, index)
  PROVE  PatternStep(p, q, at)
<1> DEFINE s == Patterns(p)
           e == [s[index] EXCEPT !.enable = ~@]
           u == [s EXCEPT ![index] = e]
<1>1. /\ p \in Popups /\ RowFits(p) /\ s \in Seq(PatternRecords) /\ Len(s) \in Nat
      /\ DOMAIN s = 1..Len(s) /\ \A i \in DOMAIN s : s[i] \in PatternRecords
  BY PatternsAre DEF PatternRecords, Sound
<1>2. p.topic = "recording" /\ p.mode.kind = "patterns" /\ p.mode.index = index
  BY DEF Sound, ModeFits, PatternTable
<1>3. CASE index \notin DOMAIN s
  <2>1. q = p
    BY <1>3 DEF TogglePattern
  <2>2. Stays(p, q)
    BY <1>1, <2>1, DraftsKept DEF Stays
  <2>3. Kept(p, q)
    BY <1>1, <2>2, StaysIsKept
  <2> QED BY <2>1, <2>3 DEF PatternStep
<1>4. CASE index \in DOMAIN s
  <2>1. e \in PatternRecords
    <3>1. s[index] \in PatternRecords
      BY <1>1, <1>4
    <3> HIDE DEF s
    <3> QED BY <3>1 DEF PatternRecords
  <2>2. q = WithPatterns(p, u)
    <3>1. q = [p EXCEPT !.draft.prefilter.patterns[index].enable = ~@]
      BY <1>4 DEF TogglePattern
    <3>2. p.draft \in Documents
      BY <1>1, PopupIs
    <3> QED BY <1>1, <3>1, <3>2 DEF WithPatterns, Patterns, Popups, Documents
  <2>3. s = Patterns(p) /\ u = Replaced(s, index, e)
    BY DEF Replaced
  <2> HIDE DEF s, e, u
  <2>4. /\ u \in Seq(PatternRecords) /\ Len(u) = Len(s) /\ DOMAIN u = DOMAIN s
        /\ RemoveAt(u, index) = RemoveAt(s, index)
    <3>1. /\ s \in Seq(PatternRecords) /\ index \in DOMAIN s /\ e \in PatternRecords
          /\ u = Replaced(s, index, e)
      BY <1>1, <1>4, <2>1, <2>3
    <3> QED BY <3>1, PatternReplaced
  <2>5. PatternsChanged(p, q, u)
    BY <1>1, <2>2, <2>4, NewPatterns
  <2>6. q.mode = p.mode /\ q.topic = p.topic /\ Patterns(q) = u /\ q \in Popups /\ RowFits(q)
    BY <1>1, <2>5 DEF PatternsChanged, RowFits
  <2>7. ModeFits(q, q.topic, q.mode)
    BY <1>2, <1>4, <2>4, <2>6 DEF ModeFits, ListFits
  <2>8. ChangedAt(s, u, at, index)
    BY <1>1, <2>4, ChangesAre
  <2> QED BY <1>2, <2>3, <2>5, <2>6, <2>7, <2>8 DEF PatternStep, PatternsChanged, Kept, Sound
<1> QED
  BY <1>3, <1>4

\* Enter in the editor of a pattern, and a click outside it.
LEMMA ApplyPatternStep ==
  ASSUME NEW p, Sound(p), p.mode.kind = "pattern", NEW q, q = ApplyPattern(p)
  PROVE  PatternStep(p, q, p.mode.index) /\ q.mode.kind = "patterns"
<1> DEFINE index == p.mode.index
           s == Patterns(p)
           e == [s[index] EXCEPT !.pattern = p.mode.glob]
           u == [s EXCEPT ![index] = e]
           w == WithPatterns(p, u)
<1>1. /\ p \in Popups /\ index \in Indices /\ p.mode.glob \in STRING /\ index \in DOMAIN s
      /\ s \in Seq(PatternRecords) /\ Len(s) \in Nat
      /\ DOMAIN s = 1..Len(s) /\ \A i \in DOMAIN s : s[i] \in PatternRecords
  BY PatternsAre, PopupIs, ModeIs DEF PatternRecords, Sound, ModeFits
<1>2. e \in PatternRecords
  <2>1. s[index] \in PatternRecords
    BY <1>1
  <2> HIDE DEF s
  <2> QED BY <1>1, <2>1 DEF PatternRecords
<1>3. q = SelectPattern(w, index)
  <2>1. p.draft \in Documents
    BY <1>1, PopupIs
  <2>2. w = [p EXCEPT !.draft.prefilter.patterns[p.mode.index].pattern = p.mode.glob]
    BY <1>1, <2>1 DEF WithPatterns, Patterns, Popups, Documents
  <2> QED BY <2>2 DEF ApplyPattern
<1>4. s = Patterns(p) /\ u = Replaced(s, index, e) /\ w = WithPatterns(p, u)
  BY DEF Replaced
<1> HIDE DEF index, s, e, u, w
<1>5. /\ u \in Seq(PatternRecords) /\ Len(u) = Len(s) /\ DOMAIN u = DOMAIN s
      /\ RemoveAt(u, index) = RemoveAt(s, index)
  <2>1. /\ s \in Seq(PatternRecords) /\ index \in DOMAIN s /\ e \in PatternRecords
        /\ u = Replaced(s, index, e)
    BY <1>1, <1>2, <1>4
  <2> QED BY <2>1, PatternReplaced
<1>6. PatternsChanged(p, w, u)
  BY <1>1, <1>4, <1>5, NewPatterns
<1>7. Clamped(index, Len(u)) = index
  <2>1. index \in Int /\ index \in 1..Len(u) /\ Len(u) \in Nat
    BY <1>1, <1>5 DEF Indices
  <2> QED BY <2>1, ClampedIs
<1>8. ChangedAt(s, u, index, Clamped(index, Len(u))) /\ index \in Int
  BY <1>1, <1>5, <1>7, ChangesAre DEF Indices
<1>9. PatternStep(p, q, index)
  BY <1>1, <1>3, <1>4, <1>6, <1>8, ChangeThenSelect
<1>10. w \in Popups
  BY <1>6 DEF PatternsChanged
<1>11. q.mode.kind = "patterns"
  <2>1. q.mode = PatternTable(Clamped(index, Len(Patterns(w))))
    BY <1>3, <1>8, <1>10, SelectPatternIs
  <2> QED BY <2>1 DEF PatternTable
<1> QED
  BY <1>9, <1>11 DEF index

LEMMA StartPatternIs ==
  ASSUME NEW p, Sound(p), p.topic = "recording", NEW index, NEW q, q = StartPattern(p, index)
  PROVE  Stays(p, q) /\ (q = p \/ q.mode.kind = "pattern")
<1>1. p \in Popups /\ RowFits(p)
  BY DEF Sound
<1>2. CASE index \notin DOMAIN Patterns(p)
  BY <1>1, <1>2, DraftsKept DEF StartPattern, Stays
<1>3. CASE index \in DOMAIN Patterns(p)
  <2> DEFINE mode == PatternEditor(index, Patterns(p)[index].pattern)
  <2>1. index \in Indices /\ Patterns(p)[index].pattern \in STRING
    BY <1>1, <1>3, PatternsAre
  <2>2. mode \in Modes
    BY <2>1, ModeOf
  <2>3. ModeFits(p, p.topic, mode) /\ mode.kind = "pattern"
    BY <1>3 DEF ModeFits, PatternEditor
  <2>4. q = [p EXCEPT !.mode = mode]
    BY <1>3 DEF StartPattern
  <2> HIDE DEF mode
  <2>5. Stays(p, q) /\ q.mode = mode
    BY <1>1, <2>2, <2>3, <2>4, ModeStays DEF MovedTo
  <2> QED BY <2>3, <2>5
<1> QED
  BY <1>2, <1>3

(***************************************************************************)
(* Rows and fields.                                                        *)
(***************************************************************************)
LEMMA AddFromRowIs ==
  ASSUME NEW p, Sound(p), p.mode.kind = "browse", NEW q, q = AddFromRow(p)
  PROVE  Kept(p, q)
<1> DEFINE w == RowsOf(p)[p.row]
<1>1. p \in Popups /\ RowFits(p)
  BY DEF Sound
<1>2. q = AddTo(p, w)
  BY <1>1, RowsOfIs DEF AddFromRow, AddAt, Widget, WidgetIn, RowFits
<1> HIDE DEF w
<1>3. CASE w = "patterns"
  <2> DEFINE n == Len(Patterns(p)) + 1
  <2>1. q = AddPattern(p, n)
    BY <1>2, <1>3 DEF AddTo, TableOf
  <2>2. n \in 1..(Len(Patterns(p)) + 1)
    BY <1>1, PatternsAre
  <2> HIDE DEF n
  <2> QED BY <1>1, <2>1, <2>2, AddPatternStep DEF PatternStep
<1>4. CASE w \in DOMAIN TableOf
  <2> DEFINE table == TableOf[w]
             n == Len(Rules(p, table)) + 1
  <2>1. w # "patterns" /\ table \in Tables
    BY <1>4 DEF TableOf, Tables
  <2>2. q = AddRuleAt(p, table, n)
    BY <1>2, <1>4, <2>1 DEF AddTo
  <2> HIDE DEF table
  <2>3. n \in Indices
    BY <1>1, <2>1, RulesAre DEF Indices
  <2> HIDE DEF n
  <2>4. Edited(p, q)
    BY <2>1, <2>2, <2>3, AddRuleIs DEF TableEdited
  <2> QED BY <1>1, <2>4, BrowseEdited DEF Edited, Kept
<1>5. CASE w \notin {"patterns"} \union DOMAIN TableOf
  <2>1. q = p
    BY <1>2, <1>5 DEF AddTo
  <2> QED BY <1>1, <2>1, DraftsKept DEF Kept
<1> QED
  BY <1>3, <1>4, <1>5

\* The user is back on the rows with another draft of the same proxy.
Drafted(p, d) == [p EXCEPT !.mode = Browse, !.draft = d]

LEMMA DraftedIs ==
  ASSUME NEW p \in Popups, RowFits(p), NEW d \in Documents, d.proxy = p.draft.proxy,
         p.draft.port # "0" => d.port # "0", NEW q, q = Drafted(p, d)
  PROVE  /\ Kept(p, q) /\ q.draft.proxy = p.draft.proxy /\ q.mode = Browse
         /\ q.topic = p.topic /\ q.row = p.row
<1>1. Browse \in Modes /\ Browse.kind = "browse"
  BY ModeOf DEF Browse
<1>2. /\ q \in Popups /\ q.visible = p.visible /\ q.original = p.original
      /\ q.topic = p.topic /\ q.row = p.row /\ q.mode = Browse /\ q.draft = d
  BY <1>1 DEF Drafted, Popups
<1>3. RowFits(q)
  BY <1>2 DEF RowFits, RowsOf
<1>4. ProxyKept(p.draft.proxy, p.draft.proxy)
  BY PopupIs, DocumentIs, NothingDone
<1> QED
  BY <1>1, <1>2, <1>3, <1>4, BrowseEdited DEF Kept, DraftKept

\* Enter in a field, and a click outside it.
FieldStep(p, q) ==
  /\ Kept(p, q) /\ q.mode.kind \in {"browse", "field"} /\ q.topic = p.topic
  /\ ActiveIsTrimmed(p.draft.proxy) /\ SameShown(p.draft.proxy, q.draft.proxy)
       => q.draft.proxy = p.draft.proxy

LEMMA FieldStays ==
  ASSUME NEW p, Sound(p), p.mode.kind = "field"
  PROVE  FieldStep(p, p)
BY DraftsKept DEF FieldStep, Kept, Sound

LEMMA ApplyFieldStep ==
  ASSUME NEW p, Sound(p), p.mode.kind = "field", NEW q, q = ApplyField(p)
  PROVE  FieldStep(p, q)
<1> DEFINE widget == p.mode.widget
           value == p.mode.value
           px == p.draft.proxy
<1>1. /\ p \in Popups /\ RowFits(p) /\ widget \in {"port", "dir", "file", "name"}
      /\ value \in Names /\ p.draft \in Documents /\ px \in Proxies
      /\ widget = "name" => Shown(px) # << >>
  BY PopupIs, ModeIs, DocumentIs DEF Sound, ModeFits
<1>2. q = ApplyValue(p, widget, value)
  BY DEF ApplyField
<1>3. value.text \in STRING
  BY <1>1 DEF Names
<1> HIDE DEF widget, value
<1>4. ASSUME NEW d \in Documents, d.proxy = px, p.draft.port # "0" => d.port # "0",
             q = Drafted(p, d)
      PROVE  FieldStep(p, q)
  BY <1>1, <1>4, DraftedIs DEF FieldStep, Browse
<1>5. CASE widget = "port"
  <2>1. CASE value.text = "0"
    <3>1. q = p
      BY <1>2, <1>5, <2>1 DEF ApplyValue
    <3> QED BY <3>1, FieldStays
  <2>2. CASE value.text # "0"
    <3> DEFINE d == [p.draft EXCEPT !.port = value.text]
    <3>1. q = [p EXCEPT !.mode = Browse, !.draft.port = value.text]
      BY <1>2, <1>5, <2>2 DEF ApplyValue
    <3>2. q = Drafted(p, d)
      BY <1>1, <3>1 DEF Drafted, Popups
    <3>3. d \in Documents /\ d.proxy = px /\ d.port # "0"
      BY <1>1, <1>3, <2>2 DEF Documents
    <3> HIDE DEF d
    <3> QED BY <1>4, <3>2, <3>3
  <2> QED BY <2>1, <2>2
<1>6. CASE widget \in {"dir", "file"}
  <2> DEFINE c == [p.draft.certificate EXCEPT ![widget] = value.text]
             d == [p.draft EXCEPT !.certificate = c]
  <2>1. q = [p EXCEPT !.mode = Browse, !.draft.certificate[widget] = value.text]
    BY <1>2, <1>6 DEF ApplyValue
  <2>2. q = Drafted(p, d)
    BY <1>1, <2>1 DEF Drafted, Popups
  <2>3. c \in [dir : STRING, file : STRING]
    BY <1>1, <1>3, <1>6, DocumentIs
  <2> HIDE DEF c
  <2>4. d \in Documents /\ d.proxy = px /\ d.port = p.draft.port
    BY <1>1, <2>3 DEF Documents
  <2> HIDE DEF d
  <2> QED BY <1>4, <2>2, <2>4
<1>7. CASE widget = "name"
  <2> DEFINE m == [op |-> "rename", newName |-> value, name |-> Shown(px)[1].name]
             b == [p EXCEPT !.mode = Browse]
             e == Edit(b, m)
             result == MutateProxy(px, m)
  <2>1. m.op = "rename" /\ IsMutation(m)
    <3>1. Shown(px)[1].name \in Names
      BY <1>1, <1>7, ShownIs
    <3> QED BY <1>1, <3>1 DEF IsMutation, MutationsOf, Ops
  <2>2. q = Renamed(p, result)
    BY <1>2, <1>7 DEF ApplyValue
  <2> HIDE DEF m
  <2>3. CASE ~result.ok
    <3>1. q = p
      BY <2>2, <2>3 DEF Renamed
    <3> QED BY <3>1, FieldStays
  <2>4. CASE result.ok
    <3>1. Stays(p, b) /\ b.mode = Browse /\ b.topic = p.topic /\ b.row = p.row /\ b \in Popups
          /\ RowFits(b)
      <4>1. Browse \in Modes /\ ModeFits(p, p.topic, Browse)
        BY ModeOf DEF ModeFits, Browse
      <4>2. b = [p EXCEPT !.mode = Browse]
        OBVIOUS
      <4> HIDE DEF b
      <4>3. Stays(p, b) /\ MovedTo(p, b, p.topic, p.row, Browse)
        BY <1>1, <4>1, <4>2, ModeStays
      <4> QED BY <4>3 DEF MovedTo, Stays, Sound
    <3>2. b.draft = p.draft
      BY <3>1 DEF Stays, SameDraft
    <3>3. q = ClampRow(e)
      <4>1. q = ClampRow([p EXCEPT !.mode = Browse, !.draft.proxy = result.proxy])
        BY <2>2, <2>4 DEF Renamed
      <4>2. e = [p EXCEPT !.mode = Browse, !.draft.proxy = result.proxy]
        BY <1>1 DEF Edit, Popups
      <4> QED BY <4>1, <4>2
    <3>4. e = Edit(b, m)
      OBVIOUS
    <3> HIDE DEF b, e
    <3>5. /\ Edited(b, e)
          /\ ActiveIsTrimmed(b.draft.proxy) /\ SameShown(b.draft.proxy, e.draft.proxy) => e = b
      BY <2>1, <3>1, <3>4, EditIs
    <3>6. q = e
      BY <3>3, <3>5, RowsOfIs DEF Edited
    <3>7. Sound(q)
      BY <3>1, <3>5, <3>6, BrowseEdited DEF Edited, Browse
    <3>8. DraftKept(p, q)
      <4>1. SameDraft(p, b) /\ DraftKept(b, q) /\ q \in Popups
        BY <3>1, <3>5, <3>6 DEF Stays, Edited
      <4> QED BY <1>1, <3>1, <4>1, DraftsKept
    <3> QED BY <3>1, <3>2, <3>5, <3>6, <3>7, <3>8 DEF FieldStep, Kept, Edited, Browse
  <2> QED BY <2>3, <2>4
<1> QED
  BY <1>1, <1>5, <1>6, <1>7

(***************************************************************************)
(* The presets.                                                            *)
(***************************************************************************)
LEMMA ActivateStep ==
  ASSUME NEW p \in Popups, RowFits(p), p.draft.proxy # << >>,
         NEW n \in Names, PresetIndex(p.draft.proxy, n) # 0,
         NEW q, q = Activated(p, Mutated(p.draft.proxy, [op |-> "activate", name |-> <<n>>]))
  PROVE  Edited(p, q)
<1> DEFINE px == p.draft.proxy
           r == Mutated(px, [op |-> "activate", name |-> <<n>>])
           qx == IF r.ok THEN r.proxy ELSE px
           e == [p EXCEPT !.draft.proxy = qx]
<1>1. px \in Proxies
  BY PopupIs, DocumentIs
<1>2. ProxyKept(px, qx)
  BY <1>1, ActivateIs
<1>3. q = IF r.ok THEN ClampRow([p EXCEPT !.draft.proxy = r.proxy]) ELSE p
  BY DEF Activated
<1>4. e = IF r.ok THEN [p EXCEPT !.draft.proxy = r.proxy] ELSE p
  BY DEF Popups, Documents
<1>5. e = [p EXCEPT !.draft.proxy = qx]
  OBVIOUS
<1> HIDE DEF r, qx, e
<1>6. ProxyChanged(p, e, qx)
  BY <1>2, <1>5, NewProxy DEF ProxyKept
<1>7. q = e
  <2>1. e \in Popups /\ RowFits(e)
    BY <1>6 DEF ProxyChanged
  <2> QED BY <1>3, <1>4, <2>1, RowsOfIs
<1> QED
  BY <1>2, <1>6, <1>7 DEF Edited, ProxyChanged, DraftKept

LEMMA CreateStep ==
  ASSUME NEW p \in Popups, RowFits(p), HasFresh(p.draft.proxy),
         NEW q, q = ActivateLast(CreateFresh(p))
  PROVE  Edited(p, q)
<1> DEFINE px == p.draft.proxy
           cx == WithCreated(px, Created(px, FreshName(px)))
           c == [p EXCEPT !.draft.proxy = cx]
           n == cx[1].presets[Len(cx[1].presets)].name
           r == Mutated(cx, [op |-> "activate", name |-> <<n>>])
           qx == IF r.ok THEN r.proxy ELSE cx
           e == [p EXCEPT !.draft.proxy = qx]
<1>1. px \in Proxies
  BY PopupIs, DocumentIs
<1>2. ProxyKept(px, qx) /\ cx \in Proxies
  BY <1>1, FreshKept
<1>3. c = CreateFresh(p) /\ c.draft.proxy = cx
  BY DEF CreateFresh, Popups, Documents
<1>4. q = IF r.ok THEN ClampRow([c EXCEPT !.draft.proxy = r.proxy]) ELSE c
  <2>1. q = Activated(c, r)
    <3> HIDE DEF cx, c
    <3> QED BY <1>3 DEF ActivateLast, Activate
  <2> QED BY <2>1 DEF Activated
<1>5. e = IF r.ok THEN [c EXCEPT !.draft.proxy = r.proxy] ELSE c
  <2> HIDE DEF cx, r
  <2> QED BY DEF Popups, Documents
<1>6. e = [p EXCEPT !.draft.proxy = qx]
  OBVIOUS
<1> HIDE DEF cx, c, r, qx, e
<1>7. ProxyChanged(p, e, qx)
  BY <1>2, <1>6, NewProxy DEF ProxyKept
<1>8. q = e
  <2>1. e \in Popups /\ RowFits(e)
    BY <1>7 DEF ProxyChanged
  <2> QED BY <1>4, <1>5, <2>1, RowsOfIs
<1> QED
  BY <1>2, <1>7, <1>8 DEF Edited, ProxyChanged, DraftKept

LEMMA CommitSelectStep ==
  ASSUME NEW p, Sound(p), NEW filter, NEW position,
         NEW item \in ItemsAt(Items(p.draft.proxy), filter, position),
         item.id = -1 => HasFresh(p.draft.proxy), NEW q, q = CommitSelect(p, item)
  PROVE  Kept(p, q) /\ q.mode = Browse
<1> DEFINE px == p.draft.proxy
           items == Items(px)
           e == CASE item.id = 0 -> p
                  [] item.id = -1 -> ActivateLast(CreateFresh(p))
                  [] OTHER -> Activate(p, item.id)
<1>1. p \in Popups /\ RowFits(p) /\ px \in Proxies
  BY PopupIs, DocumentIs DEF Sound
<1>2. \E i \in DOMAIN items : item = items[i]
  BY DEF ItemsAt, Resolved
<1>3. item.id \in {0, -1} \/ (px # << >> /\ item.id \in DOMAIN px[1].presets)
  <2>1. \A i \in DOMAIN items : \/ items[i].id \in {0, -1}
                                \/ px # << >> /\ items[i].id \in DOMAIN px[1].presets
    BY <1>1, ItemsAre
  <2> HIDE DEF items
  <2> QED BY <1>2, <2>1
<1>4. q = [e EXCEPT !.mode = Browse]
  BY DEF CommitSelect
<1>5. Edited(p, e)
  <2>1. CASE item.id = 0
    <3>1. e = p
      BY <2>1
    <3> QED BY <1>1, <3>1, DraftsKept DEF Edited
  <2>2. CASE item.id = -1
    <3>1. e = ActivateLast(CreateFresh(p))
      BY <2>2
    <3> HIDE DEF e
    <3> QED BY <1>1, <2>2, <3>1, CreateStep
  <2>3. CASE item.id \notin {0, -1}
    <3> DEFINE n == px[1].presets[item.id].name
    <3>1. e = Activate(p, item.id)
      BY <2>3
    <3>2. e = Activated(p, Mutated(px, [op |-> "activate", name |-> <<n>>]))
      BY <3>1 DEF Activate
    <3>3. px # << >> /\ item.id \in DOMAIN px[1].presets
      BY <1>3, <2>3
    <3>4. n \in Names
      BY <1>1, <3>3, ProxyIs DEF PresetRecords
    <3>5. PresetIndex(px, n) # 0
      BY <1>1, <3>3, PresetIndexIs
    <3> HIDE DEF e, n
    <3> QED BY <1>1, <3>2, <3>3, <3>4, <3>5, ActivateStep
  <2> QED BY <2>1, <2>2, <2>3
<1> HIDE DEF e
<1>6. Browse \in Modes /\ ModeFits(e, e.topic, Browse)
  BY ModeOf DEF ModeFits, Browse
<1>7. Stays(e, q) /\ q.mode = Browse
  BY <1>4, <1>5, <1>6, ModeStays DEF Edited, MovedTo
<1>8. Kept(p, q)
  BY <1>1, <1>5, <1>7, KeptThenStays DEF Edited
<1> QED
  BY <1>7, <1>8

(***************************************************************************)
(* The user goes elsewhere.                                                *)
(***************************************************************************)
LEMMA OntoStays ==
  ASSUME NEW p \in Popups, NEW focus \in {"topics", "content"}, NEW topic \in Topics,
         NEW row \in DOMAIN Widgets(topic, p.draft.proxy), NEW mode \in Modes,
         ModeFits(p, topic, mode), NEW q, q = Onto(p, focus, topic, row, mode)
  PROVE  /\ Stays(p, q) /\ q.topic = topic /\ q.mode = mode
         /\ \A t : Rules(q, t) = Rules(p, t)
<1>1. row \in Indices
  BY RowsAre DEF Indices
<1>2. MovedTo(p, q, topic, row, mode)
  BY <1>1, MovedToIs
<1>3. Sound(q)
  BY <1>2, MovedIsSound
<1> QED
  BY <1>2, <1>3 DEF MovedTo, Stays

LEMMA BrowseFits ==
  ASSUME NEW p, NEW topic
  PROVE  /\ Browse \in Modes /\ Browse.kind = "browse" /\ ModeFits(p, topic, Browse)
         /\ Unsaved \in Modes /\ Unsaved.kind = "unsaved" /\ ModeFits(p, topic, Unsaved)
BY ModeOf DEF Browse, Unsaved, ModeFits

LEMMA SelectTopicIs ==
  ASSUME NEW p \in Popups, NEW topic \in Topics, NEW focus \in {"topics", "content"},
         NEW q, q = Onto(p, focus, topic, 1, Browse)
  PROVE  Stays(p, q) /\ q.mode.kind = "browse"
<1>1. 1 \in DOMAIN Widgets(topic, p.draft.proxy)
  BY RowsAre DEF Indices
<1> QED
  BY <1>1, BrowseFits, OntoStays

LEMMA FocusContentRowIs ==
  ASSUME NEW p \in Popups, NEW row \in DOMAIN RowsOf(p), NEW q, q = FocusContentRow(p, row)
  PROVE  /\ Stays(p, q) /\ q.mode.kind = "browse" /\ q.topic = p.topic
         /\ \A t : Rules(q, t) = Rules(p, t)
<1>1. q = Onto(p, "content", p.topic, row, Browse)
  BY DEF FocusContentRow, Onto, Popups
<1>2. p.topic \in Topics /\ row \in DOMAIN Widgets(p.topic, p.draft.proxy)
  BY PopupIs DEF RowsOf
<1>3. Browse \in Modes /\ Browse.kind = "browse" /\ ModeFits(p, p.topic, Browse)
  BY BrowseFits
<1>4. /\ Stays(p, q) /\ q.topic = p.topic /\ q.mode = Browse
      /\ \A t : Rules(q, t) = Rules(p, t)
  BY <1>1, <1>2, <1>3, OntoStays
<1> QED
  BY <1>3, <1>4

LEMMA FocusIs ==
  ASSUME NEW p, Sound(p), NEW focus \in {"topics", "content"}, NEW q, q = [p EXCEPT !.focus = focus]
  PROVE  Stays(p, q) /\ q.mode = p.mode
<1>1. p \in Popups /\ RowFits(p) /\ ModeFits(p, p.topic, p.mode)
  BY DEF Sound
<1>2. q = Onto(p, focus, p.topic, p.row, p.mode)
  BY <1>1 DEF Onto, Popups
<1>3. p.topic \in Topics /\ p.mode \in Modes /\ p.row \in DOMAIN Widgets(p.topic, p.draft.proxy)
  BY <1>1, PopupIs DEF RowFits, RowsOf
<1> DEFINE topic == p.topic
           row == p.row
           mode == p.mode
<1>4. /\ p \in Popups /\ topic \in Topics /\ row \in DOMAIN Widgets(topic, p.draft.proxy)
      /\ mode \in Modes /\ ModeFits(p, topic, mode) /\ q = Onto(p, focus, topic, row, mode)
  BY <1>1, <1>2, <1>3
<1> HIDE DEF topic, row, mode
<1>5. \A t \in Topics, m \in Modes : \A i \in DOMAIN Widgets(t, p.draft.proxy) :
        ModeFits(p, t, m) => /\ Stays(p, Onto(p, focus, t, i, m))
                             /\ Onto(p, focus, t, i, m).mode = m
  BY <1>4, OntoStays
<1>6. Stays(p, q) /\ q.mode = mode
  BY <1>4, <1>5
<1> QED
  BY <1>6 DEF mode

LEMMA NavigatedIs ==
  ASSUME NEW p, Sound(p), p.mode.kind = "browse", NEW q \in Navigated(p)
  PROVE  Stays(p, q) /\ q.mode.kind = "browse"
<1>1. p \in Popups /\ RowFits(p) /\ ModeFits(p, p.topic, p.mode)
      /\ p.topic \in Topics /\ p.mode \in Modes /\ p.focus \in {"topics", "content"} /\ p.row \in Indices
  BY PopupIs DEF Sound
<1>2. CASE \E focus \in {"topics", "content"} : q = [p EXCEPT !.focus = focus]
  BY <1>2, FocusIs
<1>3. ASSUME NEW step \in {1, -1}, q = MoveRow(p, step)
      PROVE  Stays(p, q) /\ q.mode.kind = "browse"
  <2>0. step \in Int
    OBVIOUS
  <2>1. CASE p.focus = "topics"
    <3> DEFINE i == SelectInSeq(TopicOrder, LAMBDA topic : topic = p.topic)
               k == ((i - 1 + step) % 5) + 1
    <3>1. i \in Int
      <4> DEFINE I == {j \in 1..Len(TopicOrder) : TopicOrder[j] = p.topic}
      <4>1. i = IF I # {} THEN Min(I) ELSE 0
        BY DEF SelectInSeq
      <4>2. I \in SUBSET (1..Len(TopicOrder)) /\ Len(TopicOrder) \in Nat
        BY DEF TopicOrder
      <4> HIDE DEF I, i
      <4>3. I # {} => Min(I) \in 1..Len(TopicOrder)
        BY <4>2, LeastPlace
      <4> QED BY <4>1, <4>2, <4>3
    <3>2. q = SelectTopic(p, TopicOrder[k])
      BY <1>3, <2>1 DEF MoveRow, NextTopic
    <3> HIDE DEF i
    <3>3. k \in 1..5
      BY <2>0, <3>1
    <3> HIDE DEF k
    <3>4. TopicOrder[k] \in Topics
      BY <3>3, TopicsAre DEF TopicOrder
    <3>5. q = Onto(p, p.focus, TopicOrder[k], 1, Browse)
      BY <1>1, <3>2 DEF SelectTopic, Onto, Popups
    <3> QED BY <1>1, <3>4, <3>5, SelectTopicIs
  <2>2. CASE p.focus # "topics"
    <3> DEFINE count == Len(RowsOf(p))
               low == Min({p.row, count})
               row == Clamped(low + step, count)
    <3>1. count \in Indices /\ count \in Int /\ p.row \in Int
      BY <1>1, RowsOfIs DEF Indices
    <3>2. low \in Int
      <4> HIDE DEF count
      <4> QED BY <3>1, MaxMin
    <3>3. row \in 1..count
      <4> HIDE DEF low, count
      <4>1. low + step \in Int /\ count \in Nat /\ count # 0
        BY <2>0, <3>1, <3>2 DEF Indices
      <4> QED BY <4>1, ClampedIs
    <3>4. q = [p EXCEPT !.row = row]
      BY <1>3, <2>2 DEF MoveRow, MoveWithin
    <3>5. row \in DOMAIN Widgets(p.topic, p.draft.proxy)
      <4> HIDE DEF row
      <4> QED BY <1>1, <3>3, RowsOfIs DEF RowsOf
    <3> HIDE DEF row
    <3>6. q = Onto(p, p.focus, p.topic, row, p.mode)
      BY <1>1, <3>4 DEF Onto, Popups
    <3> DEFINE focus == p.focus
               topic == p.topic
               mode == p.mode
    <3>7. /\ p \in Popups /\ focus \in {"topics", "content"} /\ topic \in Topics
          /\ row \in DOMAIN Widgets(topic, p.draft.proxy) /\ mode \in Modes
          /\ ModeFits(p, topic, mode) /\ q = Onto(p, focus, topic, row, mode)
      BY <1>1, <3>5, <3>6
    <3> HIDE DEF focus, topic, mode
    <3>8. Stays(p, q) /\ q.mode = mode
      BY <3>7, OntoStays
    <3> QED BY <3>8 DEF mode
  <2> QED BY <2>1, <2>2
<1> QED
  BY <1>2, <1>3 DEF Navigated

LEMMA RowOfIs ==
  ASSUME NEW p \in Popups, p.topic = "proxy", Shown(p.draft.proxy) # << >>,
         NEW widget \in DOMAIN TableOf
  PROVE  RowOf(widget, p) \in DOMAIN RowsOf(p)
<1> DEFINE rows == RowsOf(p)
           I == {j \in 1..Len(rows) : rows[j] = widget}
<1>1. rows = <<"preset", "name", "enable", "enable_remote", "remote_rules",
               "enable_local", "local_rules">>
  BY DEF RowsOf, Widgets
<1>2. RowOf(widget, p) = IF I # {} THEN Min(I) ELSE 0
  BY DEF RowOf, SelectInSeq
<1>3. widget \in {"remote_rules", "local_rules"}
  BY DEF TableOf
<1> HIDE DEF rows
<1>4. Len(rows) = 7 /\ DOMAIN rows = 1..7 /\ rows[5] = "remote_rules" /\ rows[7] = "local_rules"
  BY <1>1
<1>5. I # {} /\ I \in SUBSET (1..7)
  BY <1>3, <1>4
<1> HIDE DEF I
<1>6. Min(I) \in I
  BY <1>5, LeastPlace
<1> QED
  BY <1>2, <1>4, <1>5, <1>6 DEF rows

(***************************************************************************)
(* What a key or a click does.                                             *)
(***************************************************************************)
\* The cursor goes where the rule or pattern is that was changed.
Follows(p, q) ==
  /\ p.mode.kind \in {"rules", "rule"} /\ q.mode.kind = "rules" /\ p.mode.table = q.mode.table
       => LET table == Rules(p, p.mode.table)
              next == Rules(q, p.mode.table) IN
          next # table => ChangedAt(table, next, p.mode.index, q.mode.index)
  /\ p.mode.kind = "patterns" /\ q.mode.kind = "patterns" /\ Patterns(q) # Patterns(p)
       => ChangedAt(Patterns(p), Patterns(q), p.mode.index, q.mode.index)

UserStep(p, q) == Kept(p, q) /\ Follows(p, q)

LEMMA StepsOfTheUser ==
  /\ \A p \in Popups : \A q : Stays(p, q) => UserStep(p, q)
  /\ \A p, q : Kept(p, q) /\ p.mode.kind \notin {"rules", "rule", "patterns"} => UserStep(p, q)
  /\ \A p, q : Kept(p, q) /\ q.mode.kind \notin {"rules", "patterns"} => UserStep(p, q)
  /\ \A p, q : RuleStep(p, q, p.mode.table, p.mode.index) /\ p.mode.kind \in {"rules", "rule"}
                 => UserStep(p, q)
  /\ \A p, q : PatternStep(p, q, p.mode.index) /\ p.mode.kind \in {"patterns", "pattern"}
                 => UserStep(p, q)
<1>1. ASSUME NEW p \in Popups, NEW q, Stays(p, q) PROVE UserStep(p, q)
  <2>1. Kept(p, q)
    BY <1>1, StaysIsKept
  <2>2. Patterns(q) = Patterns(p) /\ \A t : Rules(q, t) = Rules(p, t)
    BY <1>1 DEF Stays, SameDraft, Rules, Patterns
  <2> QED BY <2>1, <2>2 DEF UserStep, Follows
<1>2. ASSUME NEW p, NEW q, Kept(p, q), p.mode.kind \notin {"rules", "rule", "patterns"}
      PROVE  UserStep(p, q)
  BY <1>2 DEF UserStep, Follows
<1>3. ASSUME NEW p, NEW q, Kept(p, q), q.mode.kind \notin {"rules", "patterns"}
      PROVE  UserStep(p, q)
  BY <1>3 DEF UserStep, Follows
<1>4. ASSUME NEW p, NEW q, RuleStep(p, q, p.mode.table, p.mode.index),
             p.mode.kind \in {"rules", "rule"}
      PROVE  UserStep(p, q)
  BY <1>4 DEF UserStep, Follows, RuleStep
<1>5. ASSUME NEW p, NEW q, PatternStep(p, q, p.mode.index), p.mode.kind \in {"patterns", "pattern"}
      PROVE  UserStep(p, q)
  BY <1>5 DEF UserStep, Follows, PatternStep
<1> QED
  BY <1>1, <1>2, <1>3, <1>4, <1>5

LEMMA StepsAre ==
  ASSUME NEW index \in Int, NEW count \in Int, NEW to \in Steps(index, count)
  PROVE  to \in Int
<1> DEFINE end == index + PageRows
<1>1. PageRows \in Nat /\ end \in Int
  BY EditorAssumption
<1>2. to \in {index - 1, index + 1, index - PageRows, Min({end, count})}
  BY DEF Steps
<1> HIDE DEF end
<1>3. Min({end, count}) \in {end, count}
  BY <1>1, MaxMin
<1> QED
  BY <1>1, <1>2, <1>3

LEMMA RuleKeyStep ==
  ASSUME Sound(popup), RuleKey
  PROVE  UserStep(popup, popup')
<1> DEFINE table == popup.mode.table
           index == popup.mode.index
<1>1. popup \in Popups /\ RowFits(popup) /\ popup.mode.kind = "rules"
  BY DEF Sound, RuleKey, In
<1>2. popup.mode = RuleTable(table, index) /\ table \in Tables /\ index \in Indices /\ index \in Int
  BY <1>1, PopupIs, ModeIs DEF Indices
<1>3. \/ popup' = StartRule(popup, table, index)
      \/ popup' = ToggleRule(popup, table, index)
      \/ popup' = AddRule(popup, table, index)
      \/ popup' = RemoveRule(popup, table, index)
      \/ popup' = ShiftRule(popup, table, index, index + 1)
      \/ popup' = ShiftRule(popup, table, index, index - 1)
      \/ \E to \in Steps(index, Len(Rules(popup, table))) : popup' = SelectRule(popup, table, to)
  BY DEF RuleKey
<1>4. \A to \in Steps(index, Len(Rules(popup, table))) : to \in Int
  <2> DEFINE count == Len(Rules(popup, table))
  <2>1. count \in Int
    BY <1>1, <1>2, RulesAre
  <2> HIDE DEF count, index
  <2>2. \A to \in Steps(index, count) : to \in Int
    BY <1>2, <2>1, StepsAre
  <2> QED BY <2>2 DEF count
<1> HIDE DEF table, index
<1>5. CASE popup' = StartRule(popup, table, index)
  BY <1>1, <1>2, <1>5, StartRuleIs, StepsOfTheUser
<1>6. ASSUME RuleStep(popup, popup', table, index) PROVE UserStep(popup, popup')
  <2>1. RuleStep(popup, popup', popup.mode.table, popup.mode.index)
    BY <1>6 DEF table, index
  <2> QED BY <1>1, <2>1, StepsOfTheUser
<1>7. CASE popup' = ToggleRule(popup, table, index)
  BY <1>2, <1>6, <1>7, ToggleRuleStep
<1>8. CASE popup' = AddRule(popup, table, index)
  BY <1>2, <1>6, <1>8, AddRuleStep
<1>9. CASE popup' = RemoveRule(popup, table, index)
  BY <1>2, <1>6, <1>9, RemoveRuleStep
<1>10. CASE popup' = ShiftRule(popup, table, index, index + 1)
  BY <1>2, <1>6, <1>10, ShiftRuleStep
<1>11. CASE popup' = ShiftRule(popup, table, index, index - 1)
  BY <1>2, <1>6, <1>11, ShiftRuleStep
<1>12. CASE \E to \in Steps(index, Len(Rules(popup, table))) : popup' = SelectRule(popup, table, to)
  <2>1. PICK to \in Int : popup' = SelectRule(popup, table, to)
    BY <1>4, <1>12
  <2>2. Stays(popup, popup')
    BY <1>1, <1>2, <2>1, SelectRuleIs
  <2> QED BY <1>1, <2>2, StepsOfTheUser
<1> QED
  BY <1>3, <1>5, <1>7, <1>8, <1>9, <1>10, <1>11, <1>12

LEMMA PatternKeyStep ==
  ASSUME Sound(popup), PatternKey
  PROVE  UserStep(popup, popup')
<1> DEFINE index == popup.mode.index
           count == Len(Patterns(popup))
           after == IF count = 0 THEN 1 ELSE Min({index + 1, count + 1})
<1>1. /\ popup \in Popups /\ RowFits(popup) /\ popup.mode.kind = "patterns"
      /\ popup.topic = "recording" /\ ListFits(index, Patterns(popup))
  BY DEF Sound, ModeFits, PatternKey, In
<1>2. /\ popup.mode = PatternTable(index) /\ index \in Indices /\ index \in Int /\ index >= 1
      /\ count \in Nat
  BY <1>1, PopupIs, ModeIs, PatternsAre DEF Indices
<1>3. \/ popup' = StartPattern(popup, index)
      \/ popup' = TogglePattern(popup, index)
      \/ popup' = AddPattern(popup, after)
      \/ popup' = RemovePattern(popup, index)
      \/ popup' = LowerPattern(popup, index)
      \/ popup' = RaisePattern(popup, index)
      \/ \E to \in Steps(index, count) : popup' = SelectPattern(popup, to)
  BY DEF PatternKey
<1> HIDE DEF index, count
<1>4. \A to \in Steps(index, count) : to \in Int
  BY <1>2, StepsAre
<1>5. after \in 1..(count + 1)
  <2>1. index + 1 \in Int /\ count + 1 \in Int
    BY <1>2
  <2>2. Min({index + 1, count + 1}) = IF index + 1 <= count + 1 THEN index + 1 ELSE count + 1
    BY <2>1, MaxMin
  <2> QED BY <1>2, <2>2
<1> HIDE DEF after
<1>6. ASSUME PatternStep(popup, popup', index) PROVE UserStep(popup, popup')
  <2>1. PatternStep(popup, popup', popup.mode.index)
    BY <1>6 DEF index
  <2> QED BY <1>1, <2>1, StepsOfTheUser
<1>7. CASE popup' = StartPattern(popup, index)
  BY <1>1, <1>7, StartPatternIs, StepsOfTheUser
<1>8. CASE popup' = TogglePattern(popup, index)
  BY <1>2, <1>6, <1>8, TogglePatternStep
<1>9. CASE popup' = AddPattern(popup, after)
  BY <1>1, <1>5, <1>6, <1>9, AddPatternStep DEF count
<1>10. CASE popup' = RemovePattern(popup, index)
  BY <1>1, <1>2, <1>6, <1>10, RemovePatternStep
<1>11. CASE popup' = LowerPattern(popup, index)
  BY <1>1, <1>2, <1>6, <1>11, LowerPatternStep
<1>12. CASE popup' = RaisePattern(popup, index)
  BY <1>1, <1>2, <1>6, <1>12, RaisePatternStep
<1>13. CASE \E to \in Steps(index, count) : popup' = SelectPattern(popup, to)
  <2>1. PICK to \in Int : popup' = SelectPattern(popup, to)
    BY <1>4, <1>13
  <2>2. Stays(popup, popup')
    BY <1>1, <2>1, SelectPatternIs
  <2> QED BY <1>1, <2>2, StepsOfTheUser
<1> QED
  BY <1>3, <1>7, <1>8, <1>9, <1>10, <1>11, <1>12, <1>13

\* A mode that fits takes the place of another.
LEMMA NextMode ==
  ASSUME NEW p, Sound(p), NEW mode \in Modes, ModeFits(p, p.topic, mode),
         NEW q, q = [p EXCEPT !.mode = mode]
  PROVE  UserStep(p, q) /\ Stays(p, q) /\ q.mode = mode
<1>1. p \in Popups /\ RowFits(p)
  BY DEF Sound
<1>2. Stays(p, q) /\ q.mode = mode
  BY <1>1, ModeStays DEF MovedTo
<1> QED
  BY <1>1, <1>2, StepsOfTheUser

LEMMA EscapeIs ==
  ASSUME NEW p, Sound(p), NEW q, q = Escape(p)
  PROVE  (Stays(p, q) /\ UserStep(p, q)) \/ q = Closed
<1>1. q = [p EXCEPT !.mode = Unsaved] \/ q = Closed
  BY DEF Escape
<1>2. Unsaved \in Modes /\ ModeFits(p, p.topic, Unsaved)
  BY BrowseFits
<1>3. CASE q = [p EXCEPT !.mode = Unsaved]
  BY <1>2, <1>3, NextMode
<1> QED
  BY <1>1, <1>3

LEMMA RowKeysStep ==
  ASSUME Sound(popup), BrowseMove \/ EnterRow \/ RowKey \/ EscapeKey
  PROVE  UserStep(popup, popup') \/ popup' = Closed
<1>1. popup \in Popups /\ popup.mode.kind = "browse"
  BY DEF Sound, BrowseMove, EnterRow, RowKey, EscapeKey, In
<1>2. CASE BrowseMove
  <2>1. popup' \in Navigated(popup)
    BY <1>2 DEF BrowseMove
  <2> QED BY <1>1, <2>1, NavigatedIs, StepsOfTheUser
<1>3. CASE EnterRow
  <2>1. popup' = [popup EXCEPT !.focus = "content"] \/ popup' = StartEdit(popup)
    BY <1>3 DEF EnterRow
  <2>2. Stays(popup, popup')
    <3>1. CASE popup' = [popup EXCEPT !.focus = "content"]
      BY <3>1, FocusIs
    <3>2. CASE popup' = StartEdit(popup)
      BY <3>2, StartWidgetIs
    <3> QED BY <2>1, <3>1, <3>2
  <2> QED BY <1>1, <2>2, StepsOfTheUser
<1>4. CASE RowKey
  <2>1. popup' = ToggleRow(popup) \/ popup' = AddFromRow(popup)
    BY <1>4 DEF RowKey
  <2>2. Kept(popup, popup')
    BY <1>1, <2>1, ToggleWidgetIs, AddFromRowIs
  <2> QED BY <1>1, <2>2, StepsOfTheUser
<1>5. CASE EscapeKey
  BY <1>5, EscapeIs DEF EscapeKey
<1> QED
  BY <1>2, <1>3, <1>4, <1>5

LEMMA EditorKeysStep ==
  ASSUME Sound(popup), TypeRule \/ EndRule \/ TypePattern \/ EndPattern \/ TypeField \/ EndField
  PROVE  UserStep(popup, popup')
<1> DEFINE mode == popup.mode
<1>1. /\ popup \in Popups /\ RowFits(popup) /\ mode \in Modes
      /\ ModeFits(popup, popup.topic, mode)
  BY PopupIs DEF Sound
<1>2. CASE TypeRule
  <2>1. mode.kind = "rule"
    BY <1>2 DEF TypeRule, In
  <2>2. PICK typed \in TypedTexts, field \in {"from", "to"} : popup' = [popup EXCEPT !.mode[field] = typed]
    BY <1>2 DEF TypeRule
  <2> DEFINE next == [mode EXCEPT ![field] = typed]
  <2>3. /\ mode = RuleEditor(mode.table, mode.index, mode.from, mode.to)
        /\ mode.table \in Tables /\ mode.index \in Indices /\ mode.from \in RuleTexts
        /\ mode.to \in RuleTexts /\ typed \in RuleTexts
    BY <1>1, <2>1, ModeIs, EditorAssumption
  <2>4. next = RuleEditor(mode.table, mode.index, IF field = "from" THEN typed ELSE mode.from,
                          IF field = "to" THEN typed ELSE mode.to)
    <3> DEFINE a == mode.table
               i == mode.index
               b == mode.from
               c == mode.to
    <3>1. next = [RuleEditor(a, i, b, c) EXCEPT ![field] = typed]
      BY <2>3
    <3> HIDE DEF next, a, i, b, c
    <3>2. next = RuleEditor(a, i, IF field = "from" THEN typed ELSE b,
                            IF field = "to" THEN typed ELSE c)
      BY <3>1 DEF RuleEditor
    <3> QED BY <3>2 DEF a, i, b, c
  <2>5. next \in Modes /\ next.kind = "rule" /\ next.table = mode.table /\ next.index = mode.index
    <3> HIDE DEF next
    <3> QED BY <2>3, <2>4, ModeOf DEF RuleEditor
  <2>6. ModeFits(popup, popup.topic, next)
    <3> HIDE DEF next
    <3> QED BY <1>1, <2>1, <2>5 DEF ModeFits
  <2>7. popup' = [popup EXCEPT !.mode = next]
    BY <1>1, <2>2 DEF Popups
  <2> HIDE DEF next
  <2> QED BY <2>5, <2>6, <2>7, NextMode
<1>3. CASE EndRule
  <2>1. mode.kind = "rule"
    BY <1>3 DEF EndRule, In
  <2>2. CASE popup' = ApplyRule(popup)
    BY <2>1, <2>2, ApplyRuleStep, StepsOfTheUser
  <2>3. CASE popup' = SelectRule(popup, mode.table, mode.index)
    <3>1. mode.table \in Tables /\ mode.index \in Int
      BY <1>1, <2>1, ModeIs DEF Indices
    <3>2. Stays(popup, popup')
      BY <1>1, <2>3, <3>1, SelectRuleIs
    <3> QED BY <1>1, <3>2, StepsOfTheUser
  <2> QED BY <1>3, <2>2, <2>3 DEF EndRule
<1>4. CASE TypePattern
  <2>1. mode.kind = "pattern"
    BY <1>4 DEF TypePattern, In
  <2>2. PICK glob \in Globs : popup' = [popup EXCEPT !.mode.glob = glob]
    BY <1>4 DEF TypePattern
  <2> DEFINE next == [mode EXCEPT !.glob = glob]
  <2>3. mode = PatternEditor(mode.index, mode.glob) /\ mode.index \in Indices /\ glob \in STRING
    BY <1>1, <2>1, ModeIs, EditorAssumption
  <2>4. next = PatternEditor(mode.index, glob)
    <3> DEFINE i == mode.index
               b == mode.glob
    <3>1. next = [PatternEditor(i, b) EXCEPT !.glob = glob]
      BY <2>3
    <3> HIDE DEF next, i, b
    <3>2. next = PatternEditor(i, glob)
      BY <3>1 DEF PatternEditor
    <3> QED BY <3>2 DEF i
  <2>5. next \in Modes /\ next.kind = "pattern" /\ next.index = mode.index
    <3> HIDE DEF next
    <3> QED BY <2>3, <2>4, ModeOf DEF PatternEditor
  <2>6. ModeFits(popup, popup.topic, next)
    <3> HIDE DEF next
    <3> QED BY <1>1, <2>1, <2>5 DEF ModeFits
  <2>7. popup' = [popup EXCEPT !.mode = next]
    BY <1>1, <2>2 DEF Popups
  <2> HIDE DEF next
  <2> QED BY <2>5, <2>6, <2>7, NextMode
<1>5. CASE EndPattern
  <2>1. mode.kind = "pattern"
    BY <1>5 DEF EndPattern, In
  <2>2. CASE popup' = ApplyPattern(popup)
    BY <2>1, <2>2, ApplyPatternStep, StepsOfTheUser
  <2>3. CASE popup' = SelectPattern(popup, mode.index)
    <3>1. mode.index \in Int
      BY <1>1, <2>1, ModeIs DEF Indices
    <3>2. Stays(popup, popup')
      BY <1>1, <2>3, <3>1, SelectPatternIs
    <3> QED BY <1>1, <3>2, StepsOfTheUser
  <2> QED BY <1>5, <2>2, <2>3 DEF EndPattern
<1>6. CASE TypeField
  <2>1. mode.kind = "field"
    BY <1>6 DEF TypeField, In
  <2>2. PICK value \in FieldValues(mode.widget) : popup' = [popup EXCEPT !.mode.value = value]
    BY <1>6 DEF TypeField
  <2> DEFINE next == [mode EXCEPT !.value = value]
  <2>3. /\ mode = Field(mode.widget, mode.value)
        /\ mode.widget \in {"port", "dir", "file", "name"}
    BY <1>1, <2>1, ModeIs
  <2>v. value \in Names
    <3>1. \A typed \in STRING : Plain(typed) \in Names
      BY DEF Plain, Names
    <3>2. TypedNames \subseteq Names /\ Ports \subseteq STRING /\ Words \subseteq STRING
      BY EditorAssumption
    <3>3. CASE mode.widget = "port"
      BY <2>2, <3>1, <3>2, <3>3 DEF FieldValues
    <3>4. CASE mode.widget \in {"dir", "file"}
      BY <2>2, <3>1, <3>2, <3>4 DEF FieldValues
    <3>5. CASE mode.widget = "name"
      BY <2>2, <3>2, <3>5 DEF FieldValues
    <3> QED BY <2>3, <3>3, <3>4, <3>5
  <2>4. next = Field(mode.widget, value)
    <3> DEFINE w == mode.widget
               b == mode.value
    <3>1. next = [Field(w, b) EXCEPT !.value = value]
      BY <2>3
    <3> HIDE DEF next, w, b
    <3>2. next = Field(w, value)
      BY <3>1 DEF Field
    <3> QED BY <3>2 DEF w
  <2>5. next \in Modes /\ next.kind = "field" /\ next.widget = mode.widget
    <3> HIDE DEF next
    <3> QED BY <2>3, <2>4, <2>v, ModeOf DEF Field
  <2>6. ModeFits(popup, popup.topic, next)
    <3> HIDE DEF next
    <3> QED BY <1>1, <2>1, <2>5 DEF ModeFits
  <2>7. popup' = [popup EXCEPT !.mode = next]
    BY <1>1, <2>2 DEF Popups
  <2> HIDE DEF next
  <2> QED BY <2>5, <2>6, <2>7, NextMode
<1>7. CASE EndField
  <2>1. mode.kind = "field" /\ popup' = ApplyField(popup)
    BY <1>7 DEF EndField, In
  <2> QED BY <2>1, ApplyFieldStep, StepsOfTheUser DEF FieldStep
<1> QED
  BY <1>2, <1>3, <1>4, <1>5, <1>6, <1>7

LEMMA SelectKeysStep ==
  ASSUME Sound(popup), SelectKey \/ CommitOption \/ Leave \/ DialogKey
  PROVE  UserStep(popup, popup') \/ popup' = Closed
<1>1. popup \in Popups /\ popup.draft.proxy \in Proxies /\ popup.mode \in Modes
  BY PopupIs, DocumentIs DEF Sound
<1>2. CASE SelectKey
  <2> DEFINE box == popup.mode.box
             items == Items(popup.draft.proxy)
  <2>1. popup.mode.kind = "select"
    BY <1>2 DEF SelectKey, In
  <2>2. PICK next \in SelectMoves(box, items) : popup' = [popup EXCEPT !.mode = Selecting(next)]
    BY <1>2 DEF SelectKey
  <2>3. BoxFits(box, items) /\ items = Items(popup.draft.proxy)
    BY <1>1, <2>1, ModeIs DEF Sound, ModeFits, BoxFits
  <2> HIDE DEF box, items
  <2>4. BoxFits(next, items)
    BY <1>1, <2>2, <2>3, SelectMovesFit
  <2> DEFINE mode == Selecting(next)
  <2>5. mode \in Modes /\ ModeFits(popup, popup.topic, mode)
    BY <2>3, <2>4, ModeOf DEF BoxFits, ModeFits, Selecting
  <2>6. popup' = [popup EXCEPT !.mode = mode]
    BY <2>2
  <2> HIDE DEF mode
  <2> QED BY <2>5, <2>6, NextMode
<1>3. CASE CommitOption
  <2> DEFINE items == Items(popup.draft.proxy)
             filter == popup.mode.box.filter
  <2>0. \E position : \E item \in ItemsAt(items, filter, position) :
          /\ item.id = -1 => HasFresh(popup.draft.proxy)
          /\ popup' = CommitSelect(popup, item)
    BY <1>3 DEF CommitOption
  <2>p. PICK position : \E item \in ItemsAt(items, filter, position) :
          /\ item.id = -1 => HasFresh(popup.draft.proxy)
          /\ popup' = CommitSelect(popup, item)
    BY <2>0
  <2>1. PICK item \in ItemsAt(items, filter, position) :
          /\ item.id = -1 => HasFresh(popup.draft.proxy)
          /\ popup' = CommitSelect(popup, item)
    BY <2>p
  <2>2. Kept(popup, popup') /\ popup'.mode = Browse
    BY <2>1, CommitSelectStep
  <2> QED BY <2>2, BrowseFits, StepsOfTheUser
<1>4. CASE Leave
  <2>1. popup' = [popup EXCEPT !.mode = Browse]
    BY <1>4 DEF Leave
  <2> QED BY <2>1, BrowseFits, NextMode
<1>5. CASE DialogKey
  <2>1. popup' = [popup EXCEPT !.mode = Browse] \/ popup' = Closed
    BY <1>5 DEF DialogKey
  <2>2. CASE popup' = [popup EXCEPT !.mode = Browse]
    BY <2>2, BrowseFits, NextMode
  <2> QED BY <2>1, <2>2
<1> QED
  BY <1>2, <1>3, <1>4, <1>5

LEMMA KeyStep ==
  ASSUME Sound(popup), Key
  PROVE  UserStep(popup, popup') \/ popup' = Closed
BY RowKeysStep, RuleKeyStep, PatternKeyStep, EditorKeysStep, SelectKeysStep DEF Key

\* A click first applies what is edited, in a field or a pattern.
Settling(p, s) ==
  /\ Kept(p, s)
  /\ ActiveIsTrimmed(p.draft.proxy) /\ SameShown(p.draft.proxy, s.draft.proxy)
       => s.draft.proxy = p.draft.proxy
  /\ p.mode.kind \notin {"field", "pattern"} => s = p
  /\ s.topic = p.topic

LEMMA SettledIs ==
  ASSUME NEW p, Sound(p), NEW s, s = Settled(p)
  PROVE  Settling(p, s)
<1>1. p \in Popups
  BY DEF Sound
<1>2. CASE p.mode.kind = "field"
  <2>1. s = ApplyField(p)
    BY <1>2 DEF Settled
  <2> QED BY <1>2, <2>1, ApplyFieldStep DEF FieldStep, Settling
<1>3. CASE p.mode.kind = "pattern"
  <2>1. s = ApplyPattern(p)
    BY <1>3 DEF Settled
  <2>2. PatternStep(p, s, p.mode.index) /\ s.mode.kind = "patterns"
    BY <1>3, <2>1, ApplyPatternStep
  <2>3. p.topic = "recording" /\ s.topic = "recording"
    BY <1>3, <2>2 DEF PatternStep, Kept, Sound, ModeFits
  <2> QED BY <1>3, <2>2, <2>3 DEF PatternStep, Settling
<1>4. CASE p.mode.kind \notin {"field", "pattern"}
  <2>1. s = p
    BY <1>4 DEF Settled
  <2> QED BY <1>1, <2>1, DraftsKept DEF Settling, Kept
<1> QED
  BY <1>2, <1>3, <1>4

\* Then it does what it is for, and no preset is added, removed or renamed.
Clicking(s, q) == UserStep(s, q) /\ SameShown(s.draft.proxy, q.draft.proxy)

LEMMA SettleThenClick ==
  ASSUME NEW p, Sound(p), NEW s, Settling(p, s), NEW q, Clicking(s, q)
  PROVE  UserStep(p, q)
<1> DEFINE px == p.draft.proxy
           sx == s.draft.proxy
           qx == q.draft.proxy
<1>1. /\ Sound(q) /\ DraftKept(p, s) /\ DraftKept(s, q) /\ Follows(s, q)
      /\ SameShown(sx, qx)
      /\ ActiveIsTrimmed(px) /\ SameShown(px, sx) => sx = px
      /\ p.mode.kind \notin {"field", "pattern"} => s = p
  BY DEF Settling, Clicking, UserStep, Kept
<1>2. ProxyKept(px, sx) /\ ProxyKept(sx, qx)
  BY <1>1 DEF DraftKept
<1>3. ASSUME ActiveIsTrimmed(px), View(qx) = View(px)
      PROVE  qx = px
  <2>1. SameShown(px, qx)
    BY <1>3, LooksShown
  <2>2. SameShown(px, sx)
    BY <1>1, <2>1 DEF SameShown
  <2>3. sx = px
    BY <1>1, <1>3, <2>2
  <2> QED BY <1>2, <1>3, <2>3 DEF ProxyKept
<1>4. ProxyKept(px, qx)
  BY <1>2, <1>3 DEF ProxyKept
<1>5. DraftKept(p, q)
  BY <1>1, <1>4 DEF DraftKept
<1>6. Follows(p, q)
  BY <1>1 DEF Follows
<1> QED
  BY <1>1, <1>5, <1>6 DEF UserStep, Kept

LEMMA StaysIsClick ==
  ASSUME NEW s \in Popups, NEW q, Stays(s, q)
  PROVE  Clicking(s, q)
<1>1. UserStep(s, q)
  BY StepsOfTheUser
<1>2. q.draft = s.draft
  BY DEF Stays, SameDraft
<1> QED
  BY <1>1, <1>2 DEF Clicking, SameShown

LEMMA StaysTwice ==
  ASSUME NEW s \in Popups, NEW a, Stays(s, a), NEW q, Stays(a, q)
  PROVE  Stays(s, q)
BY DEF Stays, SameDraft

LEMMA ClickRowIs ==
  ASSUME NEW s, Sound(s), NEW row \in DOMAIN RowsOf(s), NEW q, q = ClickRow(s, row)
  PROVE  Clicking(s, q)
<1> DEFINE w == RowsOf(s)[row]
           f == FocusContentRow(s, row)
<1>1. s \in Popups
  BY DEF Sound
<1>2. Stays(s, f) /\ f.mode.kind = "browse" /\ Sound(f) /\ f \in Popups
  <2>1. Stays(s, f) /\ f.mode.kind = "browse"
    BY <1>1, FocusContentRowIs
  <2> HIDE DEF f
  <2> QED BY <2>1 DEF Stays, Sound
<1>3. \/ q = StartEdit(f)
      \/ q = [s EXCEPT !.focus = "content"]
      \/ q = StartSelect(s)
      \/ q = ToggleRow(f)
  <2>1. q = ClickWidget(s, row, w)
    BY DEF ClickRow
  <2> HIDE DEF w
  <2> QED BY <2>1 DEF ClickWidget
<1> HIDE DEF f, w
<1>4. CASE q = StartEdit(f)
  <2>1. Stays(f, q)
    BY <1>2, <1>4, StartWidgetIs
  <2> QED BY <1>1, <1>2, <2>1, StaysTwice, StaysIsClick
<1>5. CASE q = [s EXCEPT !.focus = "content"]
  <2>1. Stays(s, q)
    BY <1>5, FocusIs
  <2> QED BY <1>1, <2>1, StaysIsClick
<1>6. CASE q = StartSelect(s)
  <2>1. Stays(s, q)
    BY <1>1, <1>6, StartSelectIs
  <2> QED BY <1>1, <2>1, StaysIsClick
<1>7. CASE q = ToggleRow(f)
  <2>1. Kept(f, q) /\ SameShown(f.draft.proxy, q.draft.proxy) /\ q.mode = f.mode
    BY <1>2, <1>7, ToggleWidgetIs
  <2>2. SameDraft(s, f) /\ f.draft = s.draft /\ q \in Popups
    BY <1>2, <2>1 DEF Stays, SameDraft, Kept, Sound
  <2>3. DraftKept(s, q)
    BY <1>1, <1>2, <2>1, <2>2, DraftsKept DEF Kept
  <2>4. Kept(s, q) /\ q.mode.kind = "browse"
    BY <1>2, <2>1, <2>3 DEF Kept
  <2>5. UserStep(s, q)
    BY <2>4, StepsOfTheUser
  <2> QED BY <2>1, <2>2, <2>5 DEF Clicking
<1> QED
  BY <1>3, <1>4, <1>5, <1>6, <1>7

LEMMA ClickPatternIs ==
  ASSUME NEW s, Sound(s), NEW i \in Int, NEW q, q \in ClickedPattern(SelectPattern(s, i), i)
  PROVE  Clicking(s, q)
<1> DEFINE a == SelectPattern(s, i)
<1>1. s \in Popups
  BY DEF Sound
<1>2. /\ Stays(s, a) /\ Patterns(a) = Patterns(s) /\ a.topic = "recording"
      /\ a.mode = PatternTable(Clamped(i, Len(Patterns(s))))
  BY <1>1, SelectPatternIs
<1>3. q = a \/ q = TogglePattern(a, i) \/ q = StartPattern(a, i)
  BY DEF ClickedPattern
<1> HIDE DEF a
<1>4. Sound(a) /\ a.draft = s.draft
  BY <1>2 DEF Stays, SameDraft
<1>5. CASE q = a
  BY <1>1, <1>2, <1>5, StaysIsClick
<1>6. CASE q = StartPattern(a, i)
  <2>1. Stays(a, q)
    BY <1>2, <1>4, <1>6, StartPatternIs
  <2> QED BY <1>1, <1>2, <2>1, StaysTwice, StaysIsClick
<1>7. CASE q = TogglePattern(a, i)
  <2>1. CASE i \notin DOMAIN Patterns(a)
    <3>1. q = a
      BY <1>7, <2>1 DEF TogglePattern
    <3> QED BY <1>5, <3>1
  <2>2. CASE i \in DOMAIN Patterns(a)
    <3>1. Clamped(i, Len(Patterns(s))) = i
      BY <1>1, <1>2, <2>2, PatternsAre, ClampedIs
    <3> DEFINE at == s.mode.index
    <3>2. PatternStep(a, q, at)
      BY <1>2, <1>4, <1>7, <3>1, TogglePatternStep
    <3>3. Kept(s, q)
      <4>1. SameDraft(s, a) /\ DraftKept(a, q) /\ Sound(q) /\ a \in Popups /\ q \in Popups
        BY <1>2, <1>4, <3>2 DEF PatternStep, Kept, Stays, Sound
      <4> QED BY <1>1, <4>1, DraftsKept DEF Kept
    <3>4. q.draft.proxy = s.draft.proxy
      BY <1>4, <3>2 DEF PatternStep
    <3>5. \A t : Rules(q, t) = Rules(s, t)
      BY <3>4 DEF Rules
    <3>6. Follows(s, q)
      BY <1>2, <3>2, <3>5 DEF Follows, PatternStep
    <3> QED BY <3>3, <3>4, <3>6 DEF Clicking, UserStep, SameShown
  <2> QED BY <2>1, <2>2
<1> QED
  BY <1>3, <1>5, <1>6, <1>7

LEMMA ClickRuleIs ==
  ASSUME NEW s, Sound(s), s.topic = "proxy", Shown(s.draft.proxy) # << >>,
         NEW widget \in DOMAIN TableOf, NEW table \in Tables, NEW i \in Int, NEW q,
         q \in ClickedRule(SelectRule(FocusContentRow(s, RowOf(widget, s)), table, i), table, i)
  PROVE  Clicking(s, q)
<1> DEFINE f == FocusContentRow(s, RowOf(widget, s))
           a == SelectRule(f, table, i)
<1>1. s \in Popups
  BY DEF Sound
<1>2. Stays(s, f) /\ f \in Popups /\ RowFits(f) /\ f.topic = s.topic
      /\ \A t : Rules(f, t) = Rules(s, t)
  <2>1. RowOf(widget, s) \in DOMAIN RowsOf(s)
    BY <1>1, RowOfIs
  <2>2. Stays(s, f) /\ f.topic = s.topic /\ \A t : Rules(f, t) = Rules(s, t)
    BY <1>1, <2>1, FocusContentRowIs
  <2> HIDE DEF f
  <2> QED BY <2>2 DEF Stays, Sound
<1>3. q = a \/ q = ToggleRule(a, table, i) \/ q = StartRule(a, table, i)
  BY DEF ClickedRule
<1>4. a = SelectRule(f, table, i)
  OBVIOUS
<1> HIDE DEF f, a
<1>5. /\ Stays(f, a) /\ a.mode = RuleTable(table, Clamped(i, Len(Rules(f, table))))
      /\ \A t : Rules(a, t) = Rules(f, t)
  BY <1>2, <1>4, SelectRuleIs DEF MovedTo
<1>6. /\ Stays(s, a) /\ Sound(a) /\ a.draft = s.draft
      /\ \A t : Rules(a, t) = Rules(s, t)
  <2>1. Stays(s, a)
    BY <1>1, <1>2, <1>5, StaysTwice
  <2> QED BY <1>2, <1>5, <2>1 DEF Stays, SameDraft
<1>7. CASE q = a
  BY <1>1, <1>6, <1>7, StaysIsClick
<1>8. CASE q = StartRule(a, table, i)
  <2>1. Stays(a, q)
    BY <1>6, <1>8, StartRuleIs
  <2> QED BY <1>1, <1>6, <2>1, StaysTwice, StaysIsClick
<1>9. CASE q = ToggleRule(a, table, i)
  <2>1. CASE i \notin DOMAIN Rules(a, table)
    <3>1. q = a
      BY <1>9, <2>1 DEF ToggleRule
    <3> QED BY <1>7, <3>1
  <2>2. CASE i \in DOMAIN Rules(a, table)
    <3>1. a.mode = RuleTable(table, i)
      <4>1. Clamped(i, Len(Rules(f, table))) = i
        BY <1>2, <1>5, <2>2, RulesAre, ClampedIs
      <4> QED BY <1>5, <4>1
    <3> DEFINE at == s.mode.index
    <3>2. RuleStep(a, q, table, at)
      BY <1>6, <1>9, <3>1, ToggleRuleStep
    <3>3. q.mode = a.mode
      BY <1>6, <1>9, <2>2 DEF ToggleRule, EditShown, Edit, Sound, Popups
    <3>4. Kept(s, q)
      <4>1. SameDraft(s, a) /\ DraftKept(a, q) /\ Sound(q) /\ a \in Popups /\ q \in Popups
        BY <1>6, <3>2 DEF RuleStep, Kept, Stays, Sound
      <4> QED BY <1>1, <4>1, DraftsKept DEF Kept
    <3>5. Patterns(q) = Patterns(s) /\ q.mode.kind = "rules" /\ q.mode.table = table
      <4>1. Patterns(q) = Patterns(a) /\ Patterns(a) = Patterns(s)
        BY <1>6, <3>2 DEF RuleStep, Patterns
      <4> QED BY <3>1, <3>3, <4>1 DEF RuleTable
    <3>6. Rules(q, table) # Rules(s, table)
            => ChangedAt(Rules(s, table), Rules(q, table), s.mode.index, q.mode.index)
      BY <1>6, <3>2, <3>5 DEF RuleStep
    <3>7. Follows(s, q)
      BY <3>5, <3>6 DEF Follows
    <3>8. SameShown(s.draft.proxy, q.draft.proxy)
      BY <1>6, <3>2 DEF RuleStep
    <3> QED BY <3>4, <3>7, <3>8 DEF Clicking, UserStep
  <2> QED BY <2>1, <2>2
<1> QED
  BY <1>3, <1>7, <1>8, <1>9

LEMMA ClickOutsideIs ==
  ASSUME NEW s, Sound(s), NEW q, q = Escape([s EXCEPT !.mode = Browse])
  PROVE  Clicking(s, q) \/ q = Closed
<1> DEFINE b == [s EXCEPT !.mode = Browse]
<1>1. s \in Popups
  BY DEF Sound
<1>2. b = [s EXCEPT !.mode = Browse] /\ q = Escape(b)
  OBVIOUS
<1> HIDE DEF b
<1>3. Stays(s, b) /\ Sound(b)
  BY <1>2, BrowseFits, NextMode DEF Stays
<1>4. Stays(b, q) \/ q = Closed
  BY <1>2, <1>3, EscapeIs
<1> QED
  BY <1>1, <1>3, <1>4, StaysTwice, StaysIsClick

LEMMA ClickStep ==
  ASSUME Sound(popup), Click
  PROVE  UserStep(popup, popup') \/ popup' = Closed
<1>1. PICK s \in {Settled(popup)} :
        ClickTopic(s) \/ ClickContent(s) \/ ClickPattern(s) \/ ClickRule(s) \/ ClickOutside(s)
  BY DEF Click
<1>2. /\ Settling(popup, s) /\ Sound(s) /\ s \in Popups /\ popup \in Popups
      /\ popup.draft.proxy \in Proxies /\ popup.topic \in Topics /\ s.topic = popup.topic
  BY <1>1, SettledIs, PopupIs, DocumentIs DEF Settling, Kept, Sound
<1>3. ASSUME NEW q, Clicking(s, q) PROVE UserStep(popup, q)
  BY <1>2, <1>3, SettleThenClick
<1>4. UserStep(popup, s)
  <2>1. Stays(s, s)
    BY <1>2, DraftsKept DEF Stays
  <2> QED BY <1>2, <1>3, <2>1, StaysIsClick
<1>5. Shown(popup.draft.proxy) # << >> => Shown(s.draft.proxy) # << >>
  BY <1>2 DEF Settling, Kept, DraftKept, ProxyKept
<1>6. CASE ClickTopic(s)
  <2>1. PICK topic \in Topics : popup' = s \/ popup' = [SelectTopic(s, topic) EXCEPT !.focus = "topics"]
    BY <1>6 DEF ClickTopic
  <2>2. CASE popup' = s
    BY <1>4, <2>2
  <2>3. CASE popup' = [SelectTopic(s, topic) EXCEPT !.focus = "topics"]
    <3>1. popup' = Onto(s, "topics", topic, 1, Browse)
      BY <1>2, <2>3 DEF SelectTopic, Onto, Popups
    <3>2. Stays(s, popup')
      BY <1>2, <3>1, SelectTopicIs
    <3> QED BY <1>2, <1>3, <3>2, StaysIsClick
  <2> QED BY <2>1, <2>2, <2>3
<1>7. CASE ClickContent(s)
  <2>1. PICK row \in DOMAIN RowsOf(popup) : popup' = s \/ popup' = ClickRow(s, row)
    BY <1>7 DEF ClickContent
  <2>2. row \in DOMAIN RowsOf(s)
    <3>1. DOMAIN RowsOf(popup) \subseteq DOMAIN RowsOf(s)
      BY <1>2, <1>5, RowsAre DEF RowsOf
    <3> QED BY <3>1
  <2>3. popup' = ClickRow(s, row) => Clicking(s, popup')
    BY <1>2, <2>2, ClickRowIs
  <2> QED BY <1>3, <1>4, <2>1, <2>3
<1>8. CASE ClickPattern(s)
  <2>1. PICK i \in DOMAIN Patterns(popup) : popup' \in ClickedPattern(SelectPattern(s, i), i)
    BY <1>8 DEF ClickPattern
  <2>2. i \in Int
    BY <1>2, PatternsAre DEF Indices
  <2>3. Clicking(s, popup')
    BY <1>2, <2>1, <2>2, ClickPatternIs
  <2> QED BY <1>3, <2>3
<1>9. CASE ClickRule(s)
  <2>1. popup.topic = "proxy" /\ s.topic = "proxy"
    BY <1>2, <1>9 DEF ClickRule
  <2>2. PICK widget \in DOMAIN TableOf : \E i \in DOMAIN Rules(popup, TableOf[widget]) :
          \/ popup' = s
          \/ popup' \in ClickedRule(SelectRule(FocusContentRow(s, RowOf(widget, s)),
                                               TableOf[widget], i), TableOf[widget], i)
    BY <1>9 DEF ClickRule
  <2> DEFINE table == TableOf[widget]
  <2>3. table \in Tables
    BY DEF TableOf, Tables
  <2>4. PICK i \in DOMAIN Rules(popup, table) :
          \/ popup' = s
          \/ popup' \in ClickedRule(SelectRule(FocusContentRow(s, RowOf(widget, s)), table, i),
                                    table, i)
    BY <2>2
  <2> HIDE DEF table
  <2>5. i \in Int /\ Shown(s.draft.proxy) # << >>
    <3>1. i \in Int
      BY <1>2, <2>3, RulesAre DEF Indices
    <3>2. Shown(popup.draft.proxy) # << >>
      <4>1. Shown(popup.draft.proxy) = << >> => Rules(popup, table) = << >>
        BY DEF Rules, RulesIn
      <4> QED BY <4>1
    <3> QED BY <1>5, <3>1, <3>2
  <2>6. popup' # s => Clicking(s, popup')
    BY <1>2, <2>1, <2>3, <2>4, <2>5, ClickRuleIs
  <2> QED BY <1>3, <1>4, <2>6
<1>10. CASE ClickOutside(s)
  <2>1. popup' = s \/ popup' = Escape([s EXCEPT !.mode = Browse])
    BY <1>10 DEF ClickOutside
  <2>2. CASE popup' = Escape([s EXCEPT !.mode = Browse])
    BY <1>2, <1>3, <2>2, ClickOutsideIs
  <2> QED BY <1>4, <2>1, <2>2
<1> QED
  BY <1>1, <1>6, <1>7, <1>8, <1>9, <1>10

(***************************************************************************)
(* The settings editor.                                                    *)
(***************************************************************************)
\* A draft that is as good as what it was opened from.
AsGood(p) ==
  /\ p.original.port # "0" => p.draft.port # "0"
  /\ ValidProxy(p.original.proxy) => ValidProxy(p.draft.proxy)
  /\ WellFormed(p.original.proxy) => WellFormed(p.draft.proxy)

PopupInvariant == Sound(popup) /\ AsGood(popup) /\ (~popup.visible => popup = Closed)

\* A transaction keeps the popup locked.  Until a save is reported that
\* succeeded, the popup was opened from what is as well formed as what is live.
TxInvariant ==
  /\ tx # << >> => /\ txPending /\ reports = << >>
                   /\ WellFormed(live.proxy) => WellFormed(tx[1].doc.proxy)
                   /\ tx[1].origin = "mcp" => ~Dirty(popup)
  /\ reports = << >> \/ ~reports[1].ok
       => (WellFormed(live.proxy) => WellFormed(popup.original.proxy))

EditorInvariant == EditorTypeOK /\ PopupInvariant /\ TxInvariant

\* What any step of the editor does to the popup.
Unseen(p, q) ==
  p.visible /\ q.visible /\ q.original = p.original /\ ActiveIsTrimmed(p.draft.proxy)
    /\ View(q.draft.proxy) = View(p.draft.proxy) => q.draft.proxy = p.draft.proxy

PopupStep == PopupInvariant' /\ Follows(popup, popup') /\ Unseen(popup, popup')

LEMMA OpenedIs ==
  ASSUME NEW doc \in Documents, NEW q, q = Opened(doc) \/ q = [Opened(doc) EXCEPT !.visible = FALSE]
  PROVE  /\ Sound(q) /\ AsGood(q) /\ q.mode.kind = "browse"
         /\ q.draft = doc /\ q.original = doc /\ (q = Opened(doc) => q.visible)
<1>1. Browse \in Modes /\ Browse.kind = "browse"
  BY BrowseFits
<1>2. /\ q \in Popups /\ q.mode = Browse /\ q.topic = "server" /\ q.row = 1
      /\ q.draft = doc /\ q.original = doc /\ (q = Opened(doc) => q.visible)
  <2> DEFINE on == q = Opened(doc)
  <2>1. q = [visible |-> on, focus |-> "topics", topic |-> "server", row |-> 1, mode |-> Browse,
             draft |-> doc, original |-> doc]
    <3>1. Opened(doc).visible = TRUE /\ [Opened(doc) EXCEPT !.visible = FALSE].visible = FALSE
      BY DEF Opened
    <3>2. CASE on
      BY <3>2 DEF Opened
    <3>3. CASE ~on
      BY <3>3 DEF Opened
    <3> QED BY <3>2, <3>3
  <2>2. on \in BOOLEAN
    OBVIOUS
  <2>3. "server" \in Topics /\ 1 \in Indices
    BY TopicsAre DEF Indices
  <2>4. on => q = Opened(doc)
    OBVIOUS
  <2>5. q = Opened(doc) => on
    OBVIOUS
  <2> HIDE DEF on
  <2>6. q \in Popups
    BY <1>1, <2>1, <2>2, <2>3 DEF Popups
  <2> QED BY <2>1, <2>5, <2>6
<1>3. RowFits(q)
  BY <1>2, RowsAre, TopicsAre DEF RowFits, RowsOf, Indices
<1>4. Sound(q)
  BY <1>1, <1>2, <1>3, BrowseEdited
<1> QED
  BY <1>1, <1>2, <1>4 DEF AsGood

LEMMA ClosedIs ==
  /\ Sound(Closed) /\ AsGood(Closed) /\ Closed.mode.kind = "browse" /\ ~Closed.visible
  /\ ~Dirty(Closed) /\ WellFormed(Closed.original.proxy)
<1>1. DefaultDoc \in Documents /\ ValidProxy(DefaultDoc.proxy)
  BY EditorAssumption
<1>2. /\ Sound(Closed) /\ AsGood(Closed) /\ Closed.mode.kind = "browse"
      /\ Closed.draft = DefaultDoc /\ Closed.original = DefaultDoc
  BY <1>1, OpenedIs DEF Closed
<1>3. ~Closed.visible
  BY DEF Closed, Opened
<1> QED
  BY <1>1, <1>2, <1>3 DEF Dirty, ValidProxy, WellFormed

LEMMA UserStepIs ==
  ASSUME PopupInvariant, popup.visible, UserStep(popup, popup') \/ popup' = Closed
  PROVE  PopupStep
<1>1. CASE UserStep(popup, popup')
  <2>1. /\ Sound(popup') /\ Follows(popup, popup') /\ popup'.visible
        /\ popup'.original = popup.original
        /\ popup.draft.port # "0" => popup'.draft.port # "0"
        /\ ProxyKept(popup.draft.proxy, popup'.draft.proxy)
    BY <1>1 DEF UserStep, Kept, DraftKept
  <2>2. AsGood(popup')
    BY <2>1 DEF PopupInvariant, AsGood, ProxyKept
  <2>3. Unseen(popup, popup')
    BY <2>1 DEF Unseen, ProxyKept
  <2> QED BY <2>1, <2>2, <2>3 DEF PopupStep, PopupInvariant
<1>2. CASE popup' = Closed
  BY <1>2, ClosedIs DEF PopupStep, PopupInvariant, Follows, Unseen
<1> QED
  BY <1>1, <1>2

LEMMA PopupSame ==
  ASSUME PopupInvariant, UNCHANGED popup
  PROVE  PopupStep
BY DEF PopupStep, PopupInvariant, Follows, Unseen, Closed, Opened, Browse

LEMMA UseIs ==
  ASSUME EditorInvariant, Use
  PROVE  PopupStep /\ edits' \in 0..MaxEdits
<1>1. PopupInvariant /\ Sound(popup) /\ edits \in 0..MaxEdits /\ MaxEdits \in Nat
  BY EditorAssumption DEF EditorInvariant, PopupInvariant, EditorTypeOK
<1>2. Key \/ Click
  BY DEF Use, Key
<1>3. popup.visible
  BY <1>2 DEF Key, Click, In, BrowseMove, EnterRow, RowKey, EscapeKey, RuleKey, TypeRule, EndRule,
     PatternKey, TypePattern, EndPattern, TypeField, EndField, SelectKey, CommitOption, Leave,
     DialogKey
<1>4. PopupStep
  BY <1>1, <1>2, <1>3, KeyStep, ClickStep, UserStepIs
<1>5. edits = MaxEdits => popup'.draft = popup.draft
  <2>1. edits = MaxEdits => Leave
    BY <1>1 DEF Use
  <2>2. popup \in Popups
    BY <1>1 DEF Sound
  <2> QED BY <2>1, <2>2 DEF Leave, Popups
<1>6. edits' \in 0..MaxEdits
  BY <1>1, <1>5 DEF Use, Counted
<1> QED
  BY <1>4, <1>6

LEMMA LockedIs ==
  ASSUME EditorInvariant, UseLocked
  PROVE  PopupStep /\ popup'.original = popup.original /\ popup'.draft = popup.draft
<1>1. PopupInvariant /\ Sound(popup) /\ popup \in Popups
  BY DEF EditorInvariant, PopupInvariant, Sound
<1>2. popup.visible
  BY DEF UseLocked, BrowseMove, In
<1>3. Stays(popup, popup')
  <2>1. CASE BrowseMove
    BY <1>1, <2>1, NavigatedIs DEF BrowseMove, In
  <2>2. CASE \E topic \in Topics : popup' = [SelectTopic(popup, topic) EXCEPT !.focus = "topics"]
    <3>1. PICK topic \in Topics : popup' = [SelectTopic(popup, topic) EXCEPT !.focus = "topics"]
      BY <2>2
    <3>2. popup' = Onto(popup, "topics", topic, 1, Browse)
      BY <1>1, <3>1 DEF SelectTopic, Onto, Popups
    <3> QED BY <1>1, <3>2, SelectTopicIs
  <2> QED BY <2>1, <2>2 DEF UseLocked
<1>4. UserStep(popup, popup')
  BY <1>1, <1>3, StepsOfTheUser
<1> QED
  BY <1>1, <1>2, <1>3, <1>4, UserStepIs DEF Stays, SameDraft

LEMMA EditorTypes ==
  ASSUME EditorTypeOK
  PROVE  /\ tx # << >> => /\ tx = <<tx[1]>> /\ tx[1].doc \in Documents
                          /\ tx[1].origin \in {"tui", "mcp"}
         /\ reports # << >> => reports = <<reports[1]>>
         /\ << >> \in Options([origin : {"tui", "mcp"}, doc : Documents])
         /\ \A origin \in {"tui", "mcp"} : \A doc \in Documents :
              <<[origin |-> origin, doc |-> doc]>>
                \in Options([origin : {"tui", "mcp"}, doc : Documents])
         /\ << >> \in Options([ok : BOOLEAN, doc : Documents])
         /\ \A ok \in BOOLEAN : \A doc \in Documents :
              <<[ok |-> ok, doc |-> doc]>> \in Options([ok : BOOLEAN, doc : Documents])
<1> DEFINE S == [origin : {"tui", "mcp"}, doc : Documents]
           R == [ok : BOOLEAN, doc : Documents]
<1>1. tx \in Options(S) /\ reports \in Options(R)
  BY DEF EditorTypeOK
<1>2. /\ \A s \in S : s.doc \in Documents /\ s.origin \in {"tui", "mcp"}
      /\ \A origin \in {"tui", "mcp"} : \A doc \in Documents : [origin |-> origin, doc |-> doc] \in S
      /\ \A ok \in BOOLEAN : \A doc \in Documents : [ok |-> ok, doc |-> doc] \in R
  OBVIOUS
<1> HIDE DEF S, R
<1>3. tx # << >> => tx = <<tx[1]>> /\ tx[1] \in S
  BY <1>1, OptionIs
<1>4. reports # << >> => reports = <<reports[1]>>
  BY <1>1, OptionIs
<1>5. << >> \in Options(S) /\ \A x \in S : <<x>> \in Options(S)
  BY OptionOf
<1>6. << >> \in Options(R) /\ \A x \in R : <<x>> \in Options(R)
  BY OptionOf
<1> QED
  BY <1>2, <1>3, <1>4, <1>5, <1>6 DEF S, R

LEMMA FinalizeIs ==
  ASSUME EditorInvariant, Finalize
  PROVE  EditorInvariant' /\ PopupStep /\ (WellFormed(live.proxy) => WellFormed(live'.proxy))
<1> DEFINE doc == tx[1].doc
           opens == doc # live /\ popup.visible /\ ~Dirty(popup)
<1>1. /\ EditorTypeOK /\ PopupInvariant /\ TxInvariant
      /\ tx = <<tx[1]>> /\ tx[1].origin \in {"tui", "mcp"} /\ doc \in Documents
      /\ reports = << >> /\ live \in Documents
  BY EditorTypes DEF EditorInvariant, EditorTypeOK, TxInvariant, Finalize
<1>2. /\ live' = doc /\ tx' = << >> /\ txPending' = FALSE /\ edits' = edits
      /\ popup' = IF opens THEN Opened(doc) ELSE popup
      /\ reports' = IF tx[1].origin = "tui" THEN <<[ok |-> TRUE, doc |-> doc]>> ELSE << >>
  BY <1>1 DEF Finalize, Reported
<1>3. WellFormed(live.proxy) => WellFormed(doc.proxy)
  BY <1>1 DEF TxInvariant, Finalize
<1>4. CASE opens
  <2>1. /\ Sound(popup') /\ AsGood(popup') /\ popup'.mode.kind = "browse" /\ popup'.visible
        /\ popup'.draft = doc /\ popup'.original = doc
    BY <1>1, <1>2, <1>4, OpenedIs
  <2>2. PopupInvariant' /\ Follows(popup, popup')
    BY <2>1 DEF PopupInvariant, Follows
  <2>3. Unseen(popup, popup')
    BY <1>4, <2>1 DEF Unseen, Dirty
  <2>4. TxInvariant'
    BY <1>2, <2>1 DEF TxInvariant
  <2>5. EditorTypeOK'
    BY <1>1, <1>2, <2>1, EditorTypes DEF EditorTypeOK, Sound
  <2> QED BY <1>2, <1>3, <2>2, <2>3, <2>4, <2>5 DEF EditorInvariant, PopupStep
<1>5. CASE ~opens
  <2>1. popup' = popup /\ PopupStep
    BY <1>1, <1>2, <1>5, PopupSame
  <2>2. ASSUME tx[1].origin = "mcp", WellFormed(live'.proxy) PROVE WellFormed(popup.original.proxy)
    <3>1. doc = live \/ popup = Closed
      BY <1>1, <1>5, <2>2 DEF TxInvariant, PopupInvariant, Finalize
    <3>2. CASE doc = live
      BY <1>1, <1>2, <2>2, <3>2 DEF TxInvariant
    <3>3. CASE popup = Closed
      BY <3>3, ClosedIs
    <3> QED BY <3>1, <3>2, <3>3
  <2>3. tx[1].origin = "tui" => reports'[1].ok /\ reports' # << >>
    BY <1>2
  <2>4. TxInvariant'
    BY <1>1, <1>2, <2>1, <2>2, <2>3 DEF TxInvariant
  <2>5. EditorTypeOK'
    BY <1>1, <1>2, <2>1, EditorTypes DEF EditorTypeOK
  <2> QED BY <1>2, <1>3, <2>1, <2>4, <2>5 DEF EditorInvariant, PopupStep
<1> QED
  BY <1>4, <1>5

LEMMA EditorStep ==
  ASSUME EditorInvariant, [EditorNext]_editorVars
  PROVE  EditorInvariant' /\ PopupStep /\ (WellFormed(live.proxy) => WellFormed(live'.proxy))
<1>1. /\ EditorTypeOK /\ PopupInvariant /\ TxInvariant /\ popup \in Popups /\ live \in Documents
      /\ popup.draft \in Documents /\ popup.original \in Documents
      /\ edits \in 0..MaxEdits /\ MaxEdits \in Nat
  BY PopupIs, EditorAssumption DEF EditorInvariant, EditorTypeOK
<1>2. \A p : Sound(p) => p \in Popups
  BY DEF Sound
<1>3. CASE Open
  <2>1. /\ Sound(popup') /\ AsGood(popup') /\ popup'.mode.kind = "browse" /\ popup'.visible
        /\ popup'.draft = live /\ popup'.original = live /\ ~popup.visible /\ popup = Closed
    BY <1>1, <1>3, OpenedIs DEF Open, PopupInvariant
  <2>2. PopupInvariant' /\ Follows(popup, popup') /\ Unseen(popup, popup')
    BY <2>1 DEF PopupInvariant, Follows, Unseen
  <2>3. TxInvariant' /\ EditorTypeOK'
    BY <1>1, <1>2, <1>3, <2>1 DEF TxInvariant, EditorTypeOK, Open, Dirty
  <2> QED BY <1>3, <2>2, <2>3 DEF EditorInvariant, PopupStep, Open
<1>4. CASE Use
  <2>1. PopupStep /\ edits' \in 0..MaxEdits
    BY <1>4, UseIs
  <2>2. ~txPending /\ UNCHANGED <<live, policy, tx, txPending, reports>>
    BY <1>4 DEF Use
  <2>3. popup'.original = popup.original \/ popup' = Closed
    <3>1. Key \/ Click
      BY <1>4 DEF Use, Key
    <3>2. UserStep(popup, popup') \/ popup' = Closed
      BY <1>1, <3>1, KeyStep, ClickStep DEF PopupInvariant
    <3> QED BY <3>2 DEF UserStep, Kept, DraftKept
  <2>4. TxInvariant'
    BY <1>1, <2>2, <2>3, ClosedIs DEF TxInvariant
  <2>5. EditorTypeOK'
    BY <1>1, <1>2, <2>1, <2>2 DEF EditorTypeOK, PopupStep, PopupInvariant
  <2> QED BY <2>1, <2>2, <2>4, <2>5 DEF EditorInvariant, PopupStep
<1>5. CASE UseLocked
  <2>1. PopupStep /\ popup'.original = popup.original /\ popup'.draft = popup.draft
    BY <1>5, LockedIs
  <2>2. UNCHANGED <<live, policy, tx, txPending, reports, edits>>
    BY <1>5 DEF UseLocked
  <2>3. TxInvariant'
    BY <1>1, <2>1, <2>2 DEF TxInvariant, Dirty
  <2>4. EditorTypeOK'
    BY <1>1, <1>2, <2>1, <2>2 DEF EditorTypeOK, PopupStep, PopupInvariant
  <2> QED BY <2>1, <2>2, <2>3, <2>4 DEF EditorInvariant, PopupStep
<1>6. CASE Save
  <2>1. popup.visible /\ reports = << >> /\ tx = << >>
    BY <1>6 DEF Save, In
  <2>2. UNCHANGED <<live, policy, reports, edits>>
    BY <1>6 DEF Save
  <2>3. CASE ValidDoc(popup.draft)
    <3>1. /\ tx' = <<[origin |-> "tui", doc |-> popup.draft]>> /\ txPending' = TRUE
          /\ popup' = popup /\ PopupStep
      BY <1>1, <1>6, <2>3, PopupSame DEF Save
    <3>2. WellFormed(live.proxy) => WellFormed(popup.draft.proxy)
      BY <1>1, <2>1 DEF TxInvariant, PopupInvariant, AsGood
    <3>3. tx'[1].doc = popup.draft /\ tx'[1].origin = "tui"
      BY <3>1
    <3>4. TxInvariant'
      BY <1>1, <2>1, <2>2, <3>1, <3>2, <3>3 DEF TxInvariant
    <3>5. EditorTypeOK'
      BY <1>1, <2>2, <3>1, EditorTypes DEF EditorTypeOK
    <3> QED BY <2>2, <3>1, <3>4, <3>5 DEF EditorInvariant, PopupStep
  <2>4. CASE ~ValidDoc(popup.draft)
    <3>1. popup' = [popup EXCEPT !.mode = Browse] /\ UNCHANGED <<tx, txPending>>
      BY <1>6, <2>4 DEF Save
    <3>2. UserStep(popup, popup') /\ Stays(popup, popup')
      BY <1>1, <3>1, BrowseFits, NextMode DEF PopupInvariant
    <3>3. PopupStep
      BY <1>1, <2>1, <3>2, UserStepIs
    <3>4. TxInvariant'
      BY <1>1, <2>1, <2>2, <3>1, <3>2 DEF TxInvariant, Stays, SameDraft
    <3>5. EditorTypeOK'
      BY <1>1, <1>2, <2>2, <3>1, <3>3 DEF EditorTypeOK, PopupStep, PopupInvariant
    <3> QED BY <2>2, <3>3, <3>4, <3>5 DEF EditorInvariant, PopupStep
  <2> QED BY <2>3, <2>4
<1>7. CASE Mutate
  <2>1. PICK m \in Mutations :
          tx' = <<[origin |-> "mcp", doc |-> [live EXCEPT !.proxy = Mutated(live.proxy, m).proxy]]>>
    BY <1>7 DEF Mutate
  <2> DEFINE px == Mutated(live.proxy, m).proxy
             doc == [live EXCEPT !.proxy = px]
  <2>2. px \in Proxies /\ (WellFormed(live.proxy) => WellFormed(px))
    <3>1. IsMutation(m) /\ live.proxy \in Proxies
      BY <1>1, DocumentIs, EditorAssumption
    <3> QED BY <3>1, MutationKeepsForm
  <2>3. tx' = <<[origin |-> "mcp", doc |-> doc]>>
    BY <2>1
  <2> HIDE DEF px
  <2>4. doc \in Documents /\ doc.proxy = px
    BY <1>1, <2>2 DEF Documents
  <2> HIDE DEF doc
  <2>5. /\ tx'[1].doc = doc /\ tx'[1].origin = "mcp" /\ txPending' = TRUE /\ reports = << >>
        /\ ~Dirty(popup) /\ edits < MaxEdits /\ edits' = edits + 1
        /\ UNCHANGED <<popup, live, policy, reports>>
    BY <1>7, <2>3 DEF Mutate
  <2>6. PopupStep
    BY <1>1, <2>5, PopupSame
  <2>7. TxInvariant'
    BY <1>1, <2>2, <2>4, <2>5 DEF TxInvariant, Dirty
  <2>8. EditorTypeOK'
    <3>1. edits' \in 0..MaxEdits
      BY <1>1, <2>5
    <3>2. tx' \in Options([origin : {"tui", "mcp"}, doc : Documents])
      BY <1>1, <2>3, <2>4, EditorTypes
    <3> QED BY <1>1, <2>5, <3>1, <3>2 DEF EditorTypeOK
  <2> QED BY <2>5, <2>6, <2>7, <2>8 DEF EditorInvariant, PopupStep
<1>8. CASE Finalize
  BY <1>8, FinalizeIs
<1>9. CASE Abort
  <2>1. /\ tx = <<tx[1]>> /\ tx[1].doc \in Documents /\ reports = << >>
    BY <1>1, <1>9, EditorTypes DEF TxInvariant, Abort
  <2>2. /\ tx' = << >> /\ txPending' = FALSE /\ UNCHANGED <<popup, live, policy, edits>>
        /\ reports' = IF tx[1].origin = "tui" THEN <<[ok |-> FALSE, doc |-> tx[1].doc]>> ELSE << >>
    BY <1>9, <2>1 DEF Abort, Reported
  <2>3. PopupStep
    BY <1>1, <2>2, PopupSame
  <2>4. TxInvariant'
    BY <1>1, <2>1, <2>2 DEF TxInvariant
  <2>5. EditorTypeOK'
    BY <1>1, <2>1, <2>2, EditorTypes DEF EditorTypeOK
  <2> QED BY <2>2, <2>3, <2>4, <2>5 DEF EditorInvariant, PopupStep
<1>10. CASE Report
  <2>1. /\ reports = <<reports[1]>> /\ tx = << >> /\ reports # << >>
    BY <1>1, <1>10, EditorTypes DEF TxInvariant, Report
  <2>2. /\ reports' = << >> /\ txPending' = FALSE /\ UNCHANGED <<live, policy, tx, edits>>
        /\ popup' = IF reports[1].ok THEN Closed
                    ELSE [popup EXCEPT !.mode = Browse, !.visible = TRUE]
    <3>1. \A x : Head(<<x>>) = x /\ Tail(<<x>>) = << >>
      OBVIOUS
    <3>2. Head(reports) = reports[1] /\ Tail(reports) = << >>
      BY <2>1, <3>1
    <3> QED BY <1>10, <3>2 DEF Report
  <2>3. CASE reports[1].ok
    <3>1. popup' = Closed
      BY <2>2, <2>3
    <3>2. PopupStep
      BY <3>1, ClosedIs DEF PopupStep, PopupInvariant, Follows, Unseen
    <3>3. TxInvariant'
      BY <2>1, <2>2, <3>1, ClosedIs DEF TxInvariant
    <3>4. EditorTypeOK'
      BY <1>1, <1>2, <2>1, <2>2, <3>1, ClosedIs, EditorTypes DEF EditorTypeOK
    <3> QED BY <2>2, <3>2, <3>3, <3>4 DEF EditorInvariant, PopupStep
  <2>4. CASE ~reports[1].ok
    <3>1. popup' = [popup EXCEPT !.mode = Browse, !.visible = TRUE]
      BY <2>2, <2>4
    <3>2. /\ popup' \in Popups /\ popup'.mode = Browse /\ popup'.visible
          /\ popup'.draft = popup.draft /\ popup'.original = popup.original
          /\ popup'.topic = popup.topic /\ popup'.row = popup.row
      BY <1>1, <3>1, BrowseFits DEF Popups
    <3>3. RowFits(popup')
      BY <1>1, <3>2 DEF PopupInvariant, Sound, RowFits, RowsOf
    <3>4. Sound(popup') /\ AsGood(popup')
      BY <1>1, <3>2, <3>3, BrowseFits, BrowseEdited DEF PopupInvariant, AsGood
    <3>5. PopupStep
      BY <3>2, <3>4, BrowseFits DEF PopupStep, PopupInvariant, Follows, Unseen
    <3>6. TxInvariant'
      BY <1>1, <2>1, <2>2, <2>4, <3>2 DEF TxInvariant
    <3>7. EditorTypeOK'
      BY <1>1, <2>1, <2>2, <3>2, EditorTypes DEF EditorTypeOK
    <3> QED BY <2>2, <3>5, <3>6, <3>7 DEF EditorInvariant, PopupStep
  <2> QED BY <2>3, <2>4
<1>11. CASE UNCHANGED editorVars
  <2>1. UNCHANGED <<popup, live, policy, tx, txPending, reports, edits>>
    BY <1>11 DEF editorVars
  <2>2. PopupStep
    BY <1>1, <2>1, PopupSame
  <2>3. EditorTypeOK' /\ TxInvariant'
    BY <1>1, <2>1 DEF EditorTypeOK, TxInvariant, Dirty
  <2> QED BY <2>1, <2>2, <2>3 DEF EditorInvariant, PopupStep
<1> QED
  BY <1>3, <1>4, <1>5, <1>6, <1>7, <1>8, <1>9, <1>10, <1>11 DEF EditorNext

LEMMA EditorStarts ==
  ASSUME EditorInit
  PROVE  EditorInvariant
<1>1. /\ live \in Documents /\ popup = Closed /\ tx = << >> /\ txPending = FALSE
      /\ reports = << >> /\ edits = 0
  BY EditorAssumption DEF EditorInit
<1>2. MaxEdits \in Nat
  BY EditorAssumption
<1>3. Closed \in Popups
  BY ClosedIs DEF Sound
<1>4. << >> \in Options([origin : {"tui", "mcp"}, doc : Documents])
      /\ << >> \in Options([ok : BOOLEAN, doc : Documents])
  BY OptionOf
<1>5. EditorTypeOK
  <2>1. 0 \in 0..MaxEdits
    BY <1>2
  <2>2. popup \in Popups /\ live \in Documents /\ txPending \in BOOLEAN /\ edits \in 0..MaxEdits
    BY <1>1, <1>3, <2>1
  <2>3. /\ tx \in Options([origin : {"tui", "mcp"}, doc : Documents])
        /\ reports \in Options([ok : BOOLEAN, doc : Documents])
    BY <1>1, <1>4, Zenon
  <2> QED BY <2>2, <2>3 DEF EditorTypeOK
<1> QED
  BY <1>1, <1>5, ClosedIs DEF EditorInvariant, PopupInvariant, TxInvariant

\* The popup and its draft are sound in every state of the editor, whatever
\* keys, clicks, saves and mutations of the control service came before.
THEOREM EditorStaysSound == EditorSpec => []EditorInvariant
<1>1. EditorInvariant /\ [EditorNext]_editorVars => EditorInvariant'
  BY EditorStep
<1> QED
  BY <1>1, EditorStarts, PTL DEF EditorSpec

\* What can be saved can be saved after any edit, and names stay distinct and
\* rules valid in the draft and in the live document, whoever changes them.
THEOREM EditsStayValid == EditorSpec => EditsKeepItValid
<1> DEFINE SaysValid == ValidDoc(popup.original) => ValidDoc(popup.draft)
           SaysFormed == WellFormed(popup.original.proxy) => WellFormed(popup.draft.proxy)
           LiveKept == WellFormed(live.proxy) => WellFormed(live'.proxy)
<1>1. EditorInvariant => SaysValid /\ SaysFormed
  BY DEF EditorInvariant, PopupInvariant, AsGood, ValidDoc
<1>2. EditorInvariant /\ [EditorNext]_editorVars => [LiveKept]_liveVars
  BY EditorStep
<1>3. EditorSpec => []SaysValid
  <2> HIDE DEF SaysValid, SaysFormed
  <2> QED BY <1>1, EditorStaysSound, PTL
<1>4. EditorSpec => []SaysFormed
  <2> HIDE DEF SaysValid, SaysFormed
  <2> QED BY <1>1, EditorStaysSound, PTL
<1>5. EditorSpec => [][LiveKept]_liveVars
  <2> HIDE DEF LiveKept
  <2> QED BY <1>2, EditorStaysSound, PTL DEF EditorSpec
<1> QED
  BY <1>3, <1>4, <1>5 DEF EditsKeepItValid

\* Every cursor of the popup is on something there is, and goes along with the
\* rule or pattern a key or click moves, adds or removes.
THEOREM CursorKeepsToItsRule == EditorSpec => CursorFollowsTheRule
<1> DEFINE Cursors ==
             LET before == popup.mode
                 after == popup'.mode IN
             /\ before.kind \in {"rules", "rule"} /\ after.kind = "rules" /\ before.table = after.table
                  => LET table == Rules(popup, before.table)
                         next == Rules(popup', before.table) IN
                     next # table => ChangedAt(table, next, before.index, after.index)
             /\ before.kind = "patterns" /\ after.kind = "patterns" /\ Patterns(popup') # Patterns(popup)
                  => ChangedAt(Patterns(popup), Patterns(popup'), before.index, after.index)
<1>1. EditorInvariant => CursorsInBounds
  <2> SUFFICES ASSUME EditorInvariant PROVE CursorsInBounds
    OBVIOUS
  <2>1. popup \in Popups /\ RowFits(popup) /\ ModeFits(popup, popup.topic, popup.mode)
    BY DEF EditorInvariant, PopupInvariant, Sound
  <2>2. popup.topic \in Topics
    BY <2>1, PopupIs
  <2> QED BY <2>1, <2>2 DEF CursorsInBounds, ModeFits, ListFits, RowFits
<1>2. EditorInvariant /\ [EditorNext]_editorVars => [Cursors]_popup
  <2>1. PopupStep => Cursors
    BY DEF PopupStep, Follows
  <2> QED BY <2>1, EditorStep
<1>3. EditorSpec => []CursorsInBounds
  BY <1>1, EditorStaysSound, PTL
<1>4. EditorSpec => [][Cursors]_popup
  <2> HIDE DEF Cursors
  <2> QED BY <1>2, EditorStaysSound, PTL DEF EditorSpec
<1> QED
  BY <1>3, <1>4 DEF CursorFollowsTheRule

\* An edit nothing on the screen shows leaves the draft as it was.
THEOREM NothingUnseenIsSaved == EditorSpec => UnseenIsUnsaid
<1> DEFINE Said == popup.visible /\ popup'.visible /\ popup'.original = popup.original
                     /\ ActiveIsTrimmed(popup.draft.proxy)
                     /\ View(popup'.draft.proxy) = View(popup.draft.proxy)
                     => popup'.draft.proxy = popup.draft.proxy
<1>1. EditorInvariant /\ [EditorNext]_editorVars => [Said]_popup
  <2>1. PopupStep => Said
    BY DEF PopupStep, Unseen
  <2> QED BY <2>1, EditorStep
<1>2. EditorSpec => [][Said]_popup
  <2> HIDE DEF Said
  <2> QED BY <1>1, EditorStaysSound, PTL DEF EditorSpec
<1> QED
  BY <1>2 DEF UnseenIsUnsaid

(***************************************************************************)
(*                              MAPPING TOOLS                              *)
(***************************************************************************)

\* What a change acted on.
Refs ==
  [kind : {"preset", "preset_name"}, name : Names] \union [kind : {"active_preset", "proxy"}]
    \union [kind : {"table"}, preset : Names, table : Tables]
    \union [kind : {"rule"}, preset : Names, table : Tables, index : Int]

MakerRecords == [id : Nat \ {0}, op : Operations, affected : Refs]

ToolsTypes ==
  /\ revisions \in Seq(ToolDocuments) /\ revisions # << >>
  /\ makers \in Seq(MakerRecords \union {Others}) /\ Len(makers) = Newest - 1
  /\ basis \in 0..Newest
  /\ spent \in [calls : Nat, elsewhere : Nat]

\* A revision of the client is what its mutation made of the one before.
Made(r) ==
  LET m == ToMutation(makers[r].op)
      result == Mutated(revisions[r].proxy, m) IN
  /\ makers[r] \in MakerRecords /\ makers[r].id <= spent.calls
  /\ result.ok /\ result.changed
  /\ revisions[r + 1] = [revisions[r] EXCEPT !.proxy = result.proxy]
  /\ Compiles(revisions[r + 1])
  /\ makers[r].affected = Affected(revisions[r].proxy, m)
Histories == \A r \in DOMAIN makers : makers[r] # Others => Made(r)
Once == \A r, s \in DOMAIN makers : makers[r].id = makers[s].id => makers[r] = Others \/ r = s

Tasks == {"get", "validate", "explain", "preview", "mutate"}
CallSound ==
  call.at # "none" =>
    /\ call = [at |-> call.at, id |-> call.id, what |-> call.what, op |-> call.op,
               expected |-> call.expected, taken |-> call.taken, answer |-> call.answer]
    /\ call.id \in 1..spent.calls /\ call.expected \in 1..Newest /\ call.taken \in 1..Newest
    /\ call.at \in {"taken", "pending", "answered", "lost"} /\ call.what \in Tasks
    /\ call.at \in {"pending", "lost"} => call.what = "mutate"
    /\ call.at = "taken" => call.what # "mutate"
    /\ call.at = "pending" => call.expected = Newest /\ editor # "busy"

\* What the client was shown and sends back.
FromView(v) == basis # 0 /\ ProxyFrom(v) = ProxyOf(revisions[basis].proxy)
AskedSound ==
  call.at # "none" =>
    /\ call.what = "mutate" => call.op \in Operations
    /\ call.what = "preview" =>
         /\ call.op = [op |-> call.op.op, urls |-> call.op.urls] /\ call.op.op \in Operations
         /\ call.at = "taken" => call.expected = call.taken
    /\ call.what = "validate" => FromView(call.op)
    /\ call.what = "explain" /\ call.op.proposal # << >> => FromView(call.op.proposal[1])

\* A read tells of the revision it was taken at.
AnswerSound ==
  call.at = "answered" =>
    /\ call.what = "get" /\ call.answer.ok =>
         /\ basis = call.taken
         /\ call.answer.view = Projection(ProxyOf(revisions[call.taken].proxy), call.op)
    /\ call.what = "validate" => call.answer.validation = Validation(<<ProxyFrom(call.op)>>)
    /\ call.what = "explain" => call.answer = ExplainedFor(call.op, revisions[call.taken])

\* A revision of the call under way was made when it ended, of what it expected.
Mine ==
  call.at # "none" =>
    \A r \in DOMAIN makers : makers[r].id = call.id =>
      call.what = "mutate" /\ call.at \in {"answered", "lost"} /\ r = call.expected

\* A change that ended was recorded as what was answered, and this is what it did.
Answered(c, answer) ==
  LET mine == \E r \in DOMAIN makers : makers[r].id = c.id
      m == ToMutation(c.op)
      result == Mutated(revisions[c.expected].proxy, m) IN
  IF answer.ok
  THEN /\ answer.changed = result.changed
       /\ answer.affected = Affected(revisions[c.expected].proxy, m)
       /\ answer.revision = c.expected + (IF result.changed THEN 1 ELSE 0)
       /\ result.changed <=> mine
  ELSE mine => answer.why = "conflict"
ChangeSound ==
  call.at \in {"answered", "lost"} /\ call.what = "mutate" =>
    audit = Audited(call, call.answer) /\ Answered(call, call.answer)

PreviewSound ==
  preview # << >> =>
    /\ preview = <<[revision |-> preview[1].revision, asked |-> preview[1].asked,
                    answer |-> preview[1].answer]>>
    /\ preview[1].revision \in 1..Newest /\ preview[1].asked.op \in Operations
    /\ preview[1].answer = Previewed(revisions[preview[1].revision],
                                     ToMutation(preview[1].asked.op), preview[1].asked.urls)

ToolsInvariant ==
  /\ ToolsTypes /\ Histories /\ Once
  /\ CallSound /\ AskedSound /\ AnswerSound /\ Mine /\ ChangeSound /\ PreviewSound

(***************************************************************************)
(* The mutations the tools ask for.                                        *)
(***************************************************************************)
Tools == PresetTools \union RuleTools

LEMMA OperationIs ==
  ASSUME NEW op \in Operations
  PROVE  /\ op.tool \in Tools
         /\ op.tool = "create_preset" => op \in OperationsOf("create_preset")
         /\ op.tool = "rename_preset" => op \in OperationsOf("rename_preset")
         /\ op.tool = "delete_preset" => op \in OperationsOf("delete_preset")
         /\ op.tool = "set_active_preset" => op \in OperationsOf("set_active_preset")
         /\ op.tool = "set_mapping_gate" => op \in OperationsOf("set_mapping_gate")
         /\ op.tool = "create_mapping_rule" => op \in OperationsOf("create_mapping_rule")
         /\ op.tool = "update_mapping_rule" => op \in OperationsOf("update_mapping_rule")
         /\ op.tool = "delete_mapping_rule" => op \in OperationsOf("delete_mapping_rule")
         /\ op.tool = "move_mapping_rule" => op \in OperationsOf("move_mapping_rule")
         /\ op.tool = "set_mapping_rule_enabled" => op \in OperationsOf("set_mapping_rule_enabled")
<1>1. op.tool \in Tools /\ op \in OperationsOf(op.tool)
  BY ToolsAssumption DEF Tools
<1> QED
  BY <1>1

LEMMA ToolsAre ==
  /\ Tools = {"create_preset", "rename_preset", "delete_preset", "set_active_preset",
              "set_mapping_gate", "create_mapping_rule", "update_mapping_rule",
              "delete_mapping_rule", "move_mapping_rule", "set_mapping_rule_enabled"}
  BY DEF Tools, PresetTools, RuleTools

LEMMA RuleFromIs ==
  ASSUME NEW input \in RuleInputs
  PROVE  RuleFrom(input) \in RuleRecords
  BY DEF RuleInputs, RuleFrom, RuleRecords, Defaulted

LEMMA TableFromIs ==
  ASSUME NEW input \in TableInputs
  PROVE  TableFrom(input) \in TableRecords
<1> DEFINE rules == [i \in DOMAIN input.rules |-> RuleFrom(input.rules[i])]
<1>1. input.rules \in Seq(RuleInputs)
  BY DEF TableInputs
<1>2. Len(input.rules) \in Nat /\ DOMAIN input.rules = 1..Len(input.rules)
  BY <1>1, LenProperties
<1>3. \A i \in 1..Len(input.rules) : RuleFrom(input.rules[i]) \in RuleRecords
  BY <1>1, <1>2, RuleFromIs, ElementOfSeq
<1>4. rules \in Seq(RuleRecords)
  <2>1. rules = [i \in 1..Len(input.rules) |-> RuleFrom(input.rules[i])]
    BY <1>2
  <2>2. rules \in [1..Len(input.rules) -> RuleRecords]
    BY <1>3, <2>1
  <2> HIDE DEF rules
  <2> QED BY <1>2, <2>2, IsASeq
<1>5. TableFrom(input) = [enable |-> Defaulted(input.enabled), rules |-> rules]
  BY DEF TableFrom
<1> HIDE DEF rules
<1> QED
  BY <1>4, <1>5 DEF Defaulted, TableRecords

LEMMA InitialFromIs ==
  ASSUME NEW body \in Options(Bodies)
  PROVE  InitialFrom(body) \in PresetRecords
<1> DEFINE none == Plain("")
           bare == NoRules(TRUE)
<1>1. none \in Names
  BY ToolsAssumption
<1>2. CASE body = << >>
  <2>1. InitialFrom(body) = [name |-> none, remote |-> bare, local |-> bare]
    BY <1>2 DEF InitialFrom, Preset
  <2>2. bare \in TableRecords
    BY EmptySeq DEF NoRules, TableRecords
  <2> HIDE DEF none, bare
  <2> QED BY <1>1, <2>1, <2>2 DEF PresetRecords
<1>3. CASE body # << >>
  <2>1. body[1] \in Bodies
    BY <1>3, OptionIs
  <2>2. TableFrom(body[1].remote) \in TableRecords /\ TableFrom(body[1].local) \in TableRecords
    BY <2>1, TableFromIs DEF Bodies
  <2>3. InitialFrom(body) = [name |-> none, remote |-> TableFrom(body[1].remote),
                             local |-> TableFrom(body[1].local)]
    BY <1>3 DEF InitialFrom, PresetFrom
  <2> HIDE DEF none
  <2> QED BY <1>1, <2>2, <2>3 DEF PresetRecords
<1> QED
  BY <1>2, <1>3

LEMMA PositionedIs ==
  ASSUME NEW index \in Options(Nat)
  PROVE  Positioned(index) \in Options(Indices)
<1>1. CASE index = << >>
  BY <1>1, OptionOf DEF Positioned
<1>2. CASE index # << >>
  <2>1. index[1] \in Nat
    BY <1>2, OptionIs
  <2>2. index[1] + 1 \in Indices
    BY <2>1 DEF Indices
  <2> QED BY <1>2, <2>2, OptionOf DEF Positioned
<1> QED
  BY <1>1, <1>2

\* The mutation each tool asks for.
LEMMA MutationOf ==
  ASSUME NEW op \in Operations, NEW m, m = ToMutation(op)
  PROVE  /\ op.tool = "create_preset" => m = CreateMutation(op)
         /\ op.tool = "rename_preset" => m = RenameMutation(op)
         /\ op.tool = "delete_preset" => m = DeleteMutation(op)
         /\ op.tool = "set_active_preset" => m = ActivateMutation(op)
         /\ op.tool = "set_mapping_gate" => m = GateMutation(op)
         /\ op.tool = "create_mapping_rule" => m = CreateRuleMutation(op)
         /\ op.tool = "update_mapping_rule" => m = UpdateRuleMutation(op)
         /\ op.tool = "delete_mapping_rule" => m = DeleteRuleMutation(op)
         /\ op.tool = "move_mapping_rule" => m = MoveRuleMutation(op)
         /\ op.tool = "set_mapping_rule_enabled" => m = EnableRuleMutation(op)
  BY DEF ToMutation, PresetMutation, RuleMutation, RuleTools

LEMMA MutationIsTyped ==
  ASSUME NEW op \in Operations, NEW m, m = ToMutation(op)
  PROVE  IsMutation(m)
<1>1. CASE op.tool = "create_preset"
  <2>1. op.name \in Names /\ op.initial \in Options(Bodies)
    BY <1>1, OperationIs DEF OperationsOf
  <2>2. m = [op |-> "create", name |-> op.name, initial |-> InitialFrom(op.initial)]
    BY <1>1, MutationOf DEF CreateMutation
  <2> QED BY <2>1, <2>2, InitialFromIs DEF IsMutation, MutationsOf, Ops
<1>2. CASE op.tool = "rename_preset"
  <2>1. op.name \in Names /\ op.newName \in Names
    BY <1>2, OperationIs DEF OperationsOf
  <2> QED BY <1>2, <2>1, MutationOf DEF RenameMutation, IsMutation, MutationsOf, Ops
<1>3. CASE op.tool = "delete_preset"
  <2>1. op.name \in Names
    BY <1>3, OperationIs DEF OperationsOf
  <2> QED BY <1>3, <2>1, MutationOf DEF DeleteMutation, IsMutation, MutationsOf, Ops
<1>4. CASE op.tool = "set_active_preset"
  <2>1. op.active \in Options(Names)
    BY <1>4, OperationIs DEF OperationsOf
  <2> QED BY <1>4, <2>1, MutationOf DEF ActivateMutation, IsMutation, MutationsOf, Ops
<1>5. CASE op.tool = "set_mapping_gate"
  <2>1. op.gate \in GateInputs /\ op.enabled \in BOOLEAN
    BY <1>5, OperationIs DEF OperationsOf
  <2>2. m = GateMutation(op)
    BY <1>5, MutationOf
  <2>3. CASE op.gate.kind = "global"
    BY <2>1, <2>2, <2>3 DEF GateMutation, IsMutation, MutationsOf, Ops
  <2>4. CASE op.gate.kind # "global"
    <3>1. op.gate.preset \in Names /\ op.gate.table \in Tables
      BY <2>1, <2>4 DEF GateInputs
    <3> QED BY <2>1, <2>2, <2>4, <3>1 DEF GateMutation, IsMutation, MutationsOf, Ops, TableOps
  <2> QED BY <2>3, <2>4
<1>6. CASE op.tool = "create_mapping_rule"
  <2>1. /\ op.preset \in Names /\ op.table \in Tables /\ op.index \in Options(Nat)
        /\ op.rule \in RuleInputs
    BY <1>6, OperationIs DEF OperationsOf
  <2>2. m = [op |-> "insert_rule", preset |-> op.preset, table |-> op.table,
             index |-> Positioned(op.index), rule |-> RuleFrom(op.rule)]
    BY <1>6, MutationOf DEF CreateRuleMutation
  <2> QED BY <2>1, <2>2, PositionedIs, RuleFromIs DEF IsMutation, MutationsOf, Ops, TableOps
<1>7. CASE op.tool = "update_mapping_rule"
  <2>1. /\ op.preset \in Names /\ op.table \in Tables /\ op.index \in Nat
        /\ op.from \in RuleTexts /\ op.to \in RuleTexts
    BY <1>7, OperationIs DEF OperationsOf
  <2>2. op.index + 1 \in Indices
    BY <2>1 DEF Indices
  <2> QED BY <1>7, <2>1, <2>2, MutationOf DEF UpdateRuleMutation, IsMutation, MutationsOf, Ops, TableOps
<1>8. CASE op.tool = "delete_mapping_rule"
  <2>1. /\ op.preset \in Names /\ op.table \in Tables /\ op.index \in Nat
    BY <1>8, OperationIs DEF OperationsOf
  <2>2. op.index + 1 \in Indices
    BY <2>1 DEF Indices
  <2> QED BY <1>8, <2>1, <2>2, MutationOf DEF DeleteRuleMutation, IsMutation, MutationsOf, Ops, TableOps
<1>9. CASE op.tool = "move_mapping_rule"
  <2>1. /\ op.preset \in Names /\ op.table \in Tables /\ op.from \in Nat /\ op.to \in Nat
    BY <1>9, OperationIs DEF OperationsOf
  <2>2. op.from + 1 \in Indices /\ op.to + 1 \in Indices
    BY <2>1 DEF Indices
  <2> QED BY <1>9, <2>1, <2>2, MutationOf DEF MoveRuleMutation, IsMutation, MutationsOf, Ops, TableOps
<1>10. CASE op.tool = "set_mapping_rule_enabled"
  <2>1. /\ op.preset \in Names /\ op.table \in Tables /\ op.index \in Nat /\ op.enabled \in BOOLEAN
    BY <1>10, OperationIs DEF OperationsOf
  <2>2. op.index + 1 \in Indices
    BY <2>1 DEF Indices
  <2> QED BY <1>10, <2>1, <2>2, MutationOf DEF EnableRuleMutation, IsMutation, MutationsOf, Ops, TableOps
<1> QED
  BY <1>1, <1>2, <1>3, <1>4, <1>5, <1>6, <1>7, <1>8, <1>9, <1>10, OperationIs, ToolsAre

(***************************************************************************)
(* What a tool that names a rule does to its table.                        *)
(***************************************************************************)
\* A mutation of a table that is accepted finds the table.
LEMMA TableAccepted ==
  ASSUME NEW px \in Proxies, NEW m, IsMutation(m), m.op \in TableOps,
         NEW r, r = Mutated(px, m), r.ok,
         NEW i, i = PresetIndex(px, m.preset), NEW t, t = px[1].presets[i][m.table]
  PROVE  /\ px # << >> /\ i \in DOMAIN px[1].presets /\ m.table \in Tables /\ t \in TableRecords
         /\ r.proxy = WithTable(px, i, m, TableAfter(m, t)) /\ r = MutatedTable(px, i, m, t)
<1>1. m.table \in Tables
  BY MutationIs
<1>2. r = MutatedPreset(px, i, m)
  BY DEF Mutated, TableOps
<1>3. ~IsBlank(m.preset) /\ i # 0
  BY <1>2 DEF MutatedPreset, Rejected
<1>4. px # << >>
  BY <1>3 DEF PresetIndex
<1>5. r = MutatedTable(px, i, m, t)
  BY <1>2, <1>3 DEF MutatedPreset
<1>6. /\ i \in DOMAIN px[1].presets /\ t \in TableRecords
      /\ r.proxy = WithTable(px, i, m, TableAfter(m, t))
  BY <1>3, <1>4, TableMutationIs
<1> QED
  BY <1>1, <1>4, <1>5, <1>6

LEMMA AcceptedAt ==
  ASSUME NEW px, NEW i, NEW m, NEW t, MutatedTable(px, i, m, t).ok
  PROVE  /\ m.op = "insert_rule" =>
              ~(~ValidFields(m.table, m.rule) \/ Place(m, t.rules) > Len(t.rules) + 1)
         /\ m.op = "update_rule" => ValidFields(m.table, m) /\ m.index \in DOMAIN t.rules
         /\ m.op = "delete_rule" => m.index \in DOMAIN t.rules
         /\ m.op = "move_rule" => {m.from, m.to} \subseteq DOMAIN t.rules
         /\ m.op = "enable_rule" => m.index \in DOMAIN t.rules
<1>1. CASE m.op = "insert_rule"
  BY <1>1 DEF MutatedTable, InsertRule, Rejected
<1>2. CASE m.op = "update_rule"
  BY <1>2 DEF MutatedTable, UpdateRule, Rejected
<1>3. CASE m.op = "delete_rule"
  BY <1>3 DEF MutatedTable, DeleteRule, Rejected
<1>4. CASE m.op = "move_rule"
  BY <1>4 DEF MutatedTable, MoveRule, Rejected
<1>5. CASE m.op = "enable_rule"
  BY <1>5 DEF MutatedTable, SetRuleEnabled, Rejected
<1> QED
  BY <1>1, <1>2, <1>3, <1>4, <1>5

RulesAs(q, i, name, rules) == [q EXCEPT !.presets[i][name].rules = rules]

LEMMA TableBack ==
  ASSUME NEW px \in Proxies, px # << >>, NEW i \in DOMAIN px[1].presets, NEW name \in Tables,
         NEW t, t = px[1].presets[i][name], NEW u \in TableRecords, u.enable = t.enable,
         NEW qx, TableReplaced(px, qx, i, name, u)
  PROVE  RulesAs(qx[1], i, name, t.rules) = px[1]
<1> DEFINE ps == px[1].presets
           qs == qx[1].presets
           back == [qs EXCEPT ![i] = [qs[i] EXCEPT ![name] = [u EXCEPT !.rules = t.rules]]]
<1>1. /\ px[1] \in ProxyRecords /\ ps \in Seq(PresetRecords) /\ ps[i] \in PresetRecords
      /\ Len(ps) \in Nat /\ DOMAIN ps = 1..Len(ps)
  BY ProxyIs, LenProperties
<1>2. /\ qx \in Proxies /\ qx # << >> /\ qx[1].active = px[1].active /\ qx[1].enable = px[1].enable
      /\ Len(qs) = Len(ps) /\ DOMAIN qs = DOMAIN ps
      /\ \A j \in DOMAIN ps : j # i => qs[j] = ps[j]
      /\ qs[i] = [ps[i] EXCEPT ![name] = u] /\ qs[i][name] = u
  BY DEF TableReplaced
<1>3. qx[1] \in ProxyRecords /\ qs \in Seq(PresetRecords)
  BY <1>2, ProxyIs
<1>4. t \in TableRecords
  BY <1>1 DEF PresetRecords, Tables
<1>5. [u EXCEPT !.rules = t.rules] = t
  BY <1>4 DEF TableRecords
<1>6. [qs[i] EXCEPT ![name] = t] = ps[i]
  <2> HIDE DEF ps, qs
  <2>1. CASE name = "remote"
    BY <1>1, <1>2, <2>1 DEF PresetRecords, ps
  <2>2. CASE name = "local"
    BY <1>1, <1>2, <2>2 DEF PresetRecords, ps
  <2> QED BY <2>1, <2>2 DEF Tables
<1>7. back = [qs EXCEPT ![i] = ps[i]]
  BY <1>5, <1>6
<1>8. back = ps
  <2>1. \A j \in 1..Len(ps) : [qs EXCEPT ![i] = ps[i]][j] = ps[j]
    BY <1>1, <1>2
  <2>2. DOMAIN [qs EXCEPT ![i] = ps[i]] = 1..Len(ps)
    BY <1>1, <1>2
  <2>3. [qs EXCEPT ![i] = ps[i]] = [j \in 1..Len(ps) |-> [qs EXCEPT ![i] = ps[i]][j]]
    BY <1>1, <1>2
  <2>4. ps = [j \in 1..Len(ps) |-> ps[j]]
    BY <1>1
  <2> QED BY <1>7, <2>1, <2>3, <2>4
<1>9. RulesAs(qx[1], i, name, t.rules) = [qx[1] EXCEPT !.presets = back]
  BY <1>2 DEF RulesAs
<1>10. [qx[1] EXCEPT !.presets = px[1].presets] = px[1]
  BY <1>1, <1>2, <1>3 DEF ProxyRecords
<1> HIDE DEF back
<1> QED
  BY <1>8, <1>9, <1>10

\* The mutation of a tool that names a rule, and where its answer says it acted.
LEMMA RuleToolIs ==
  ASSUME NEW op \in Operations, op.tool \in RuleTools, NEW m, m = ToMutation(op),
         NEW px \in Proxies, Mutated(px, m).ok, NEW i, i = PresetIndex(px, op.preset),
         NEW s, s = px[1].presets[i][op.table].rules
  PROVE  /\ m.preset = op.preset /\ m.table = op.table /\ m.op \in TableOps
         /\ i = PresetIndex(px, m.preset)
         /\ NameIn(op) = op.preset
         /\ Affected(px, m).index = CASE op.tool = "create_mapping_rule" -> Place(m, s) - 1
                                      [] op.tool = "move_mapping_rule" -> op.to
                                      [] OTHER -> op.index
<1>0. IsMutation(m)
  BY MutationIsTyped
<1>1. CASE op.tool = "create_mapping_rule"
  <2>1. op \in OperationsOf("create_mapping_rule") /\ m = CreateRuleMutation(op)
    BY <1>1, OperationIs, MutationOf
  <2>2. m.op = "insert_rule" /\ m.preset = op.preset /\ m.table = op.table
    BY <2>1 DEF CreateRuleMutation
  <2>3. "preset" \in DOMAIN op
    BY <2>1 DEF OperationsOf
  <2>4. Affected(px, m).index = Place(m, s) - 1
    BY <2>2 DEF Affected, AffectedPlace, RuleRef
  <2> QED BY <1>1, <2>2, <2>3, <2>4 DEF NameIn, TableOps
<1>2. CASE op.tool = "update_mapping_rule"
  <2>1. op \in OperationsOf("update_mapping_rule") /\ m = UpdateRuleMutation(op)
    BY <1>2, OperationIs, MutationOf
  <2>2. /\ m.op = "update_rule" /\ m.preset = op.preset /\ m.table = op.table
        /\ m.index = op.index + 1 /\ op.index \in Nat
    BY <2>1 DEF UpdateRuleMutation, OperationsOf
  <2>3. "preset" \in DOMAIN op
    BY <2>1 DEF OperationsOf
  <2>4. Affected(px, m).index = op.index
    BY <2>2 DEF Affected, RuleRef
  <2> QED BY <1>2, <2>2, <2>3, <2>4 DEF NameIn, TableOps
<1>3. CASE op.tool = "delete_mapping_rule"
  <2>1. op \in OperationsOf("delete_mapping_rule") /\ m = DeleteRuleMutation(op)
    BY <1>3, OperationIs, MutationOf
  <2>2. /\ m.op = "delete_rule" /\ m.preset = op.preset /\ m.table = op.table
        /\ m.index = op.index + 1 /\ op.index \in Nat
    BY <2>1 DEF DeleteRuleMutation, OperationsOf
  <2>3. "preset" \in DOMAIN op
    BY <2>1 DEF OperationsOf
  <2>4. Affected(px, m).index = op.index
    BY <2>2 DEF Affected, RuleRef
  <2> QED BY <1>3, <2>2, <2>3, <2>4 DEF NameIn, TableOps
<1>4. CASE op.tool = "move_mapping_rule"
  <2>1. op \in OperationsOf("move_mapping_rule") /\ m = MoveRuleMutation(op)
    BY <1>4, OperationIs, MutationOf
  <2>2. /\ m.op = "move_rule" /\ m.preset = op.preset /\ m.table = op.table
        /\ m.to = op.to + 1 /\ op.to \in Nat
    BY <2>1 DEF MoveRuleMutation, OperationsOf
  <2>3. "preset" \in DOMAIN op
    BY <2>1 DEF OperationsOf
  <2>4. Affected(px, m).index = op.to
    BY <2>2 DEF Affected, RuleRef
  <2> QED BY <1>4, <2>2, <2>3, <2>4 DEF NameIn, TableOps
<1>5. CASE op.tool = "set_mapping_rule_enabled"
  <2>1. op \in OperationsOf("set_mapping_rule_enabled") /\ m = EnableRuleMutation(op)
    BY <1>5, OperationIs, MutationOf
  <2>2. /\ m.op = "enable_rule" /\ m.preset = op.preset /\ m.table = op.table
        /\ m.index = op.index + 1 /\ op.index \in Nat
    BY <2>1 DEF EnableRuleMutation, OperationsOf
  <2>3. "preset" \in DOMAIN op
    BY <2>1 DEF OperationsOf
  <2>4. Affected(px, m).index = op.index
    BY <2>2 DEF Affected, RuleRef
  <2> QED BY <1>5, <2>2, <2>3, <2>4 DEF NameIn, TableOps
<1> QED
  BY <1>1, <1>2, <1>3, <1>4, <1>5 DEF RuleTools

\* The rules of the table the tool names, before and after.
LEMMA RulesChanged ==
  ASSUME NEW op \in Operations, op.tool \in RuleTools, NEW m, m = ToMutation(op),
         NEW px \in Proxies, NEW i, i = PresetIndex(px, op.preset),
         NEW r, r = Mutated(px, m), r.ok, r.changed,
         NEW t, t = px[1].presets[i][op.table]
  PROVE  /\ RulesStep(op, Affected(px, m).index, t.rules, TableAfter(m, t).rules)
         /\ TableAfter(m, t) \in TableRecords /\ TableAfter(m, t).enable = t.enable
<1> DEFINE s == t.rules
           u == TableAfter(m, t).rules
           at == Affected(px, m).index
<1>0. IsMutation(m)
  BY MutationIsTyped
<1>1. /\ m.preset = op.preset /\ m.table = op.table /\ m.op \in TableOps
      /\ i = PresetIndex(px, m.preset)
      /\ at = CASE op.tool = "create_mapping_rule" -> Place(m, s) - 1
                [] op.tool = "move_mapping_rule" -> op.to
                [] OTHER -> op.index
  BY RuleToolIs
<1>2. t \in TableRecords /\ MutatedTable(px, i, m, t).ok
  BY <1>0, <1>1, TableAccepted
<1>3. /\ s \in Seq(RuleRecords) /\ Len(s) \in Nat /\ DOMAIN s = 1..Len(s)
      /\ \A k \in DOMAIN s : s[k] \in RuleRecords
  BY <1>2, TableIs
<1> HIDE DEF at, s, u
<1>4. CASE op.tool = "create_mapping_rule"
  <2>1. op \in OperationsOf("create_mapping_rule") /\ m = CreateRuleMutation(op)
    BY <1>4, OperationIs, MutationOf
  <2>2. /\ op.index \in Options(Nat) /\ m.op = "insert_rule"
        /\ m.index = Positioned(op.index) /\ m.rule = RuleFrom(op.rule)
    BY <2>1 DEF OperationsOf, CreateRuleMutation
  <2>3. /\ Place(m, s) \in Indices /\ at = Place(m, s) - 1 /\ m.rule \in RuleRecords
    BY <1>0, <1>1, <1>3, <1>4, <2>2, PlaceIs, MutationIs
  <2>4. ValidFields(m.table, m.rule) /\ ~(Place(m, s) > Len(s) + 1)
    BY <1>2, <2>2, AcceptedAt DEF s
  <2>5. Place(m, s) \in 1..(Len(s) + 1) /\ at + 1 = Place(m, s)
    BY <1>3, <2>3, <2>4 DEF Indices
  <2>6. TableAfter(m, t) = [t EXCEPT !.rules = InsertAt(s, Place(m, s), m.rule)]
    BY <2>2, <2>4 DEF TableAfter, s
  <2>7. /\ InsertAt(s, Place(m, s), m.rule) \in Seq(RuleRecords)
        /\ With(InsertAt(s, Place(m, s), m.rule), s, Place(m, s), m.rule)
        /\ RemoveAt(InsertAt(s, Place(m, s), m.rule), Place(m, s)) = s
    BY <1>3, <2>3, <2>5, InsertedIs, RemovedInserted
  <2>8. /\ TableAfter(m, t) \in TableRecords /\ TableAfter(m, t).enable = t.enable
        /\ u = InsertAt(s, Place(m, s), m.rule)
    BY <1>2, <2>6, <2>7, WithNewRules DEF u
  <2>9. u[at + 1] = RuleFrom(op.rule) /\ RemoveAt(u, at + 1) = s
    BY <2>2, <2>5, <2>7, <2>8 DEF With
  <2>10. op.index = << >> => at = Len(s)
    BY <1>3, <2>2, <2>3 DEF Positioned, Place
  <2>11. op.index # << >> => op.index = <<at>>
    <3>1. SUFFICES ASSUME op.index # << >> PROVE op.index = <<at>>
      OBVIOUS
    <3>2. op.index = <<op.index[1]>> /\ op.index[1] \in Nat
      BY <2>2, <3>1, OptionIs
    <3>3. Place(m, s) = op.index[1] + 1
      BY <2>2, <3>1 DEF Positioned, Place
    <3>4. at = op.index[1]
      BY <2>3, <3>2, <3>3
    <3> QED BY <3>2, <3>4
  <2> QED BY <1>4, <2>8, <2>9, <2>10, <2>11 DEF RulesStep, at, s, u
<1>5. CASE op.tool = "update_mapping_rule"
  <2>1. op \in OperationsOf("update_mapping_rule") /\ m = UpdateRuleMutation(op)
    BY <1>5, OperationIs, MutationOf
  <2>2. /\ op.index \in Nat /\ m.op = "update_rule" /\ m.index = op.index + 1
        /\ m.from = op.from /\ m.to = op.to /\ op.from \in RuleTexts /\ op.to \in RuleTexts
    BY <2>1 DEF OperationsOf, UpdateRuleMutation
  <2>3. at = op.index /\ m.index = at + 1
    BY <1>1, <1>5, <2>2
  <2>4. ValidFields(m.table, m) /\ m.index \in DOMAIN s
    BY <1>2, <2>2, AcceptedAt DEF s
  <2> DEFINE v == [s EXCEPT ![m.index].from = m.from, ![m.index].to = m.to]
             e == [s[m.index] EXCEPT !.from = m.from, !.to = m.to]
  <2>5. e \in RuleRecords
    BY <1>3, <2>2, <2>4 DEF RuleRecords
  <2>6. TableAfter(m, t) = [t EXCEPT !.rules = v]
    BY <2>2, <2>4 DEF TableAfter, s
  <2>7. v = [s EXCEPT ![m.index] = e]
    BY <1>3, <2>4
  <2>8. /\ v \in Seq(RuleRecords) /\ Len(v) = Len(s)
        /\ \A k \in 1..Len(s) : v[k] = IF k = m.index THEN e ELSE s[k]
    <3> HIDE DEF v, e
    <3> QED BY <1>3, <2>4, <2>5, <2>7, ExceptSeq
  <2>9. e = [s[m.index] EXCEPT !.from = op.from, !.to = op.to]
    BY <2>2
  <2> HIDE DEF v, e
  <2>10. /\ TableAfter(m, t) \in TableRecords /\ TableAfter(m, t).enable = t.enable /\ u = v
    BY <1>2, <2>6, <2>8, WithNewRules DEF u
  <2>11. ButFor(u, s, m.index) /\ u[m.index] = e /\ u \in Seq(RuleRecords)
    BY <1>3, <2>4, <2>8, <2>10 DEF ButFor
  <2>12. RemoveAt(u, m.index) = RemoveAt(s, m.index)
    BY <1>3, <2>4, <2>11, RemovedAlike
  <2>13. at = op.index /\ RemoveAt(u, at + 1) = RemoveAt(s, at + 1) /\ u[at + 1] = [s[at + 1] EXCEPT !.from = op.from, !.to = op.to]
    BY <2>3, <2>9, <2>11, <2>12
  <2>14. RulesStep(op, at, s, u)
    BY <1>5, <2>13 DEF RulesStep
  <2> QED BY <2>10, <2>14 DEF at, s, u
<1>6. CASE op.tool = "delete_mapping_rule"
  <2>1. op \in OperationsOf("delete_mapping_rule") /\ m = DeleteRuleMutation(op)
    BY <1>6, OperationIs, MutationOf
  <2>2. op.index \in Nat /\ m.op = "delete_rule" /\ m.index = op.index + 1
    BY <2>1 DEF OperationsOf, DeleteRuleMutation
  <2>3. at = op.index /\ m.index = at + 1
    BY <1>1, <1>6, <2>2
  <2>4. m.index \in DOMAIN s
    BY <1>2, <2>2, AcceptedAt DEF s
  <2>5. RemoveAt(s, m.index) \in Seq(RuleRecords)
    BY <1>3, <2>4, RemovedIs
  <2>6. TableAfter(m, t) = [t EXCEPT !.rules = RemoveAt(s, m.index)]
    BY <2>2, <2>4 DEF TableAfter, s
  <2>7. /\ TableAfter(m, t) \in TableRecords /\ TableAfter(m, t).enable = t.enable
        /\ u = RemoveAt(s, m.index)
    BY <1>2, <2>5, <2>6, WithNewRules DEF u
  <2> QED BY <1>6, <2>3, <2>7 DEF RulesStep, at, s, u
<1>7. CASE op.tool = "move_mapping_rule"
  <2>1. op \in OperationsOf("move_mapping_rule") /\ m = MoveRuleMutation(op)
    BY <1>7, OperationIs, MutationOf
  <2>2. /\ op.from \in Nat /\ op.to \in Nat /\ m.op = "move_rule" /\ m.from = op.from + 1
        /\ m.to = op.to + 1
    BY <2>1 DEF OperationsOf, MoveRuleMutation
  <2>3. at = op.to /\ m.to = at + 1
    BY <1>1, <1>7, <2>2
  <2>4. m.from \in DOMAIN s /\ m.to \in DOMAIN s
    BY <1>2, <2>2, AcceptedAt DEF s
  <2>5. m.from # m.to
    <3>1. r = MutatedTable(px, i, m, t)
      BY <1>0, <1>1, TableAccepted
    <3>2. r = Done(WithRules(px, i, m, Moved(s, m.from, m.to)), m.from # m.to)
      BY <2>2, <2>4, <3>1 DEF MutatedTable, MoveRule, s
    <3>3. (m.from # m.to) \in BOOLEAN
      OBVIOUS
    <3> QED BY <3>2, <3>3, DoneChanges
  <2> DEFINE v == Moved(s, m.from, m.to)
  <2>6. /\ v = InsertAt(RemoveAt(s, m.from), m.to, s[m.from]) /\ v \in Seq(RuleRecords)
        /\ RemoveAt(s, m.from) \in Seq(RuleRecords)
        /\ m.to \in 1..(Len(RemoveAt(s, m.from)) + 1) /\ s[m.from] \in RuleRecords
    BY <1>3, <2>4, <2>5, MovedIs
  <2>7. RemoveAt(v, m.to) = RemoveAt(s, m.from)
    BY <1>3, <2>4, <2>5, RemovedMoved
  <2>8. v[m.to] = s[m.from]
    <3>1. With(v, RemoveAt(s, m.from), m.to, s[m.from])
      BY <2>6, InsertedIs
    <3> HIDE DEF v
    <3> QED BY <2>6, <3>1 DEF With
  <2>9. TableAfter(m, t) = [t EXCEPT !.rules = v]
    BY <2>2, <2>4 DEF TableAfter, s
  <2>10. /\ TableAfter(m, t) \in TableRecords /\ TableAfter(m, t).enable = t.enable /\ u = v
    BY <1>2, <2>6, <2>9, WithNewRules DEF u
  <2> HIDE DEF v
  <2> QED BY <1>7, <2>2, <2>3, <2>7, <2>8, <2>10 DEF RulesStep, at, s, u
<1>8. CASE op.tool = "set_mapping_rule_enabled"
  <2>1. op \in OperationsOf("set_mapping_rule_enabled") /\ m = EnableRuleMutation(op)
    BY <1>8, OperationIs, MutationOf
  <2>2. /\ op.index \in Nat /\ m.op = "enable_rule" /\ m.index = op.index + 1
        /\ m.enabled = op.enabled /\ op.enabled \in BOOLEAN
    BY <2>1 DEF OperationsOf, EnableRuleMutation
  <2>3. at = op.index /\ m.index = at + 1
    BY <1>1, <1>8, <2>2
  <2>4. m.index \in DOMAIN s
    BY <1>2, <2>2, AcceptedAt DEF s
  <2> DEFINE v == [s EXCEPT ![m.index].enable = m.enabled]
             e == [s[m.index] EXCEPT !.enable = m.enabled]
  <2>5. e \in RuleRecords
    BY <1>3, <2>2, <2>4 DEF RuleRecords
  <2>6. TableAfter(m, t) = [t EXCEPT !.rules = v]
    BY <2>2, <2>4 DEF TableAfter, s
  <2>7. v = [s EXCEPT ![m.index] = e]
    BY <1>3, <2>4
  <2>8. /\ v \in Seq(RuleRecords) /\ Len(v) = Len(s)
        /\ \A k \in 1..Len(s) : v[k] = IF k = m.index THEN e ELSE s[k]
    <3> HIDE DEF v, e
    <3> QED BY <1>3, <2>4, <2>5, <2>7, ExceptSeq
  <2>9. e = [s[m.index] EXCEPT !.enable = op.enabled]
    BY <2>2
  <2> HIDE DEF v, e
  <2>10. /\ TableAfter(m, t) \in TableRecords /\ TableAfter(m, t).enable = t.enable /\ u = v
    BY <1>2, <2>6, <2>8, WithNewRules DEF u
  <2>11. ButFor(u, s, m.index) /\ u[m.index] = e /\ u \in Seq(RuleRecords)
    BY <1>3, <2>4, <2>8, <2>10 DEF ButFor
  <2>12. RemoveAt(u, m.index) = RemoveAt(s, m.index)
    BY <1>3, <2>4, <2>11, RemovedAlike
  <2>13. at = op.index /\ RemoveAt(u, at + 1) = RemoveAt(s, at + 1) /\ u[at + 1] = [s[at + 1] EXCEPT !.enable = op.enabled]
    BY <2>3, <2>9, <2>11, <2>12
  <2>14. RulesStep(op, at, s, u)
    BY <1>8, <2>13 DEF RulesStep
  <2> QED BY <2>10, <2>14 DEF at, s, u
<1> QED
  BY <1>4, <1>5, <1>6, <1>7, <1>8 DEF RuleTools

LEMMA ProxyOfIs ==
  ASSUME NEW px \in Proxies
  PROVE  ProxyOf(px) \in ProxyRecords /\ ProxyOf(px) = BaseOf(px) /\ (px # << >> => ProxyOf(px) = px[1])
<1>1. DefaultProxy \in ProxyRecords
  BY OptionOf, EmptySeq DEF DefaultProxy, ProxyRecords
<1> QED
  BY <1>1, ProxyIs DEF ProxyOf, BaseOf

LEMMA OneOf ==
  ASSUME NEW x
  PROVE  <<x>> # << >> /\ <<x>>[1] = x
  OBVIOUS

\* A tool that names a rule changes that rule, or the place of it, and nothing else.
LEMMA RuleToolSteps ==
  ASSUME NEW op \in Operations, op.tool \in RuleTools, NEW m, m = ToMutation(op),
         NEW px \in Proxies, NEW r, r = Mutated(px, m), r.ok, r.changed
  PROVE  ToolStep(op, Affected(px, m), px, r.proxy)
<1> DEFINE i == PresetIndex(px, op.preset)
           t == px[1].presets[i][op.table]
           u == TableAfter(m, t)
           qx == r.proxy
<1>0. IsMutation(m)
  BY MutationIsTyped
<1>1. /\ m.preset = op.preset /\ m.table = op.table /\ m.op \in TableOps
      /\ i = PresetIndex(px, m.preset) /\ NameIn(op) = op.preset
  BY RuleToolIs
<1>2. /\ px # << >> /\ i \in DOMAIN px[1].presets /\ op.table \in Tables /\ t \in TableRecords
      /\ qx = WithTable(px, i, m, u)
  BY <1>0, <1>1, TableAccepted
<1>3. /\ RulesStep(op, Affected(px, m).index, t.rules, u.rules)
      /\ u \in TableRecords /\ u.enable = t.enable
  BY RulesChanged
<1>t. t = px[1].presets[i][op.table]
  OBVIOUS
<1> HIDE DEF i, t, u, qx
<1>4. TableReplaced(px, qx, i, op.table, u)
  BY <1>1, <1>2, <1>3, WithTableIs
<1>5. RulesAs(qx[1], i, op.table, t.rules) = px[1]
  BY <1>2, <1>3, <1>4, <1>t, TableBack
<1>6. qx # << >> /\ qx[1].presets[i][op.table] = u
  BY <1>2, <1>4 DEF TableReplaced
<1>7. ProxyOf(px) = px[1] /\ ProxyOf(qx) = qx[1]
  BY <1>2, <1>6 DEF ProxyOf
<1>8. TableStep(op, i, Affected(px, m), px[1], qx[1])
  BY <1>3, <1>5, <1>6 DEF TableStep, RulesAs, t
<1> QED
  BY <1>1, <1>7, <1>8 DEF ToolStep, i, qx

(***************************************************************************)
(* What a tool that names a preset, or none, does.                         *)
(***************************************************************************)
LEMMA AddedLast ==
  ASSUME NEW base \in ProxyRecords, NEW e \in PresetRecords,
         NEW now, now = [base EXCEPT !.presets = Append(@, e)]
  PROVE  /\ Front(now.presets) = base.presets /\ Last(now.presets) = e
         /\ [now EXCEPT !.presets = base.presets] = base
<1> DEFINE ps == base.presets
           us == Append(ps, e)
<1>1. ps \in Seq(PresetRecords) /\ Len(ps) \in Nat /\ DOMAIN ps = 1..Len(ps)
  BY LenProperties DEF ProxyRecords
<1>2. now.presets = us
  BY DEF ProxyRecords
<1>3. [now EXCEPT !.presets = ps] = base
  BY DEF ProxyRecords
<1> HIDE DEF ps
<1>4. /\ us \in Seq(PresetRecords) /\ Len(us) = Len(ps) + 1 /\ us[Len(ps) + 1] = e
      /\ \A k \in 1..Len(ps) : us[k] = ps[k]
  BY <1>1, AppendProperties
<1> HIDE DEF us
<1>5. Last(us) = e
  BY <1>4 DEF Last
<1>6. Front(us) = SubSeq(us, 1, Len(ps))
  BY <1>1, <1>4 DEF Front
<1>7. \A k \in 1..Len(ps) : us[k] \in PresetRecords
  BY <1>1, <1>4
<1>8. /\ SubSeq(us, 1, Len(ps)) \in Seq(PresetRecords)
      /\ Len(SubSeq(us, 1, Len(ps))) = IF 1 <= Len(ps) THEN (Len(ps) - 1) + 1 ELSE 0
      /\ \A k \in 1..((Len(ps) - 1) + 1) : SubSeq(us, 1, Len(ps))[k] = us[(1 + k) - 1]
  BY <1>1, <1>7, SubSeqProperties
<1>9. Len(SubSeq(us, 1, Len(ps))) = Len(ps)
  BY <1>1, <1>8
<1>10. \A k \in 1..Len(ps) : SubSeq(us, 1, Len(ps))[k] = ps[k]
  BY <1>1, <1>4, <1>8
<1>11. SubSeq(us, 1, Len(ps)) = ps
  BY <1>1, <1>8, <1>9, <1>10, SeqEqual
<1> QED
  BY <1>2, <1>3, <1>5, <1>6, <1>11 DEF ps

LEMMA CreateSteps ==
  ASSUME NEW op \in Operations, op.tool = "create_preset", NEW m, m = ToMutation(op),
         NEW px \in Proxies, NEW r, r = Mutated(px, m), r.ok, NEW i, NEW active
  PROVE  PresetStep(op, i, active, Affected(px, m), ProxyOf(px), ProxyOf(r.proxy))
<1> DEFINE n == Trim(m.name)
           e == NamedAs(m.initial, n)
           base == BaseOf(px)
           now == [base EXCEPT !.presets = Append(@, e)]
<1>1. IsMutation(m) /\ m = CreateMutation(op)
  BY MutationIsTyped, MutationOf
<1>2. m.op = "create" /\ m.initial = InitialFrom(op.initial)
  BY <1>1 DEF CreateMutation
<1>3. m.name \in Names /\ m.initial \in PresetRecords /\ n \in Names
  BY <1>1, <1>2, MutationIs, TrimIs
<1>4. r = CreatePreset(px, n, m.initial)
  BY <1>2 DEF Mutated
<1>5. e = NamedAs(m.initial, n) /\ base = BaseOf(px)
  OBVIOUS
<1>6. Affected(px, m).name = n
  BY <1>2 DEF Affected, PresetRef
<1> HIDE DEF n, e, base
<1>7. CreateResult(px, n, m.initial, e, base, r)
  BY <1>3, <1>4, <1>5, CreateIs
<1>8. ~(IsBlank(n) \/ PresetIndex(px, n) # 0 \/ ~ValidInitial(e))
  <2>1. IF IsBlank(n) \/ PresetIndex(px, n) # 0 \/ ~ValidInitial(e) THEN r = Rejected(px)
        ELSE r = Done(<<now>>, TRUE)
    BY <1>7 DEF CreateResult
  <2>2. r # Rejected(px)
    BY DEF Rejected
  <2> QED BY <2>1, <2>2
<1>9. r.proxy = <<now>> /\ base \in ProxyRecords /\ e \in PresetRecords
  BY <1>7, <1>8 DEF CreateResult, Done
<1>10. ProxyOf(r.proxy) = now
  BY <1>9, OneOf DEF ProxyOf
<1>11. ProxyOf(px) = base
  BY <1>5, ProxyOfIs
<1>12. /\ Front(now.presets) = base.presets /\ Last(now.presets) = e
       /\ [now EXCEPT !.presets = base.presets] = base
  BY <1>9, AddedLast
<1>13. e = [InitialFrom(op.initial) EXCEPT !.name = Affected(px, m).name]
  BY <1>2, <1>5, <1>6 DEF NamedAs
<1> HIDE DEF now
<1> QED
  BY <1>10, <1>11, <1>12, <1>13 DEF PresetStep

\* The preset a name stands for is the active one if the active name is the same.
LEMMA ActiveIsNamed ==
  ASSUME NEW px \in Proxies, NEW n, NEW i, i = PresetIndex(px, n), i # 0
  PROVE  /\ px # << >> /\ i \in DOMAIN px[1].presets
         /\ ActiveIndex(px) = i <=> ActiveIs(px, Trim(n))
<1>1. px # << >>
  BY DEF PresetIndex
<1>2. i \in DOMAIN px[1].presets /\ Trim(px[1].presets[i].name) = Trim(n)
  BY <1>1, PresetIndexIs
<1>3. ASSUME ActiveIs(px, Trim(n)) PROVE ActiveIndex(px) = i
  <2>1. px[1].active # << >> /\ Trim(px[1].active[1]) = Trim(n)
    BY <1>3 DEF ActiveIs
  <2>2. ActiveIndex(px) = PresetIndex(px, px[1].active[1])
    BY <1>1, <2>1 DEF ActiveIndex
  <2>3. SameNamed(px, px)
    BY DEF SameNamed
  <2> QED BY <1>1, <2>1, <2>2, <2>3, SameNames
<1>4. ASSUME ActiveIndex(px) = i PROVE ActiveIs(px, Trim(n))
  BY <1>1, <1>2, <1>4, VirtualIs DEF ActiveIs
<1> QED
  BY <1>1, <1>2, <1>3, <1>4

NameAs(q, i, name, active) == [q EXCEPT !.presets[i].name = name, !.active = active]

LEMMA NameBack ==
  ASSUME NEW px \in Proxies, px # << >>, NEW i \in DOMAIN px[1].presets, NEW name, NEW active,
         NEW qx, NameReplaced(px, qx, i, name, active)
  PROVE  NameAs(qx[1], i, px[1].presets[i].name, px[1].active) = px[1]
<1> DEFINE ps == px[1].presets
           qs == qx[1].presets
           back == [qs EXCEPT ![i] = [qs[i] EXCEPT !.name = ps[i].name]]
<1>1. /\ px[1] \in ProxyRecords /\ ps \in Seq(PresetRecords) /\ ps[i] \in PresetRecords
      /\ Len(ps) \in Nat /\ DOMAIN ps = 1..Len(ps)
  BY ProxyIs, LenProperties
<1>2. /\ qx \in Proxies /\ qx # << >> /\ qx[1].enable = px[1].enable
      /\ Len(qs) = Len(ps) /\ DOMAIN qs = DOMAIN ps
      /\ \A j \in DOMAIN ps : j # i => qs[j] = ps[j]
      /\ qs[i].remote = ps[i].remote /\ qs[i].local = ps[i].local
  BY DEF NameReplaced, Tables
<1>3. qx[1] \in ProxyRecords /\ qs \in Seq(PresetRecords) /\ qs[i] \in PresetRecords
  BY <1>1, <1>2, ProxyIs
<1>4. [qs[i] EXCEPT !.name = ps[i].name] = ps[i]
  <2> HIDE DEF ps, qs
  <2> QED BY <1>1, <1>2, <1>3 DEF PresetRecords
<1>5. back = [qs EXCEPT ![i] = ps[i]]
  BY <1>4
<1>6. back = ps
  <2>1. \A j \in 1..Len(ps) : [qs EXCEPT ![i] = ps[i]][j] = ps[j]
    BY <1>1, <1>2
  <2>2. [qs EXCEPT ![i] = ps[i]] = [j \in 1..Len(ps) |-> [qs EXCEPT ![i] = ps[i]][j]]
    BY <1>1, <1>2
  <2>3. ps = [j \in 1..Len(ps) |-> ps[j]]
    BY <1>1
  <2> QED BY <1>5, <2>1, <2>2, <2>3
<1>7. NameAs(qx[1], i, ps[i].name, px[1].active)
        = [qx[1] EXCEPT !.presets = back, !.active = px[1].active]
  BY DEF NameAs
<1> HIDE DEF back
<1>8. [qx[1] EXCEPT !.presets = ps, !.active = px[1].active] = px[1]
  <2> HIDE DEF ps, qs
  <2>1. px[1].presets = ps
    BY DEF ps
  <2> QED BY <1>1, <1>2, <1>3, <2>1 DEF ProxyRecords
<1> QED
  BY <1>6, <1>7, <1>8

LEMMA RenameSteps ==
  ASSUME NEW op \in Operations, op.tool = "rename_preset", NEW m, m = ToMutation(op),
         NEW px \in Proxies, NEW r, r = Mutated(px, m), r.ok
  PROVE  PresetStep(op, PresetIndex(px, op.name), ActiveIndex(px), Affected(px, m),
                    ProxyOf(px), ProxyOf(r.proxy))
<1> DEFINE i == PresetIndex(px, m.name)
           n == Trim(m.name)
           name == Trim(m.newName)
           active == px # << >> /\ ActiveIs(px, n)
           next == IF active THEN <<name>> ELSE px[1].active
           qx == r.proxy
<1>1. IsMutation(m) /\ m = RenameMutation(op)
  BY MutationIsTyped, MutationOf
<1>2. m.op = "rename" /\ m.name = op.name /\ m.newName = op.newName
  BY <1>1 DEF RenameMutation
<1>3. m.name \in Names /\ m.newName \in Names /\ name \in Names
  BY <1>1, <1>2, MutationIs, TrimIs
<1>4. r = RenamePreset(px, i, n, name, active)
  BY <1>2 DEF Mutated
<1>5. Affected(px, m).name = name
  BY <1>2 DEF Affected
<1>6. ~(IsBlank(n) \/ IsBlank(name) \/ i = 0 \/ RenameTakesAnothers(px, i, n, name))
  <2>1. r # Rejected(px)
    BY DEF Rejected
  <2> HIDE DEF i, n, name, active
  <2> QED BY <1>4, <2>1 DEF RenamePreset
<1>7. qx = <<[px[1] EXCEPT !.presets[i].name = name, !.active = next]>>
  BY <1>4, <1>6 DEF RenamePreset, Done
<1>8. px # << >> /\ i \in DOMAIN px[1].presets /\ (ActiveIndex(px) = i <=> ActiveIs(px, n))
  BY <1>6, ActiveIsNamed
<1>9. next \in Options(Names)
  BY <1>3, <1>8, ProxyIs, OptionOf
<1>10. next = IF ActiveIndex(px) = i THEN <<name>> ELSE px[1].active
  BY <1>8
<1> HIDE DEF i, name, next, n, active, qx
<1>11. NameReplaced(px, qx, i, name, next)
  BY <1>3, <1>7, <1>8, <1>9, NewNameIs
<1>12. NameAs(qx[1], i, px[1].presets[i].name, px[1].active) = px[1]
  BY <1>8, <1>11, NameBack
<1>13. qx # << >> /\ qx[1].presets[i].name = name /\ qx[1].active = next
  BY <1>11 DEF NameReplaced
<1>14. ProxyOf(px) = px[1] /\ ProxyOf(qx) = qx[1]
  BY <1>8, <1>13 DEF ProxyOf
<1>15. PresetStep(op, i, ActiveIndex(px), Affected(px, m), px[1], qx[1])
  BY <1>5, <1>10, <1>12, <1>13 DEF PresetStep, NameAs
<1> QED
  BY <1>2, <1>14, <1>15 DEF i, qx

LEMMA DeleteSteps ==
  ASSUME NEW op \in Operations, op.tool = "delete_preset", NEW m, m = ToMutation(op),
         NEW px \in Proxies, NEW r, r = Mutated(px, m), r.ok
  PROVE  PresetStep(op, PresetIndex(px, op.name), ActiveIndex(px), Affected(px, m),
                    ProxyOf(px), ProxyOf(r.proxy))
<1> DEFINE i == PresetIndex(px, m.name)
           n == Trim(m.name)
           next == IF ActiveIs(px, n) THEN << >> ELSE px[1].active
           now == [px[1] EXCEPT !.presets = RemoveAt(@, i), !.active = next]
<1>1. m = DeleteMutation(op)
  BY MutationOf
<1>2. m.op = "delete" /\ m.name = op.name
  BY <1>1 DEF DeleteMutation
<1>3. r = DeletePreset(px, i, n)
  BY <1>2 DEF Mutated
<1>4. ~(IsBlank(n) \/ i = 0)
  <2>1. r # Rejected(px)
    BY DEF Rejected
  <2> HIDE DEF i, n
  <2> QED BY <1>3, <2>1 DEF DeletePreset
<1>5. r.proxy = <<now>>
  BY <1>3, <1>4 DEF DeletePreset, Done
<1>6. px # << >> /\ (ActiveIndex(px) = i <=> ActiveIs(px, n))
  BY <1>4, ActiveIsNamed
<1>7. next = IF ActiveIndex(px) = i THEN << >> ELSE px[1].active
  BY <1>6
<1>8. px[1] \in ProxyRecords
  BY <1>6, ProxyIs
<1> HIDE DEF i, n, next
<1>9. now.presets = RemoveAt(px[1].presets, i) /\ now.active = next /\ now.enable = px[1].enable
  BY <1>8 DEF ProxyRecords
<1>10. ProxyOf(px) = px[1] /\ ProxyOf(r.proxy) = now
  BY <1>5, <1>6, OneOf DEF ProxyOf
<1> HIDE DEF now
<1>11. PresetStep(op, i, ActiveIndex(px), Affected(px, m), px[1], now)
  BY <1>7, <1>9 DEF PresetStep
<1> QED
  BY <1>2, <1>10, <1>11 DEF i

LEMMA ActivateSteps ==
  ASSUME NEW op \in Operations, op.tool = "set_active_preset", NEW m, m = ToMutation(op),
         NEW px \in Proxies, NEW r, r = Mutated(px, m), r.ok, NEW i, NEW active
  PROVE  PresetStep(op, i, active, Affected(px, m), ProxyOf(px), ProxyOf(r.proxy))
<1> DEFINE next == IF m.name = << >> THEN << >> ELSE <<Trim(m.name[1])>>
           now == [px[1] EXCEPT !.active = next]
           qx == <<now>>
<1>1. IsMutation(m) /\ m = ActivateMutation(op)
  BY MutationIsTyped, MutationOf
<1>2. m.op = "activate" /\ m.name = op.active
  BY <1>1 DEF ActivateMutation
<1>3. m.name \in Options(Names)
  BY <1>1, <1>2, MutationIs
<1>4. next \in Options(Names)
  BY <1>3, OptionIs, OptionOf, TrimIs
<1>5. r = SetActivePreset(px, next)
  BY <1>2 DEF Mutated
<1>6. px # << >> /\ r.proxy = qx
  <2> HIDE DEF next
  <2> QED BY <1>5 DEF SetActivePreset, Rejected, Done
<1>7. px[1] \in ProxyRecords /\ px = <<px[1]>>
  BY <1>6, ProxyIs
<1>n. next = IF m.name = << >> THEN << >> ELSE <<Trim(m.name[1])>>
  OBVIOUS
<1> HIDE DEF next
<1>8. /\ now \in ProxyRecords /\ now.presets = px[1].presets /\ now.active = next
      /\ [now EXCEPT !.active = px[1].active] = px[1]
  BY <1>4, <1>7 DEF ProxyRecords
<1> HIDE DEF now
<1>9. ProxySet(px, qx, now.active, now.enable)
  BY <1>6, <1>8, SettingIs
<1>10. qx \in Proxies /\ qx # << >> /\ qx[1] = now
  BY <1>9, OneOf DEF ProxySet
<1>11. ProxyOf(px) = px[1] /\ ProxyOf(r.proxy) = now
  BY <1>6, <1>10 DEF ProxyOf
<1>12. ASSUME op.active = << >> PROVE now.active = << >>
  BY <1>2, <1>8, <1>n, <1>12
<1>13. ASSUME op.active # << >> PROVE ActiveIndex(<<now>>) = PresetIndex(<<px[1]>>, op.active[1])
  <2>1. next = <<Trim(op.active[1])>> /\ op.active[1] \in Names
    BY <1>2, <1>3, <1>13, <1>n, OptionIs
  <2>2. next # << >> /\ next[1] = Trim(op.active[1])
    BY <2>1, OneOf
  <2>3. Trim(Trim(op.active[1])) = Trim(op.active[1])
    BY <2>1, TrimIs
  <2>4. ActiveIndex(qx) = PresetIndex(qx, Trim(op.active[1]))
    BY <1>8, <1>10, <2>2 DEF ActiveIndex
  <2>5. SameNamed(px, qx)
    BY <1>8, <1>10 DEF SameNamed
  <2>6. PresetIndex(qx, Trim(op.active[1])) = PresetIndex(px, op.active[1])
    <3> HIDE DEF qx
    <3> QED BY <1>6, <1>10, <2>3, <2>5, SameNames
  <2> QED BY <1>7, <2>4, <2>6
<1> QED
  BY <1>8, <1>11, <1>12, <1>13 DEF PresetStep

LEMMA GateSteps ==
  ASSUME NEW op \in Operations, op.tool = "set_mapping_gate", NEW m, m = ToMutation(op),
         NEW px \in Proxies, NEW r, r = Mutated(px, m), r.ok, NEW active
  PROVE  PresetStep(op, PresetIndex(px, NameIn(op)), active, Affected(px, m),
                    ProxyOf(px), ProxyOf(r.proxy))
<1>1. IsMutation(m) /\ m = GateMutation(op) /\ op \in OperationsOf("set_mapping_gate")
  BY MutationIsTyped, MutationOf, OperationIs
<1>2. op.gate \in GateInputs /\ op.enabled \in BOOLEAN
  BY <1>1 DEF OperationsOf
<1>3. CASE op.gate.kind = "global"
  <2>1. m = [op |-> "enable", enabled |-> op.enabled]
    BY <1>1, <1>3 DEF GateMutation
  <2>2. r = SetGlobalEnabled(px, op.enabled)
    BY <2>1 DEF Mutated
  <2> DEFINE now == [px[1] EXCEPT !.enable = op.enabled]
  <2>3. px # << >> /\ r.proxy = <<now>>
    BY <2>2 DEF SetGlobalEnabled, Rejected, Done
  <2>4. ProxyOf(px) = px[1] /\ ProxyOf(r.proxy) = now
    BY <2>3, OneOf DEF ProxyOf
  <2> QED BY <1>3, <2>4 DEF PresetStep
<1>4. CASE op.gate.kind = "table"
  <2>1. m = [op |-> "enable_table", preset |-> op.gate.preset, table |-> op.gate.table,
             enabled |-> op.enabled]
    BY <1>1, <1>4 DEF GateMutation
  <2>2. /\ m.op = "enable_table" /\ m.preset = op.gate.preset /\ m.table = op.gate.table
        /\ m.enabled = op.enabled
    BY <2>1
  <2>3. NameIn(op) = op.gate.preset
    <3>1. "preset" \notin DOMAIN op
      BY <1>1 DEF OperationsOf
    <3> QED BY <1>4, <3>1 DEF NameIn
  <2> DEFINE i == PresetIndex(px, m.preset)
             t == px[1].presets[i][m.table]
             now == [px[1] EXCEPT !.presets[i][m.table].enable = m.enabled]
  <2>4. px # << >> /\ r.proxy = WithTable(px, i, m, TableAfter(m, t))
    BY <1>1, <2>2, TableAccepted DEF TableOps
  <2>5. TableAfter(m, t) = [t EXCEPT !.enable = m.enabled]
    BY <2>2 DEF TableAfter
  <2>6. WithTable(px, i, m, [t EXCEPT !.enable = m.enabled]) = <<now>>
    BY DEF WithTable
  <2>7. ProxyOf(px) = px[1] /\ ProxyOf(r.proxy) = now
    BY <2>4, <2>5, <2>6, OneOf DEF ProxyOf
  <2>8. i = PresetIndex(px, NameIn(op))
    BY <2>2, <2>3
  <2>9. now = [px[1] EXCEPT !.presets[i][op.gate.table].enable = op.enabled]
    BY <2>2
  <2> HIDE DEF i, now
  <2> QED BY <1>4, <2>7, <2>8, <2>9 DEF PresetStep
<1> QED
  BY <1>2, <1>3, <1>4 DEF GateInputs

\* What a tool does, whichever it is.
LEMMA StepsOfTheTools ==
  ASSUME NEW op \in Operations, NEW m, m = ToMutation(op),
         NEW px \in Proxies, NEW r, r = Mutated(px, m), r.ok, r.changed
  PROVE  ToolStep(op, Affected(px, m), px, r.proxy)
<1>1. CASE op.tool \in RuleTools
  BY <1>1, RuleToolSteps
<1>2. CASE op.tool \in PresetTools
  <2>1. PresetStep(op, PresetIndex(px, NameIn(op)), ActiveIndex(px), Affected(px, m),
                   ProxyOf(px), ProxyOf(r.proxy))
    <3>1. CASE op.tool = "create_preset"
      BY <3>1, CreateSteps
    <3>2. CASE op.tool = "rename_preset"
      <4>1. "preset" \notin DOMAIN op
        BY <3>2, OperationIs DEF OperationsOf
      <4>2. NameIn(op) = op.name
        BY <3>2, <4>1 DEF NameIn
      <4> QED BY <3>2, <4>2, RenameSteps
    <3>3. CASE op.tool = "delete_preset"
      <4>1. "preset" \notin DOMAIN op
        BY <3>3, OperationIs DEF OperationsOf
      <4>2. NameIn(op) = op.name
        BY <3>3, <4>1 DEF NameIn
      <4> QED BY <3>3, <4>2, DeleteSteps
    <3>4. CASE op.tool = "set_active_preset"
      BY <3>4, ActivateSteps
    <3>5. CASE op.tool = "set_mapping_gate"
      BY <3>5, GateSteps
    <3> QED BY <1>2, <3>1, <3>2, <3>3, <3>4, <3>5 DEF PresetTools
  <2>2. op.tool \notin RuleTools
    BY <1>2 DEF PresetTools, RuleTools
  <2> QED BY <2>1, <2>2 DEF ToolStep
<1> QED
  BY <1>1, <1>2, OperationIs DEF Tools

\* A tool that says it is idempotent finds nothing to do the second time.
LEMMA Again ==
  ASSUME NEW op \in Operations, op.tool \in Idempotent, NEW m, m = ToMutation(op),
         NEW px \in Proxies, NEW r, r = Mutated(px, m), r.ok,
         NEW again, again = Mutated(r.proxy, m)
  PROVE  again.ok /\ ~again.changed
<1>0. IsMutation(m)
  BY MutationIsTyped
<1>1. CASE m.op = "activate"
  <2> DEFINE next == IF m.name = << >> THEN << >> ELSE <<Trim(m.name[1])>>
             now == [px[1] EXCEPT !.active = next]
             qx == <<now>>
  <2>1. next \in Options(Names)
    BY <1>0, <1>1, MutationIs, OptionIs, OptionOf, TrimIs
  <2>2. r = SetActivePreset(px, next) /\ again = SetActivePreset(r.proxy, next)
    BY <1>1 DEF Mutated
  <2> HIDE DEF next
  <2>3. r # Rejected(px)
    BY DEF Rejected
  <2>4. ~(px = << >> \/ (next # << >> /\ (IsBlank(next[1]) \/ PresetIndex(px, next[1]) = 0)))
    BY <2>2, <2>3 DEF SetActivePreset
  <2>5. r.proxy = qx
    BY <2>2, <2>4 DEF SetActivePreset, Done
  <2>6. now \in ProxyRecords /\ now.presets = px[1].presets /\ now.active = next
    BY <2>1, <2>4, ProxyIs DEF ProxyRecords
  <2> HIDE DEF now
  <2>7. ProxySet(px, qx, now.active, now.enable)
    BY <2>4, <2>6, SettingIs
  <2> HIDE DEF qx
  <2>8. qx # << >> /\ qx[1].active = next /\ \A n : PresetIndex(qx, n) = PresetIndex(px, n)
    BY <2>6, <2>7 DEF ProxySet
  <2>9. ~(qx = << >> \/ (next # << >> /\ (IsBlank(next[1]) \/ PresetIndex(qx, next[1]) = 0)))
    BY <2>4, <2>8
  <2>10. again = Done(<<[qx[1] EXCEPT !.active = next]>>, FALSE)
    BY <2>2, <2>5, <2>8, <2>9 DEF SetActivePreset
  <2> QED BY <2>10 DEF Done
<1>2. CASE m.op = "enable"
  <2> DEFINE now == [px[1] EXCEPT !.enable = m.enabled]
  <2>1. r = SetGlobalEnabled(px, m.enabled) /\ again = SetGlobalEnabled(r.proxy, m.enabled)
    BY <1>2 DEF Mutated
  <2>2. px # << >> /\ r.proxy = <<now>>
    BY <2>1 DEF SetGlobalEnabled, Rejected, Done
  <2>3. px[1] \in ProxyRecords
    BY <2>2, ProxyIs
  <2>4. now.enable = m.enabled
    BY <2>3 DEF ProxyRecords
  <2>5. r.proxy # << >> /\ r.proxy[1].enable = m.enabled
    BY <2>2, <2>4, OneOf
  <2>6. again = Done(<<[r.proxy[1] EXCEPT !.enable = m.enabled]>>, FALSE)
    BY <2>1, <2>5 DEF SetGlobalEnabled
  <2> QED BY <2>6 DEF Done
<1>3. CASE m.op \in {"enable_table", "enable_rule"}
  <2> DEFINE i == PresetIndex(px, m.preset)
             t == px[1].presets[i][m.table]
             u == TableAfter(m, t)
             qx == r.proxy
  <2>1. m.op \in TableOps
    BY <1>3 DEF TableOps
  <2>2. /\ px # << >> /\ i \in DOMAIN px[1].presets /\ m.table \in Tables /\ t \in TableRecords
        /\ qx = WithTable(px, i, m, u) /\ r = MutatedTable(px, i, m, t)
    BY <1>0, <2>1, TableAccepted
  <2>3. u \in TableRecords
    BY <1>0, <2>1, <2>2, TableAfterTyped
  <2>4. ~IsBlank(m.preset) /\ i # 0
    <3>1. r = MutatedPreset(px, i, m)
      BY <2>1 DEF Mutated, TableOps
    <3>2. r # Rejected(px)
      BY DEF Rejected
    <3> HIDE DEF i
    <3> QED BY <3>1, <3>2 DEF MutatedPreset
  <2> HIDE DEF u, qx
  <2>5. TableReplaced(px, qx, i, m.table, u)
    <3> HIDE DEF i, t
    <3> QED BY <2>2, <2>3, WithTableIs
  <2>6. qx \in Proxies /\ qx # << >> /\ qx[1].presets[i][m.table] = u /\ SameNamed(px, qx)
    <3> HIDE DEF i
    <3> QED BY <2>2, <2>5 DEF TableReplaced, SameNamed
  <2>7. PresetIndex(qx, m.preset) = i
    <3>1. px # << >> /\ qx \in Proxies /\ qx # << >> /\ SameNamed(px, qx)
      BY <2>2, <2>6
    <3>2. PresetIndex(qx, m.preset) = PresetIndex(px, m.preset)
      <4> HIDE DEF i, t
      <4> QED BY <3>1, SameNames
    <3> QED BY <3>2
  <2> HIDE DEF i
  <2>8. again = MutatedTable(qx, i, m, u)
    <3>1. again = Mutated(qx, m)
      BY DEF qx
    <3>2. again = MutatedPreset(qx, i, m)
      BY <2>1, <2>7, <3>1 DEF Mutated, TableOps
    <3> QED BY <2>4, <2>6, <3>2 DEF MutatedPreset
  <2>t. u = TableAfter(m, t)
    BY DEF u
  <2> HIDE DEF t
  <2>9. CASE m.op = "enable_table"
    <3>1. u.enable = m.enabled
      BY <2>2, <2>9, <2>t DEF TableAfter, TableRecords
    <3>2. again = Done(WithTable(qx, i, m, [u EXCEPT !.enable = m.enabled]), FALSE)
      BY <2>8, <2>9, <3>1 DEF MutatedTable, SetTableEnabled
    <3> QED BY <3>2 DEF Done
  <2>10. CASE m.op = "enable_rule"
    <3> DEFINE s == t.rules
               v == [s EXCEPT ![m.index].enable = m.enabled]
    <3>1. m.index \in DOMAIN t.rules
      BY <2>2, <2>10, AcceptedAt
    <3>2. /\ s \in Seq(RuleRecords) /\ Len(s) \in Nat /\ DOMAIN s = 1..Len(s)
          /\ \A k \in DOMAIN s : s[k] \in RuleRecords
      BY <2>2, TableIs
    <3>3. u = [t EXCEPT !.rules = v]
      BY <2>10, <2>t, <3>1 DEF TableAfter
    <3>4. u.rules = v
      BY <2>2, <3>3 DEF TableRecords
    <3>5. m.index \in DOMAIN v /\ v[m.index].enable = m.enabled
      BY <3>1, <3>2 DEF RuleRecords
    <3>6. again = Done(WithRules(qx, i, m, [u.rules EXCEPT ![m.index].enable = m.enabled]), FALSE)
      BY <2>8, <2>10, <3>4, <3>5 DEF MutatedTable, SetRuleEnabled
    <3> QED BY <3>6 DEF Done
  <2> QED BY <1>3, <2>9, <2>10
<1>4. m.op \in {"activate", "enable", "enable_table", "enable_rule"}
  <2>1. CASE op.tool = "set_active_preset"
    BY <2>1, MutationOf DEF ActivateMutation
  <2>2. CASE op.tool = "set_mapping_gate"
    BY <2>2, MutationOf DEF GateMutation
  <2>3. CASE op.tool = "set_mapping_rule_enabled"
    BY <2>3, MutationOf DEF EnableRuleMutation
  <2> QED BY <2>1, <2>2, <2>3 DEF Idempotent
<1> QED
  BY <1>1, <1>2, <1>3, <1>4

\* A preview mutates as the tool it previews.
LEMMA PreviewedIs ==
  ASSUME NEW op \in Operations, NEW revision
  PROVE  PreviewedMutation(op, revision) = ToMutation(op)
<1> DEFINE more == InputOf(op, revision)
<1>1. \A x \in DOMAIN op : x # "expected" => more[x] = op[x]
  BY DEF InputOf
<1>2. "tool" \in DOMAIN op
  BY OperationIs, ToolsAre DEF OperationsOf
<1>3. more.tool = op.tool
  BY <1>1, <1>2
<1> HIDE DEF more
<1>4. ToMutation(more) = ToMutation(op)
  <2>1. CASE op.tool = "create_preset"
    <3>1. {"name", "initial"} \subseteq DOMAIN op
      BY <2>1, OperationIs DEF OperationsOf
    <3>2. more.name = op.name /\ more.initial = op.initial
      BY <1>1, <3>1
    <3> QED BY <1>3, <2>1, <3>2 DEF ToMutation, RuleTools, PresetMutation, CreateMutation
  <2>2. CASE op.tool = "rename_preset"
    <3>1. {"name", "newName"} \subseteq DOMAIN op
      BY <2>2, OperationIs DEF OperationsOf
    <3>2. more.name = op.name /\ more.newName = op.newName
      BY <1>1, <3>1
    <3> QED BY <1>3, <2>2, <3>2 DEF ToMutation, RuleTools, PresetMutation, RenameMutation
  <2>3. CASE op.tool = "delete_preset"
    <3>1. "name" \in DOMAIN op
      BY <2>3, OperationIs DEF OperationsOf
    <3>2. more.name = op.name
      BY <1>1, <3>1
    <3> QED BY <1>3, <2>3, <3>2 DEF ToMutation, RuleTools, PresetMutation, DeleteMutation
  <2>4. CASE op.tool = "set_active_preset"
    <3>1. "active" \in DOMAIN op
      BY <2>4, OperationIs DEF OperationsOf
    <3>2. more.active = op.active
      BY <1>1, <3>1
    <3> QED BY <1>3, <2>4, <3>2 DEF ToMutation, RuleTools, PresetMutation, ActivateMutation
  <2>5. CASE op.tool = "set_mapping_gate"
    <3>1. {"gate", "enabled"} \subseteq DOMAIN op
      BY <2>5, OperationIs DEF OperationsOf
    <3>2. more.gate = op.gate /\ more.enabled = op.enabled
      BY <1>1, <3>1
    <3> QED BY <1>3, <2>5, <3>2 DEF ToMutation, RuleTools, PresetMutation, GateMutation
  <2>6. CASE op.tool = "create_mapping_rule"
    <3>1. {"preset", "table", "index", "rule"} \subseteq DOMAIN op
      BY <2>6, OperationIs DEF OperationsOf
    <3>2. /\ more.preset = op.preset /\ more.table = op.table
          /\ more.index = op.index /\ more.rule = op.rule
      BY <1>1, <3>1
    <3> QED BY <1>3, <2>6, <3>2 DEF ToMutation, RuleTools, RuleMutation, CreateRuleMutation
  <2>7. CASE op.tool = "update_mapping_rule"
    <3>1. {"preset", "table", "index", "from", "to"} \subseteq DOMAIN op
      BY <2>7, OperationIs DEF OperationsOf
    <3>2. /\ more.preset = op.preset /\ more.table = op.table
          /\ more.index = op.index /\ more.from = op.from /\ more.to = op.to
      BY <1>1, <3>1
    <3> QED BY <1>3, <2>7, <3>2 DEF ToMutation, RuleTools, RuleMutation, UpdateRuleMutation
  <2>8. CASE op.tool = "delete_mapping_rule"
    <3>1. {"preset", "table", "index"} \subseteq DOMAIN op
      BY <2>8, OperationIs DEF OperationsOf
    <3>2. more.preset = op.preset /\ more.table = op.table /\ more.index = op.index
      BY <1>1, <3>1
    <3> QED BY <1>3, <2>8, <3>2 DEF ToMutation, RuleTools, RuleMutation, DeleteRuleMutation
  <2>9. CASE op.tool = "move_mapping_rule"
    <3>1. {"preset", "table", "from", "to"} \subseteq DOMAIN op
      BY <2>9, OperationIs DEF OperationsOf
    <3>2. /\ more.preset = op.preset /\ more.table = op.table
          /\ more.from = op.from /\ more.to = op.to
      BY <1>1, <3>1
    <3> QED BY <1>3, <2>9, <3>2 DEF ToMutation, RuleTools, RuleMutation, MoveRuleMutation
  <2>10. CASE op.tool = "set_mapping_rule_enabled"
    <3>1. {"preset", "table", "index", "enabled"} \subseteq DOMAIN op
      BY <2>10, OperationIs DEF OperationsOf
    <3>2. /\ more.preset = op.preset /\ more.table = op.table
          /\ more.index = op.index /\ more.enabled = op.enabled
      BY <1>1, <3>1
    <3> QED BY <1>3, <2>10, <3>2 DEF ToMutation, RuleTools, RuleMutation, EnableRuleMutation
  <2> QED BY <2>1, <2>2, <2>3, <2>4, <2>5, <2>6, <2>7, <2>8, <2>9, <2>10, OperationIs, ToolsAre
<1> QED
  BY <1>4 DEF PreviewedMutation, more

\* What an accepted mutation acted on.
LEMMA AffectedIs ==
  ASSUME NEW px \in Proxies, NEW m, IsMutation(m), Mutated(px, m).ok
  PROVE  Affected(px, m) \in Refs
<1>1. CASE m.op \in {"create", "delete"}
  BY <1>1, MutationIs, TrimIs DEF Affected, PresetRef, Refs
<1>2. CASE m.op = "rename"
  BY <1>2, MutationIs, TrimIs DEF Affected, Refs
<1>3. CASE m.op \in {"activate", "enable"}
  BY <1>3 DEF Affected, Refs
<1>4. CASE m.op \in TableOps
  <2> DEFINE i == PresetIndex(px, m.preset)
             t == px[1].presets[i][m.table]
  <2>1. m.table \in Tables /\ t \in TableRecords
    BY <1>4, TableAccepted
  <2>2. m.preset \in Names /\ Trim(m.preset) \in Names
    BY <1>4, MutationIs, TrimIs
  <2>3. CASE m.op = "enable_table"
    BY <2>1, <2>2, <2>3 DEF Affected, TableRef, Refs
  <2>4. CASE m.op = "insert_rule"
    <3>1. t.rules \in Seq(RuleRecords) /\ m.index \in Options(Indices)
      BY <2>1, <2>4, TableIs, MutationIs
    <3>2. Place(m, t.rules) \in Indices
      BY <3>1, PlaceIs
    <3>3. Affected(px, m) = RuleRef(Trim(m.preset), m.table, Place(m, t.rules) - 1)
      BY <2>4 DEF Affected, AffectedPlace
    <3>4. Place(m, t.rules) - 1 \in Int
      BY <3>2 DEF Indices
    <3> HIDE DEF t
    <3> QED BY <2>1, <2>2, <3>3, <3>4 DEF RuleRef, Refs
  <2>5. CASE m.op = "move_rule"
    <3>1. m.to - 1 \in Int
      BY <2>5, MutationIs DEF Indices
    <3> QED BY <2>1, <2>2, <2>5, <3>1 DEF Affected, RuleRef, Refs
  <2>6. CASE m.op \in {"update_rule", "delete_rule", "enable_rule"}
    <3>1. m.index - 1 \in Int
      BY <2>6, MutationIs DEF Indices
    <3>2. Affected(px, m) = RuleRef(Trim(m.preset), m.table, m.index - 1)
      BY <2>6 DEF Affected
    <3> QED BY <2>1, <2>2, <3>1, <3>2 DEF RuleRef, Refs
  <2> QED BY <1>4, <2>3, <2>4, <2>5, <2>6 DEF TableOps
<1> QED
  BY <1>1, <1>2, <1>3, <1>4, MutationIs DEF Ops

(***************************************************************************)
(* The view of the rules.                                                  *)
(***************************************************************************)
Rising(s) == \A i, j \in DOMAIN s : i < j => s[i] < s[j]

LEMMA RisingExists ==
  ASSUME NEW S, IsFiniteSet(S), S \subseteq Nat
  PROVE  \E s \in [1..Cardinality(S) -> S] : Rising(s)
<1> DEFINE G == {U \in SUBSET S : \E s \in [1..Cardinality(U) -> U] : Rising(s)}
<1>1. ASSUME NEW U \in SUBSET S, \A V \in SUBSET U : V # U => V \in G
      PROVE  U \in G
  <2>0. IsFiniteSet(U) /\ U \subseteq Nat
    BY FS_Subset
  <2>1. CASE U = {}
    <3>1. Cardinality(U) = 0
      BY <2>1, FS_EmptySet
    <3>2. PICK s : s = [i \in 1..0 |-> i]
      OBVIOUS
    <3>3. s \in [1..0 -> U] /\ Rising(s)
      BY <3>2 DEF Rising
    <3> QED BY <3>1, <3>3
  <2>2. CASE U # {}
    <3>1. PICK last \in U : \A z \in U : z <= last
      <4>1. U \subseteq Int
        BY <2>0
      <4> QED BY <2>0, <2>2, <4>1, HasExtremes
    <3>2. PICK V : V = U \ {last}
      OBVIOUS
    <3>3. V \in SUBSET U /\ V # U /\ Cardinality(V) = Cardinality(U) - 1
      BY <2>0, <3>2, FS_RemoveElement
    <3>4. V \in G
      <4> HIDE DEF G
      <4> QED BY <1>1, <3>3
    <3>5. PICK f \in [1..Cardinality(V) -> V] : Rising(f)
      BY <3>4
    <3>6. PICK n \in Nat : n = Cardinality(U) /\ n - 1 = Cardinality(V) /\ n - 1 \in Nat
      <4>1. Cardinality(U) \in Nat /\ Cardinality(V) \in Nat
        BY <2>0, <3>3, FS_Subset, FS_CardinalityType
      <4> QED BY <3>3, <4>1
    <3>7. PICK s : s = [i \in 1..n |-> IF i = n THEN last ELSE f[i]]
      OBVIOUS
    <3>8. ASSUME NEW i \in 1..n, i # n
          PROVE  i \in 1..Cardinality(V) /\ f[i] \in V /\ f[i] < last
      <4>1. i \in 1..Cardinality(V)
        BY <3>6, <3>8
      <4>2. f[i] \in V
        BY <4>1
      <4>3. f[i] \in U /\ f[i] # last /\ f[i] \in Nat /\ last \in Nat
        BY <2>0, <3>2, <4>2
      <4> QED BY <3>1, <4>1, <4>2, <4>3
    <3>9. s \in [1..n -> U]
      BY <3>3, <3>7, <3>8
    <3>10. Rising(s)
      <4>1. SUFFICES ASSUME NEW i \in 1..n, NEW j \in 1..n, i < j PROVE s[i] < s[j]
        BY <3>7 DEF Rising
      <4>2. i # n /\ s[i] = f[i] /\ i \in DOMAIN f
        BY <3>7, <3>8, <4>1
      <4>3. CASE j = n
        BY <3>7, <3>8, <4>2, <4>3
      <4>4. CASE j # n
        <5>1. s[j] = f[j] /\ j \in DOMAIN f
          BY <3>7, <3>8, <4>4
        <5> QED BY <3>5, <4>1, <4>2, <5>1 DEF Rising
      <4> QED BY <4>3, <4>4
    <3> QED BY <3>6, <3>9, <3>10
  <2> QED BY <2>1, <2>2
<1>2. S \in G
  <2> HIDE DEF G
  <2> QED BY <1>1, SetInduction
<1> QED BY <1>2

\* A rising sequence of n of the numbers up to n is all of them in their order.
LEMMA RisingIsAll ==
  ASSUME NEW n \in Nat, NEW s \in [1..n -> 1..n], Rising(s)
  PROVE  \A i \in 1..n : s[i] = i
<1> DEFINE low == {i \in 1..n : s[i] < i}
           high == {i \in 1..n : s[i] > i}
<1>0. ASSUME NEW I \in SUBSET (1..n), I # {}
      PROVE  \E x, y \in I : \A z \in I : x <= z /\ z <= y
  <2>1. IsFiniteSet(1..n)
    BY FS_Interval
  <2>2. IsFiniteSet(I)
    BY <2>1, FS_Subset
  <2>3. I \subseteq Int
    OBVIOUS
  <2> QED BY <1>0, <2>2, <2>3, HasExtremes
<1>1. low = {}
  <2> SUFFICES ASSUME low # {} PROVE FALSE
    OBVIOUS
  <2>1. PICK x \in low : \A z \in low : x <= z
    BY <1>0
  <2>2. x \in 1..n /\ s[x] \in 1..n /\ s[x] < x
    OBVIOUS
  <2>3. x - 1 \in 1..n /\ x - 1 < x /\ x - 1 \notin low
    BY <2>1, <2>2
  <2>4. s[x - 1] \in 1..n /\ s[x - 1] >= x - 1
    BY <2>3
  <2>5. s[x - 1] < s[x]
    BY <2>2, <2>3 DEF Rising
  <2> QED BY <2>2, <2>4, <2>5
<1>2. high = {}
  <2> SUFFICES ASSUME high # {} PROVE FALSE
    OBVIOUS
  <2>1. PICK x \in high : \A z \in high : z <= x
    BY <1>0
  <2>2. x \in 1..n /\ s[x] \in 1..n /\ s[x] > x
    OBVIOUS
  <2>3. x + 1 \in 1..n /\ x < x + 1 /\ x + 1 \notin high
    BY <2>1, <2>2
  <2>4. s[x + 1] \in 1..n /\ s[x + 1] <= x + 1
    BY <2>3
  <2>5. s[x] < s[x + 1]
    BY <2>2, <2>3 DEF Rising
  <2> QED BY <2>2, <2>4, <2>5
<1>3. ASSUME NEW i \in 1..n PROVE s[i] = i
  <2>1. i \notin low /\ i \notin high /\ s[i] \in 1..n
    BY <1>1, <1>2
  <2> QED BY <2>1
<1> QED
  BY <1>3

LEMMA InOrderIs ==
  ASSUME NEW n \in Nat, NEW S \in SUBSET (1..n), NEW s, s = InOrder(S)
  PROVE  /\ Cardinality(S) \in 0..n /\ s \in [1..Cardinality(S) -> 1..n]
         /\ Len(s) = Cardinality(S)
         /\ Len(s) = n => \A i \in 1..n : s[i] = i
<1>1. IsFiniteSet(1..n) /\ Cardinality(1..n) = n
  BY FS_Interval
<1>2. IsFiniteSet(S) /\ Cardinality(S) \in Nat /\ Cardinality(S) <= n
  BY <1>1, FS_Subset, FS_CardinalityType
<1>3. S \subseteq Nat
  OBVIOUS
<1>4. s \in [1..Cardinality(S) -> S] /\ Rising(s)
  BY <1>2, <1>3, RisingExists DEF InOrder, Rising
<1>5. s \in [1..Cardinality(S) -> 1..n] /\ Cardinality(S) \in 0..n
  <2>1. Cardinality(S) \in 0..n
    BY <1>2
  <2>2. PICK count : count = Cardinality(S)
    OBVIOUS
  <2>3. s \in [1..count -> S]
    BY <1>4, <2>2
  <2>4. s \in [1..count -> 1..n]
    BY <2>3
  <2> QED BY <2>1, <2>2, <2>4
<1>6. Len(s) = Cardinality(S)
  <2>1. PICK size \in Nat : size = Cardinality(S)
    BY <1>2
  <2>2. s \in [1..size -> S]
    BY <1>4, <2>1
  <2>3. s \in Seq(S) /\ Len(s) = size
    BY <2>2, IsASeq
  <2> QED BY <2>1, <2>3
<1>7. ASSUME Len(s) = n PROVE \A i \in 1..n : s[i] = i
  <2>1. s \in [1..n -> 1..n]
    BY <1>5, <1>6, <1>7
  <2> QED BY <1>4, <2>1, RisingIsAll
<1> QED
  BY <1>5, <1>6, <1>7

LEMMA DefaultedIs ==
  \A e \in BOOLEAN : Defaulted(<<e>>) = e
<1> TAKE e \in BOOLEAN
<1>1. CASE e = TRUE
  BY <1>1 DEF Defaulted
<1>2. CASE e = FALSE
  <2>1. <<e>> # << >> /\ <<e>> # <<TRUE>>
    <3>1. <<e>>[1] = e /\ <<TRUE>>[1] = TRUE /\ Len(<<e>>) = 1 /\ Len(<< >>) = 0
      OBVIOUS
    <3> QED BY <1>2, <3>1
  <2> QED BY <1>2, <2>1 DEF Defaulted
<1> QED
  BY <1>1, <1>2

\* A rule in a view is the rule.
LEMMA RuleShown ==
  ASSUME NEW i \in Int, NEW rule \in RuleRecords
  PROVE  /\ RuleFrom(RuleView(i, rule)) = rule /\ RuleView(i, rule).index + 1 = i
<1>1. rule.enable \in BOOLEAN
  BY DEF RuleRecords
<1>2. Defaulted(<<rule.enable>>) = rule.enable
  BY <1>1, DefaultedIs
<1>3. RuleFrom(RuleView(i, rule)) = [from |-> rule.from, to |-> rule.to, enable |-> rule.enable]
  BY <1>2 DEF RuleFrom, RuleView
<1> QED
  BY <1>3 DEF RuleView, RuleRecords

LEMMA TableShownIs ==
  ASSUME NEW table \in TableRecords, NEW included \in BOOLEAN,
         NEW shown, shown = TableView(table, included)
  PROVE  TableShown(shown, table) /\ (included => TableFrom(shown) = table)
<1> DEFINE rules == table.rules
           seen == [i \in DOMAIN rules |-> RuleView(i, rules[i])]
<1>1. /\ table.enable \in BOOLEAN /\ rules \in Seq(RuleRecords)
      /\ Len(rules) \in Nat /\ DOMAIN rules = 1..Len(rules)
      /\ \A k \in DOMAIN rules : rules[k] \in RuleRecords
  BY TableIs
<1>2. CASE included
  <2>1. /\ shown.enabled = <<table.enable>> /\ shown.omitted = 0 /\ shown.rules = seen
    BY <1>2 DEF TableView
  <2>2. DOMAIN seen = 1..Len(rules) /\ Len(seen) = Len(rules)
    BY <1>1
  <2>3. ASSUME NEW k \in 1..Len(rules)
        PROVE  RuleFrom(seen[k]) = rules[k] /\ seen[k].index + 1 = k
    <3>1. seen[k] = RuleView(k, rules[k]) /\ k \in Int /\ rules[k] \in RuleRecords
      BY <1>1
    <3> QED BY <3>1, RuleShown
  <2> HIDE DEF seen
  <2>4. \A k \in DOMAIN shown.rules :
          RuleFrom(shown.rules[k]) = table.rules[shown.rules[k].index + 1]
    BY <2>1, <2>2, <2>3
  <2>5. Len(shown.rules) + shown.omitted = Len(table.rules)
    BY <1>1, <2>1, <2>2
  <2>6. TableShown(shown, table)
    BY <2>1, <2>4, <2>5 DEF TableShown
  <2>7. Defaulted(shown.enabled) = table.enable
    BY <1>1, <2>1, DefaultedIs
  <2>8. [i \in DOMAIN shown.rules |-> RuleFrom(shown.rules[i])] = rules
    <3>1. [i \in 1..Len(rules) |-> RuleFrom(seen[i])] = [i \in 1..Len(rules) |-> rules[i]]
      BY <2>3
    <3> QED BY <1>1, <2>1, <2>2, <3>1
  <2>9. TableFrom(shown) = [enable |-> table.enable, rules |-> rules]
    BY <2>7, <2>8 DEF TableFrom
  <2>10. TableFrom(shown) = table
    BY <2>9 DEF TableRecords
  <2> QED BY <2>6, <2>10
<1>3. CASE ~included
  <2>1. shown.enabled = <<table.enable>> /\ shown.omitted = Len(rules) /\ shown.rules = << >>
    BY <1>3 DEF TableView
  <2>2. Len(shown.rules) = 0 /\ DOMAIN shown.rules = {}
    BY <2>1
  <2> QED BY <1>1, <1>3, <2>1, <2>2 DEF TableShown
<1> QED
  BY <1>2, <1>3

LEMMA PresetShownIs ==
  ASSUME NEW i \in Int, NEW preset \in PresetRecords, NEW table,
         NEW shown, shown = PresetView(i, preset, table)
  PROVE  /\ PresetShown(shown, preset) /\ shown.index + 1 = i
         /\ table = << >> => PresetFrom(shown.name, shown) = preset
<1>1. preset.remote \in TableRecords /\ preset.local \in TableRecords
  BY DEF PresetRecords
<1>2. /\ shown.index = i - 1 /\ shown.name = preset.name
      /\ shown.remote = TableView(preset.remote, table # <<"local">>)
      /\ shown.local = TableView(preset.local, table # <<"remote">>)
  BY DEF PresetView
<1>3. PresetShown(shown, preset)
  BY <1>1, <1>2, TableShownIs DEF PresetShown
<1>4. ASSUME table = << >> PROVE PresetFrom(shown.name, shown) = preset
  <2>1. (table # <<"local">>) = TRUE /\ (table # <<"remote">>) = TRUE
    <3>1. \A x : << >> # <<x>>
      OBVIOUS
    <3> QED BY <1>4, <3>1
  <2>2. shown.remote = TableView(preset.remote, TRUE) /\ shown.local = TableView(preset.local, TRUE)
    BY <1>2, <2>1
  <2>3. TableFrom(shown.remote) = preset.remote /\ TableFrom(shown.local) = preset.local
    BY <1>1, <2>2, TableShownIs
  <2>4. PresetFrom(shown.name, shown)
          = [name |-> preset.name, remote |-> preset.remote, local |-> preset.local]
    BY <1>2, <2>3 DEF PresetFrom
  <2> QED BY <2>4 DEF PresetRecords
<1> QED
  BY <1>2, <1>3, <1>4

LEMMA ProjectionIs ==
  ASSUME NEW proxy \in ProxyRecords, NEW scope, NEW v, v = Projection(proxy, scope)
  PROVE  ViewIsTrue(v, proxy)
<1> DEFINE n == Len(proxy.presets)
           S == {i \in DOMAIN proxy.presets : InScope(proxy.presets[i], scope)}
           s == InOrder(S)
           seen == [k \in DOMAIN s |-> PresetView(s[k], proxy.presets[s[k]], scope.table)]
<1>1. /\ proxy.presets \in Seq(PresetRecords) /\ n \in Nat /\ DOMAIN proxy.presets = 1..n
      /\ proxy.enable \in BOOLEAN
  BY LenProperties DEF ProxyRecords
<1>2. S \in SUBSET (1..n)
  BY <1>1
<1>3. s = ScopedIndices(proxy, scope)
  BY DEF ScopedIndices
<1>4. /\ v.enabled = <<proxy.enable>> /\ v.active = proxy.active /\ v.scope = scope
      /\ v.total = n /\ v.omitted = n - Len(s) /\ v.presets = seen
  BY <1>3 DEF Projection, ProjectionOf
<1>5. s = InOrder(S)
  OBVIOUS
<1> HIDE DEF n, S, s
<1>6. /\ Cardinality(S) \in 0..n /\ s \in [1..Cardinality(S) -> 1..n] /\ Len(s) = Cardinality(S)
      /\ Len(s) = n => \A i \in 1..n : s[i] = i
  BY <1>1, <1>2, <1>5, InOrderIs
<1>7. Len(s) \in Nat /\ DOMAIN s = 1..Len(s) /\ DOMAIN seen = 1..Len(s) /\ Len(seen) = Len(s)
  BY <1>6
<1>8. v.total = Len(proxy.presets) /\ v.total = v.omitted + Len(v.presets)
  <2>1. Len(v.presets) = Len(s)
    BY <1>4, <1>7
  <2> QED BY <1>1, <1>4, <1>7, <2>1 DEF n
<1>9. ASSUME NEW k \in 1..Len(s)
      PROVE  /\ PresetShown(seen[k], proxy.presets[seen[k].index + 1])
             /\ scope.table = << >> => PresetFrom(seen[k].name, seen[k]) = proxy.presets[s[k]]
  <2>1. seen[k] = PresetView(s[k], proxy.presets[s[k]], scope.table)
    BY <1>7
  <2>2. s[k] \in 1..n /\ s[k] \in Int
    BY <1>6
  <2>3. proxy.presets[s[k]] \in PresetRecords
    BY <1>1, <2>2
  <2>4. PICK shown, preset, table, i :
          shown = seen[k] /\ preset = proxy.presets[s[k]] /\ table = scope.table /\ i = s[k]
    OBVIOUS
  <2> HIDE DEF seen
  <2>5. i \in Int /\ preset \in PresetRecords /\ shown = PresetView(i, preset, table)
    BY <2>1, <2>2, <2>3, <2>4
  <2>6. /\ PresetShown(shown, preset) /\ shown.index + 1 = i
        /\ table = << >> => PresetFrom(shown.name, shown) = preset
    BY <2>5, PresetShownIs
  <2>7. proxy.presets[shown.index + 1] = preset
    BY <2>4, <2>6
  <2> QED BY <2>4, <2>6, <2>7
<1>10. ASSUME IsWhole(v) PROVE ProxyFrom(v) = proxy
  <2>0. v.omitted = 0 /\ v.scope.table = << >>
    BY <1>10 DEF IsWhole
  <2>1. Len(s) = n /\ scope.table = << >>
    <3>1. n - Len(s) = 0 /\ n \in Nat /\ Len(s) \in Nat
      BY <1>1, <1>4, <1>7, <2>0
    <3>2. scope.table = << >>
      BY <1>4, <2>0
    <3>3. Len(s) = n
      BY <3>1
    <3> QED BY <3>2, <3>3
  <2>2. \A k \in 1..n : s[k] = k
    BY <1>6, <2>1
  <2> DEFINE back == [i \in DOMAIN v.presets |-> PresetFrom(v.presets[i].name, v.presets[i])]
  <2> HIDE DEF seen
  <2>3. back = [i \in 1..n |-> PresetFrom(seen[i].name, seen[i])]
    BY <1>4, <1>7, <2>1
  <2>4. \A i \in 1..n : PresetFrom(seen[i].name, seen[i]) = proxy.presets[i]
    BY <1>9, <2>1, <2>2
  <2>5. back = proxy.presets
    BY <1>1, <2>3, <2>4
  <2>6. Defaulted(v.enabled) = proxy.enable
    BY <1>1, <1>4, DefaultedIs
  <2>7. ProxyFrom(v) = [enable |-> proxy.enable, active |-> proxy.active, presets |-> proxy.presets]
    BY <1>4, <2>5, <2>6 DEF ProxyFrom
  <2> QED BY <2>7 DEF ProxyRecords
<1> HIDE DEF seen
<1>11. \A k \in DOMAIN v.presets : PresetShown(v.presets[k], proxy.presets[v.presets[k].index + 1])
  BY <1>4, <1>7, <1>9
<1> QED
  BY <1>8, <1>10, <1>11 DEF ViewIsTrue

(***************************************************************************)
(* What the invariant says of the tools.                                   *)
(***************************************************************************)
LEMMA RevisionIs ==
  ASSUME ToolsTypes, NEW r \in 1..Newest
  PROVE  revisions[r] \in ToolDocuments /\ revisions[r].proxy \in Proxies
<1>1. revisions[r] \in ToolDocuments
  BY ElementOfSeq DEF ToolsTypes, Newest
<1> QED
  BY <1>1 DEF ToolDocuments

LEMMA MakersAre ==
  ASSUME ToolsTypes
  PROVE  /\ Newest \in Nat /\ Newest >= 1 /\ DOMAIN revisions = 1..Newest
         /\ DOMAIN makers = 1..(Newest - 1) /\ Len(makers) = Newest - 1
         /\ \A r \in DOMAIN makers : r \in 1..Newest /\ r + 1 \in 1..Newest
<1>1. Newest \in Nat /\ DOMAIN revisions = 1..Newest
  BY LenProperties DEF ToolsTypes, Newest
<1>2. Newest # 0
  BY EmptySeq DEF ToolsTypes, Newest
<1>3. DOMAIN makers = 1..(Newest - 1) /\ Len(makers) = Newest - 1
  BY LenProperties DEF ToolsTypes
<1> QED
  BY <1>1, <1>2, <1>3

MadeFrom(r, op, px, m, result) ==
  /\ op = makers[r].op /\ px = revisions[r].proxy
  /\ m = ToMutation(op) /\ result = Mutated(px, m)
  /\ op \in Operations /\ px \in Proxies /\ makers[r].id \in 1..spent.calls
  /\ result.ok /\ result.changed /\ result.proxy = revisions[r + 1].proxy
  /\ Compiles([revisions[r] EXCEPT !.proxy = result.proxy])
  /\ makers[r].affected = Affected(px, m)

\* The client's revisions are what its mutations made.
LEMMA MadeIs ==
  ASSUME ToolsTypes, Histories, NEW r \in DOMAIN makers, makers[r] # Others
  PROVE  \E op, px, m, result : MadeFrom(r, op, px, m, result)
<1>0. PICK op, px, m, result : /\ op = makers[r].op /\ px = revisions[r].proxy
                               /\ m = ToMutation(op) /\ result = Mutated(px, m)
  OBVIOUS
<1>1. r \in 1..Newest /\ r + 1 \in 1..Newest
  BY MakersAre
<1>2. revisions[r] \in ToolDocuments /\ px \in Proxies
  BY <1>0, <1>1, RevisionIs
<1>3. Made(r)
  BY DEF Histories
<1>4. makers[r] \in MakerRecords /\ makers[r].id <= spent.calls
  BY <1>3 DEF Made
<1>5. op \in Operations /\ makers[r].id \in 1..spent.calls
  BY <1>0, <1>4 DEF MakerRecords, ToolsTypes
<1>6. /\ result.ok /\ result.changed /\ Compiles(revisions[r + 1])
      /\ revisions[r + 1] = [revisions[r] EXCEPT !.proxy = result.proxy]
      /\ makers[r].affected = Affected(px, m)
  BY <1>0, <1>3 DEF Made
<1>7. revisions[r + 1].proxy = result.proxy
  BY <1>2, <1>6 DEF ToolDocuments
<1>8. MadeFrom(r, op, px, m, result)
  BY <1>0, <1>2, <1>5, <1>6, <1>7 DEF MadeFrom
<1> QED
  BY <1>8

LEMMA NamedIsChanged ==
  ASSUME ToolsTypes, Histories
  PROVE  ChangesWhatWasNamed
<1> SUFFICES ASSUME NEW r \in DOMAIN makers, makers[r] # Others
             PROVE  ToolStep(makers[r].op, makers[r].affected, revisions[r].proxy,
                             revisions[r + 1].proxy)
  BY DEF ChangesWhatWasNamed
<1>1. PICK op, px, m, result : MadeFrom(r, op, px, m, result)
  BY MadeIs
<1>2. ToolStep(op, Affected(px, m), px, result.proxy)
  BY <1>1, StepsOfTheTools DEF MadeFrom
<1> QED
  BY <1>1, <1>2 DEF MadeFrom

LEMMA DoneOnce ==
  ASSUME ToolsTypes, Histories, Once
  PROVE  NothingTwice
<1>1. ASSUME NEW r \in DOMAIN makers, makers[r] # Others, makers[r].op.tool \in Idempotent
      PROVE  \E again \in {Mutated(revisions[r + 1].proxy, ToMutation(makers[r].op))} :
               again.ok /\ ~again.changed
  <2>1. PICK op, px, m, result : MadeFrom(r, op, px, m, result)
    BY <1>1, MadeIs
  <2>2. PICK again : again = Mutated(result.proxy, m)
    OBVIOUS
  <2>3. again.ok /\ ~again.changed
    BY <1>1, <2>1, <2>2, Again DEF MadeFrom
  <2> QED BY <2>1, <2>2, <2>3 DEF MadeFrom
<1> QED
  BY <1>1 DEF NothingTwice, Once

LEMMA ViewsTell ==
  ASSUME ToolsTypes, CallSound, AnswerSound
  PROVE  ViewsAreTrue
<1> SUFFICES ASSUME ViewGiven
             PROVE  ViewIsTrue(call.answer.view, ProxyOf(revisions[call.taken].proxy))
  BY DEF ViewsAreTrue
<1>1. call.taken \in 1..Newest
  BY DEF ViewGiven, CallSound
<1>2. PICK proxy : proxy = ProxyOf(revisions[call.taken].proxy)
  OBVIOUS
<1>3. proxy \in ProxyRecords
  BY <1>1, <1>2, RevisionIs, ProxyOfIs
<1>4. call.answer.view = Projection(proxy, call.op)
  BY <1>2 DEF ViewGiven, AnswerSound
<1> QED
  BY <1>2, <1>3, <1>4, ProjectionIs

\* What a client sends back is what is in force.
LEMMA SentBack ==
  ASSUME ToolsTypes, NEW v, FromView(v), NEW px, px = revisions[basis].proxy
  PROVE  px # << >> => <<ProxyFrom(v)>> = px
<1> HAVE px # << >>
<1>1. basis \in 1..Newest /\ ProxyFrom(v) = ProxyOf(px)
  BY DEF FromView, ToolsTypes
<1>2. px \in Proxies
  BY <1>1, RevisionIs
<1>3. px \in Options(ProxyRecords) /\ ProxyOf(px) = px[1]
  BY <1>2, ProxyOfIs DEF Proxies
<1>4. px = <<px[1]>>
  BY <1>3, OptionIs
<1> QED
  BY <1>1, <1>3, <1>4

LEMMA SentBackIsExplained ==
  ASSUME ToolsTypes, CallSound, AskedSound, AnswerSound
  PROVE  ProposalsAreExplained
<1>1. ASSUME call.at = "answered", call.what = "validate", revisions[basis].proxy # << >>
      PROVE  call.answer.validation = Validation(revisions[basis].proxy)
  <2>1. FromView(call.op) /\ call.answer.validation = Validation(<<ProxyFrom(call.op)>>)
    BY <1>1 DEF AskedSound, AnswerSound
  <2>2. <<ProxyFrom(call.op)>> = revisions[basis].proxy
    BY <1>1, <2>1, SentBack
  <2> QED BY <2>1, <2>2
<1>2. ASSUME call.at = "answered", call.what = "explain"
      PROVE  \E doc \in {revisions[IF call.op.proposal = << >> THEN call.taken ELSE basis]} :
               doc.proxy # << >> \/ call.op.proposal = << >> =>
                 call.answer.explained = Explained(doc.proxy, call.op.url)
  <2>1. call.answer = ExplainedFor(call.op, revisions[call.taken])
    BY <1>2 DEF AnswerSound
  <2>2. CASE call.op.proposal = << >>
    BY <2>1, <2>2 DEF ExplainedFor
  <2>3. CASE call.op.proposal # << >>
    <3>1. FromView(call.op.proposal[1])
      BY <1>2, <2>3 DEF AskedSound
    <3>2. PICK px : px = revisions[basis].proxy
      OBVIOUS
    <3>3. px # << >> => <<ProxyFrom(call.op.proposal[1])>> = px
      BY <3>1, <3>2, SentBack
    <3>4. call.answer.explained = Explained(<<ProxyFrom(call.op.proposal[1])>>, call.op.url)
      BY <2>1, <2>3 DEF ExplainedFor
    <3> QED BY <2>3, <3>2, <3>3, <3>4
  <2> QED BY <2>2, <2>3
<1> QED
  BY <1>1, <1>2 DEF ProposalsAreExplained

\* What the preview of an accepted change shows.
LEMMA PreviewTells ==
  ASSUME NEW doc, NEW m, NEW urls, NEW result, result = Mutated(doc.proxy, m), result.ok,
         Compiles([doc EXCEPT !.proxy = result.proxy]),
         NEW shown, shown = Previewed(doc, m, urls)
  PROVE  /\ shown.ok /\ shown.affected = Affected(doc.proxy, m) /\ shown.changed = result.changed
         /\ shown.validation = Validation(result.proxy)
         /\ shown.explanations = [i \in DOMAIN urls |-> Explained(result.proxy, urls[i])]
  BY DEF Previewed, PreviewOf

LEMMA PreviewAccepts ==
  ASSUME NEW doc, NEW m, NEW urls, NEW result, result = Mutated(doc.proxy, m),
         NEW shown, shown = Previewed(doc, m, urls), shown.ok
  PROVE  shown.affected = Affected(doc.proxy, m) /\ shown.changed = result.changed
<1>1. ~Refused("rejected").ok /\ ~Refused("does not compile").ok
  BY DEF Refused
<1> QED
  BY <1>1 DEF Previewed, PreviewOf

LEMMA PreviewsTell ==
  ASSUME ToolsTypes, Histories, CallSound, ChangeSound, PreviewSound
  PROVE  PreviewsComeTrue
<1> SUFFICES ASSUME NEW shown \in ToSet(preview)
             PROVE  /\ \A r \in DOMAIN makers :
                         (r = shown.revision /\ makers[r] # Others) =>
                           (makers[r].op = shown.asked.op =>
                              CameTrue(shown, makers[r], revisions[r + 1]))
                    /\ (call.at \in {"answered", "lost"} /\ call.what = "mutate" /\ call.answer.ok) =>
                         (call.op = shown.asked.op /\ call.expected = shown.revision
                            /\ shown.answer.ok =>
                              <<call.answer.changed, call.answer.affected>> =
                                <<shown.answer.changed, shown.answer.affected>>)
  BY DEF PreviewsComeTrue
<1>1. preview # << >>
  BY DEF ToSet
<1>2. PICK kept : kept = preview[1]
  OBVIOUS
<1>3. preview = <<[revision |-> kept.revision, asked |-> kept.asked, answer |-> kept.answer]>>
  BY <1>1, <1>2 DEF PreviewSound
<1>4. /\ shown.revision = kept.revision /\ shown.asked = kept.asked /\ shown.answer = kept.answer
  BY <1>3 DEF ToSet
<1>5. /\ shown.answer = Previewed(revisions[shown.revision], ToMutation(shown.asked.op),
                                  shown.asked.urls)
  BY <1>1, <1>2, <1>4 DEF PreviewSound
<1>6. ASSUME NEW r \in DOMAIN makers, r = shown.revision, makers[r] # Others,
             makers[r].op = shown.asked.op
      PROVE  CameTrue(shown, makers[r], revisions[r + 1])
  <2>1. PICK op, px, m, result : MadeFrom(r, op, px, m, result)
    BY <1>6, MadeIs
  <2>2. PICK doc, answer, urls : /\ doc = revisions[r] /\ answer = shown.answer
                                 /\ urls = shown.asked.urls
    OBVIOUS
  <2>3. /\ answer = Previewed(doc, m, urls) /\ result = Mutated(doc.proxy, m) /\ result.ok
        /\ Compiles([doc EXCEPT !.proxy = result.proxy])
    BY <1>5, <1>6, <2>1, <2>2 DEF MadeFrom
  <2>4. /\ answer.ok /\ answer.affected = Affected(doc.proxy, m)
        /\ answer.changed = result.changed /\ answer.validation = Validation(result.proxy)
        /\ answer.explanations = [i \in DOMAIN urls |-> Explained(result.proxy, urls[i])]
    BY <2>3, PreviewTells
  <2>5. /\ result.changed /\ makers[r].affected = Affected(doc.proxy, m)
        /\ result.proxy = revisions[r + 1].proxy
    BY <2>1, <2>2 DEF MadeFrom
  <2> QED BY <2>2, <2>4, <2>5 DEF CameTrue
<1>7. ASSUME call.at \in {"answered", "lost"}, call.what = "mutate", call.answer.ok,
             call.op = shown.asked.op, call.expected = shown.revision, shown.answer.ok
      PROVE  <<call.answer.changed, call.answer.affected>> =
               <<shown.answer.changed, shown.answer.affected>>
  <2>1. PICK doc, answer, urls, m, result :
          /\ doc = revisions[call.expected] /\ answer = shown.answer
          /\ urls = shown.asked.urls /\ m = ToMutation(call.op) /\ result = Mutated(doc.proxy, m)
    OBVIOUS
  <2>2. answer = Previewed(doc, m, urls) /\ answer.ok
    BY <1>5, <1>7, <2>1
  <2>3. answer.affected = Affected(doc.proxy, m) /\ answer.changed = result.changed
    BY <2>1, <2>2, PreviewAccepts
  <2>4. call.answer.changed = result.changed /\ call.answer.affected = Affected(doc.proxy, m)
    BY <1>7, <2>1 DEF ChangeSound, Answered
  <2> QED BY <2>1, <2>3, <2>4
<1> QED
  BY <1>6, <1>7

LEMMA AuditTells ==
  ASSUME ToolsTypes, CallSound, Mine, ChangeSound
  PROVE  AuditIsOfTheCall
<1> SUFFICES ASSUME call.at \in {"answered", "lost"}, call.what = "mutate"
             PROVE  /\ audit[1].tool = call.op.tool /\ audit[1].prior = call.expected
                    /\ call.answer.ok => audit[1].on = Bounded(call.answer.affected)
                    /\ audit[1].resulting # << >> =>
                         /\ audit[1].resulting[1] \in {call.expected, call.expected + 1}
                         /\ (audit[1].resulting[1] = call.expected + 1) <=>
                              (\E r \in DOMAIN makers : r = call.expected /\ makers[r].id = call.id)
                    /\ audit[1].resulting = << >> =>
                         (\A r \in DOMAIN makers :
                            makers[r].id = call.id => call.answer.why = "conflict")
  BY DEF AuditIsOfTheCall
<1> DEFINE mine == \E r \in DOMAIN makers : makers[r].id = call.id
<1>1. call.expected \in Int
  BY DEF CallSound
<1>2. mine <=> \E r \in DOMAIN makers : r = call.expected /\ makers[r].id = call.id
  BY DEF Mine
<1>3. audit = Audited(call, call.answer)
  BY DEF ChangeSound
<1>4. /\ audit[1].tool = call.op.tool /\ audit[1].prior = call.expected
      /\ audit[1].resulting = IF call.answer.ok THEN <<call.answer.revision>> ELSE << >>
      /\ call.answer.ok => audit[1].on = Bounded(call.answer.affected)
  BY <1>3 DEF Audited
<1>5. CASE call.answer.ok
  <2>1. PICK result : result = Mutated(revisions[call.expected].proxy, ToMutation(call.op))
    OBVIOUS
  <2>2. call.answer.revision = call.expected + (IF result.changed THEN 1 ELSE 0)
    BY <1>5, <2>1 DEF ChangeSound, Answered
  <2>3. result.changed <=> mine
    BY <1>5, <2>1 DEF ChangeSound, Answered
  <2>4. audit[1].resulting # << >> /\ audit[1].resulting[1] = call.answer.revision
    BY <1>4, <1>5, OneOf
  <2>5. /\ call.answer.revision \in {call.expected, call.expected + 1}
        /\ (call.answer.revision = call.expected + 1) <=> mine
    <3> HIDE DEF mine
    <3> QED BY <1>1, <2>2, <2>3
  <2> HIDE DEF mine
  <2> QED BY <1>2, <1>4, <2>4, <2>5
<1>6. CASE ~call.answer.ok
  <2>1. audit[1].resulting = << >>
    BY <1>4, <1>6
  <2>2. mine => call.answer.why = "conflict"
    BY <1>6 DEF ChangeSound, Answered
  <2> QED BY <1>4, <1>6, <2>1, <2>2
<1> QED
  BY <1>5, <1>6

LEMMA InvariantSaysIt ==
  ToolsInvariant => ToolsDoWhatTheySay
<1> HAVE ToolsInvariant
<1>1. /\ ToolsTypes /\ Histories /\ Once
      /\ CallSound /\ AskedSound /\ AnswerSound /\ Mine /\ ChangeSound /\ PreviewSound
  BY DEF ToolsInvariant
<1>2. ChangesWhatWasNamed
  BY <1>1, NamedIsChanged
<1>3. NothingTwice
  BY <1>1, DoneOnce
<1>4. ViewsAreTrue
  BY <1>1, ViewsTell
<1>5. ProposalsAreExplained
  BY <1>1, SentBackIsExplained
<1>6. PreviewsComeTrue
  BY <1>1, PreviewsTell
<1>7. AuditIsOfTheCall
  BY <1>1, AuditTells
<1> QED
  BY <1>2, <1>3, <1>4, <1>5, <1>6, <1>7 DEF ToolsDoWhatTheySay

(***************************************************************************)
(* The history of the document.                                            *)
(***************************************************************************)
\* A call as it is with another stage and answer.
Staged(c, at, answer) ==
  [at |-> at, id |-> c.id, what |-> c.what, op |-> c.op, expected |-> c.expected,
   taken |-> c.taken, answer |-> answer]

IsCall(c) == c = Staged(c, c.at, c.answer)
Put(c, at, answer) == [c EXCEPT !.at = at, !.answer = answer]
PutAt(c, at) == [c EXCEPT !.at = at]

LEMMA StagedIs ==
  ASSUME NEW c, IsCall(c), NEW at, NEW answer
  PROVE  Put(c, at, answer) = Staged(c, at, answer) /\ PutAt(c, at) = Staged(c, at, c.answer)
<1> DEFINE Calls == [at : {c.at, at}, id : {c.id}, what : {c.what}, op : {c.op},
                     expected : {c.expected}, taken : {c.taken}, answer : {c.answer, answer}]
           d == [c EXCEPT !.at = at]
           e == [d EXCEPT !.answer = answer]
<1>1. c \in Calls
  BY DEF IsCall, Staged
<1>2. d \in Calls /\ d.at = at /\ d.answer = c.answer
  BY <1>1
<1>3. e \in Calls /\ e.answer = answer /\ e.at = d.at
  <2> HIDE DEF d
  <2> QED BY <1>2
<1>4. e = Put(c, at, answer) /\ d = PutAt(c, at)
  BY DEF Put, PutAt
<1>5. d = Staged(c, at, c.answer)
  <2> HIDE DEF d
  <2> QED BY <1>2 DEF Staged
<1>6. e = Staged(c, at, answer)
  <2> HIDE DEF d, e
  <2> QED BY <1>2, <1>3 DEF Staged
<1> QED
  BY <1>4, <1>5, <1>6

LEMMA StagedFields ==
  ASSUME NEW c, NEW at, NEW answer, NEW d, d = Staged(c, at, answer)
  PROVE  /\ IsCall(d) /\ d.at = at /\ d.answer = answer
         /\ d.id = c.id /\ d.what = c.what /\ d.op = c.op /\ d.expected = c.expected
         /\ d.taken = c.taken
  BY DEF IsCall, Staged

\* Nobody has made a revision with the number of the next call.
LEMMA NumbersAreNew ==
  ASSUME ToolsTypes, Histories, NEW r \in DOMAIN makers
  PROVE  makers[r].id \in Nat /\ makers[r].id # spent.calls + 1
<1>1. spent.calls \in Nat
  BY DEF ToolsTypes
<1>2. CASE makers[r] = Others
  <2>1. makers[r].id = 0
    BY <1>2 DEF Others
  <2> QED BY <1>1, <2>1
<1>3. CASE makers[r] # Others
  <2>1. PICK op, px, m, result : MadeFrom(r, op, px, m, result)
    BY <1>3, MadeIs
  <2>2. makers[r].id \in 1..spent.calls
    BY <2>1 DEF MadeFrom
  <2> QED BY <1>1, <2>2
<1> QED
  BY <1>2, <1>3

\* A step that makes no revision leaves the history sound.
LEMMA HistoryStays ==
  ASSUME ToolsTypes, Histories, Once, UNCHANGED <<revisions, makers>>,
         basis' \in 0..Newest, spent' \in [calls : Nat, elsewhere : Nat],
         spent'.calls >= spent.calls
  PROVE  /\ ToolsTypes' /\ Histories' /\ Once' /\ Newest' = Newest
         /\ DOMAIN makers' = DOMAIN makers
<1>1. Newest' = Newest
  BY DEF Newest
<1>2. ToolsTypes'
  BY <1>1 DEF ToolsTypes
<1>3. Histories'
  <2>1. spent.calls \in Nat /\ spent'.calls \in Nat
    BY DEF ToolsTypes
  <2>2. ASSUME NEW r \in DOMAIN makers, makers[r] # Others
        PROVE  Made(r)'
    <3>1. Made(r)
      BY <2>2 DEF Histories
    <3>2. makers[r].id \in Nat
      BY <2>2, NumbersAreNew
    <3>3. makers'[r].id <= spent'.calls
      BY <2>1, <3>1, <3>2 DEF Made
    <3> QED BY <3>1, <3>3 DEF Made
  <2> QED BY <2>2 DEF Histories, Others
<1>4. Once'
  BY DEF Once, Others
<1> QED
  BY <1>1, <1>2, <1>3, <1>4

LEMMA PreviewStays ==
  ASSUME PreviewSound, UNCHANGED <<revisions, preview>>
  PROVE  PreviewSound'
  BY DEF PreviewSound, Newest

\* A call begins: nobody has answered it and nothing was made for it.
LEMMA Begins ==
  ASSUME ToolsTypes, Histories, Once, UNCHANGED <<revisions, makers, basis>>,
         spent' = [spent EXCEPT !.calls = @ + 1],
         NEW what \in Tasks, NEW op, NEW expected \in 1..Newest, NEW at, NEW answer,
         call' = Staged(Snapshot(what, op, expected), at, answer)
  PROVE  /\ ToolsTypes' /\ Histories' /\ Once' /\ Mine'
         /\ IsCall(call') /\ call'.at = at /\ call'.answer = answer
         /\ call'.id \in 1..spent'.calls /\ call'.what = what /\ call'.op = op
         /\ call'.expected = expected /\ call'.taken = Newest
         /\ Newest' = Newest /\ call'.expected \in 1..Newest' /\ call'.taken \in 1..Newest'
         /\ \A r \in DOMAIN makers' : makers'[r].id # call'.id
<1>1. /\ spent.calls \in Nat /\ spent' \in [calls : Nat, elsewhere : Nat]
      /\ spent'.calls = spent.calls + 1 /\ basis' \in 0..Newest
  BY DEF ToolsTypes
<1>2. ToolsTypes' /\ Histories' /\ Once' /\ Newest' = Newest /\ DOMAIN makers' = DOMAIN makers
  BY <1>1, HistoryStays
<1>3. /\ call'.id = spent.calls + 1 /\ call'.what = what /\ call'.op = op
      /\ call'.expected = expected /\ call'.taken = Newest /\ call'.at = at
      /\ call'.answer = answer /\ IsCall(call')
  BY DEF Snapshot, Staged, IsCall
<1>4. \A r \in DOMAIN makers' : makers'[r].id # call'.id
  BY <1>2, <1>3, NumbersAreNew
<1>5. Mine'
  BY <1>4 DEF Mine
<1>6. Newest \in Nat /\ Newest >= 1
  BY MakersAre
<1> QED
  BY <1>1, <1>2, <1>3, <1>4, <1>5, <1>6

(***************************************************************************)
(* The reads.                                                              *)
(***************************************************************************)
LEMMA InvariantParts ==
  ASSUME ToolsInvariant
  PROVE  /\ ToolsTypes /\ Histories /\ Once
         /\ CallSound /\ AskedSound /\ AnswerSound /\ Mine /\ ChangeSound /\ PreviewSound
  BY DEF ToolsInvariant

LEMMA CallIs ==
  ASSUME CallSound, call.at # "none"
  PROVE  /\ IsCall(call)
         /\ call.id \in 1..spent.calls /\ call.expected \in 1..Newest /\ call.taken \in 1..Newest
         /\ call.at \in {"taken", "pending", "answered", "lost"} /\ call.what \in Tasks
         /\ call.at \in {"pending", "lost"} => call.what = "mutate"
         /\ call.at = "taken" => call.what # "mutate"
         /\ call.at = "pending" => call.expected = Newest /\ editor # "busy"
  BY DEF CallSound, Staged, IsCall

\* A read that was taken, or a preview that was not.
LEMMA ReadBegins ==
  ASSUME ToolsInvariant, UNCHANGED <<revisions, makers, editor, basis, preview, audit>>,
         spent' = [spent EXCEPT !.calls = @ + 1],
         NEW what \in Tasks \ {"mutate"}, NEW op, NEW expected \in 1..Newest,
         NEW at \in {"taken", "answered"}, NEW answer,
         call' = Staged(Snapshot(what, op, expected), at, answer),
         at = "answered" => what = "preview",
         what = "preview" => /\ op = [op |-> op.op, urls |-> op.urls] /\ op.op \in Operations
                             /\ at = "taken" => expected = Newest,
         what = "validate" => FromView(op),
         what = "explain" /\ op.proposal # << >> => FromView(op.proposal[1])
  PROVE  ToolsInvariant'
<1>1. /\ ToolsTypes /\ Histories /\ Once /\ PreviewSound
  BY InvariantParts
<1>2. /\ ToolsTypes' /\ Histories' /\ Once' /\ Mine'
      /\ IsCall(call') /\ call'.at = at /\ call'.answer = answer
      /\ call'.id \in 1..spent'.calls /\ call'.what = what /\ call'.op = op
      /\ call'.expected = expected /\ call'.taken = Newest
      /\ Newest' = Newest /\ call'.expected \in 1..Newest' /\ call'.taken \in 1..Newest'
  BY <1>1, Begins
<1>3. PreviewSound'
  BY <1>1, PreviewStays
<1>4. CallSound'
  BY <1>2 DEF CallSound, Staged, IsCall
<1>5. AskedSound'
  <2>1. \A v : FromView(v) => FromView(v)'
    BY DEF FromView
  <2> QED BY <1>2, <2>1 DEF AskedSound
<1>6. AnswerSound' /\ ChangeSound'
  BY <1>2 DEF AnswerSound, ChangeSound
<1> QED
  BY <1>2, <1>3, <1>4, <1>5, <1>6 DEF ToolsInvariant

LEMMA SnapshotIs ==
  \A what, op, expected :
    LET c == Snapshot(what, op, expected) IN
    /\ c = Staged(c, "taken", Refused("no answer")) /\ IsCall(c)
    /\ c.what = what /\ c.op = op /\ c.expected = expected /\ c.taken = Newest
    /\ c.id = spent.calls + 1
  BY DEF Snapshot, Staged, IsCall

LEMMA GetKeeps ==
  ASSUME ToolsInvariant, NEW scope \in ReadScopes, GetMappingSettings(scope)
  PROVE  ToolsInvariant'
<1>1. /\ call' = Snapshot("get", scope, Newest) /\ spent' = [spent EXCEPT !.calls = @ + 1]
      /\ UNCHANGED <<revisions, makers, editor, basis, preview, audit>>
  BY DEF GetMappingSettings, MayCall
<1>2. Newest \in 1..Newest
  BY InvariantParts, MakersAre
<1>3. call' = Staged(Snapshot("get", scope, Newest), "taken", Refused("no answer"))
  BY <1>1, SnapshotIs
<1>4. "get" \in Tasks \ {"mutate"}
  BY DEF Tasks
<1> QED
  BY <1>1, <1>2, <1>3, <1>4, ReadBegins

\* A view that is sent back is of what is in force at the basis.
LEMMA ProposalIsOfView ==
  ASSUME ToolsInvariant, NEW proposal \in Proposals, proposal # << >>
  PROVE  FromView(proposal[1])
<1>1. ViewGiven /\ IsWhole(call.answer.view) /\ proposal[1] = call.answer.view
  BY OneOf DEF Proposals
<1>2. ToolsTypes /\ CallSound /\ AnswerSound
  BY InvariantParts
<1>3. call.taken \in 1..Newest /\ basis = call.taken
  BY <1>1, <1>2 DEF ViewGiven, CallSound, AnswerSound
<1>4. basis # 0
  BY <1>2, <1>3, MakersAre
<1>5. ViewIsTrue(call.answer.view, ProxyOf(revisions[call.taken].proxy))
  BY <1>1, <1>2, ViewsTell DEF ViewsAreTrue
<1>6. ProxyFrom(call.answer.view) = ProxyOf(revisions[call.taken].proxy)
  BY <1>1, <1>5 DEF ViewIsTrue
<1> QED
  BY <1>1, <1>3, <1>4, <1>6 DEF FromView

LEMMA ExplainKeeps ==
  ASSUME ToolsInvariant, NEW url, ExplainMapping(url)
  PROVE  ToolsInvariant'
<1>1. PICK proposal \in Proposals :
        call' = Snapshot("explain", [proposal |-> proposal, url |-> url], Newest)
  BY DEF ExplainMapping
<1>2. /\ spent' = [spent EXCEPT !.calls = @ + 1]
      /\ UNCHANGED <<revisions, makers, editor, basis, preview, audit>>
  BY DEF ExplainMapping, MayCall
<1>3. PICK op : op = [proposal |-> proposal, url |-> url]
  OBVIOUS
<1>4. op.proposal # << >> => FromView(op.proposal[1])
  BY <1>3, ProposalIsOfView
<1>5. Newest \in 1..Newest
  BY InvariantParts, MakersAre
<1>6. call' = Staged(Snapshot("explain", op, Newest), "taken", Refused("no answer"))
  BY <1>1, <1>3, SnapshotIs
<1>7. "explain" \in Tasks \ {"mutate"}
  BY DEF Tasks
<1> QED
  BY <1>2, <1>4, <1>5, <1>6, <1>7, ReadBegins

LEMMA ValidateKeeps ==
  ASSUME ToolsInvariant, ValidateMapping
  PROVE  ToolsInvariant'
<1>1. PICK proposal \in Proposals \ {<< >>} : call' = Snapshot("validate", proposal[1], Newest)
  BY DEF ValidateMapping
<1>2. /\ spent' = [spent EXCEPT !.calls = @ + 1]
      /\ UNCHANGED <<revisions, makers, editor, basis, preview, audit>>
  BY DEF ValidateMapping, MayCall
<1>3. FromView(proposal[1])
  BY ProposalIsOfView
<1>5. Newest \in 1..Newest
  BY InvariantParts, MakersAre
<1>6. call' = Staged(Snapshot("validate", proposal[1], Newest), "taken", Refused("no answer"))
  BY <1>1, SnapshotIs
<1>7. "validate" \in Tasks \ {"mutate"}
  BY DEF Tasks
<1> QED
  BY <1>2, <1>3, <1>5, <1>6, <1>7, ReadBegins

LEMMA PreviewKeeps ==
  ASSUME ToolsInvariant, NEW op \in Operations, NEW urls, PreviewMutation(op, urls)
  PROVE  ToolsInvariant'
<1>1. PICK asked : asked = [op |-> op, urls |-> urls]
  OBVIOUS
<1>2. PICK held : held = basis
  OBVIOUS
<1> DEFINE c == Snapshot("preview", asked, held)
<1>3. /\ spent' = [spent EXCEPT !.calls = @ + 1] /\ held # 0
      /\ UNCHANGED <<revisions, makers, editor, basis, preview, audit>>
  BY <1>2 DEF PreviewMutation, MayCall
<1>4. held \in 1..Newest
  <2>1. held \in 0..Newest
    BY <1>2, InvariantParts DEF ToolsTypes
  <2>2. Newest \in Nat
    BY InvariantParts, MakersAre
  <2> QED BY <1>3, <2>1, <2>2
<1>5. c = Staged(c, "taken", Refused("no answer"))
  BY SnapshotIs
<1>12. IsCall(c)
  BY SnapshotIs
<1>13. c.expected = held
  BY DEF Snapshot
<1>7. \/ call' = c /\ Admission(c.expected) = << >>
      \/ \E why : call' = Denied(c, why)
  BY <1>1, <1>2 DEF PreviewMutation
<1> HIDE DEF c
<1>6. ASSUME NEW why PROVE Denied(c, why) = Staged(c, "answered", Refused(why))
  <2>1. Denied(c, why) = Put(c, "answered", Refused(why))
    BY DEF Denied, Put
  <2> QED BY <1>12, <2>1, StagedIs
<1>8. PICK at, answer :
        /\ at \in {"taken", "answered"} /\ call' = Staged(c, at, answer)
        /\ at = "taken" => Admission(held) = << >>
  <2>1. CASE call' = c /\ Admission(c.expected) = << >>
    BY <1>5, <1>13, <2>1
  <2>2. CASE \E why : call' = Denied(c, why)
    BY <1>6, <2>2
  <2> QED BY <1>7, <2>1, <2>2
<1>11. at = "taken" => held = Newest
  BY <1>8, OneOf DEF Admission
<1>9. "preview" \in Tasks \ {"mutate"}
  BY DEF Tasks
<1>10. asked = [op |-> asked.op, urls |-> asked.urls] /\ asked.op \in Operations
  BY <1>1
<1> QED
  BY <1>3, <1>4, <1>8, <1>9, <1>10, <1>11, ReadBegins DEF c

\* The answer of a read is of the document that was taken.
LEMMA AnswerIs ==
  ASSUME ToolsInvariant, call.at = "taken", NEW doc, doc = revisions[call.taken],
         NEW answer, answer = AnswerTo(call, doc)
  PROVE  /\ call.what = "get" /\ answer.ok =>
              answer.view = Projection(ProxyOf(doc.proxy), call.op)
         /\ call.what = "validate" => answer.validation = Validation(<<ProxyFrom(call.op)>>)
         /\ call.what = "explain" => answer = ExplainedFor(call.op, doc)
         /\ call.what = "preview" =>
              answer = Previewed(doc, ToMutation(call.op.op), call.op.urls)
<1>1. ASSUME call.what = "get", answer.ok
      PROVE  answer.view = Projection(ProxyOf(doc.proxy), call.op)
  <2>1. answer = Scoped(ProxyOf(doc.proxy), call.op)
    BY <1>1 DEF AnswerTo
  <2>2. \A why : ~Refused(why).ok
    BY DEF Refused
  <2>3. answer = Viewed(Projection(ProxyOf(doc.proxy), call.op))
    BY <1>1, <2>1, <2>2 DEF Scoped
  <2>4. PICK view : view = Projection(ProxyOf(doc.proxy), call.op)
    OBVIOUS
  <2>5. answer = [ok |-> TRUE, view |-> view]
    BY <1>1, <2>2, <2>3, <2>4 DEF Viewed
  <2> QED BY <2>4, <2>5
<1>2. ASSUME call.what = "validate"
      PROVE  answer.validation = Validation(<<ProxyFrom(call.op)>>)
  BY <1>2 DEF AnswerTo
<1>3. ASSUME call.what = "explain" PROVE answer = ExplainedFor(call.op, doc)
  BY <1>3 DEF AnswerTo
<1>4. ASSUME call.what = "preview"
      PROVE  answer = Previewed(doc, ToMutation(call.op.op), call.op.urls)
  <2>1. call.op.op \in Operations
    BY <1>4, InvariantParts DEF AskedSound
  <2>2. answer = Previewed(doc, PreviewedMutation(call.op.op, call.expected), call.op.urls)
    BY <1>4 DEF AnswerTo
  <2>3. PreviewedMutation(call.op.op, call.expected) = ToMutation(call.op.op)
    BY <2>1, PreviewedIs
  <2> QED BY <2>2, <2>3
<1> QED
  BY <1>1, <1>2, <1>3, <1>4

LEMMA ReadEndsKeeps ==
  ASSUME ToolsInvariant, ReadEnds
  PROVE  ToolsInvariant'
<1>1. PICK answer : answer = AnswerTo(call, revisions[call.taken]) /\ Told(answer)
  BY DEF ReadEnds
<1>2. call.at = "taken" /\ UNCHANGED <<revisions, makers, editor, audit, spent>>
  BY DEF ReadEnds
<1>3. /\ ToolsTypes /\ Histories /\ Once
      /\ CallSound /\ AskedSound /\ AnswerSound /\ Mine /\ ChangeSound /\ PreviewSound
  BY InvariantParts
<1>4. /\ IsCall(call) /\ call.id \in 1..spent.calls /\ call.expected \in 1..Newest
      /\ call.taken \in 1..Newest /\ call.what \in Tasks \ {"mutate"}
  BY <1>2, <1>3, CallIs
<1>5. call' = Staged(call, "answered", answer)
  <2>1. call' = Put(call, "answered", answer)
    BY <1>1 DEF Told, Put
  <2> QED BY <1>4, <2>1, StagedIs
<1>6. /\ IsCall(call') /\ call'.at = "answered" /\ call'.answer = answer
      /\ call'.id = call.id /\ call'.what = call.what /\ call'.op = call.op
      /\ call'.expected = call.expected /\ call'.taken = call.taken
  BY <1>5, StagedFields
<1>7. basis' = IF call.what = "get" /\ answer.ok THEN call.taken ELSE basis
  BY <1>1 DEF Told
<1>8. basis' \in 0..Newest
  BY <1>3, <1>4, <1>7 DEF ToolsTypes
<1>9. ToolsTypes' /\ Histories' /\ Once' /\ Newest' = Newest /\ DOMAIN makers' = DOMAIN makers
  <2>1. spent' \in [calls : Nat, elsewhere : Nat] /\ spent'.calls >= spent.calls
    BY <1>2, <1>3 DEF ToolsTypes
  <2> QED BY <1>2, <1>3, <1>8, <2>1, HistoryStays
<1>10. CallSound'
  BY <1>2, <1>4, <1>6, <1>9 DEF CallSound, IsCall, Staged
<1>11. AskedSound'
  <2>1. ASSUME NEW v, FromView(v), call.what # "get" PROVE FromView(v)'
    BY <1>2, <1>7, <2>1 DEF FromView
  <2> QED BY <1>2, <1>3, <1>6, <2>1 DEF AskedSound
<1>12. AnswerSound'
  <2>1. PICK doc : doc = revisions[call.taken]
    OBVIOUS
  <2>2. /\ call.what = "get" /\ answer.ok =>
             answer.view = Projection(ProxyOf(doc.proxy), call.op)
        /\ call.what = "validate" => answer.validation = Validation(<<ProxyFrom(call.op)>>)
        /\ call.what = "explain" => answer = ExplainedFor(call.op, doc)
    BY <1>1, <1>2, <2>1, AnswerIs
  <2>3. revisions'[call'.taken] = doc
    BY <1>2, <1>6, <2>1
  <2> QED BY <1>6, <1>7, <2>2, <2>3 DEF AnswerSound
<1>13. Mine'
  <2>1. \A r \in DOMAIN makers : makers[r].id # call.id
    BY <1>2, <1>3, <1>4 DEF Mine
  <2> QED BY <1>2, <1>6, <2>1 DEF Mine
<1>14. ChangeSound'
  BY <1>4, <1>6 DEF ChangeSound
<1>15. PreviewSound'
  <2>1. preview' = CASE call.what = "preview" ->
                          <<[revision |-> call.taken, asked |-> call.op, answer |-> answer]>>
                     [] call.what = "get" /\ answer.ok -> << >>
                     [] OTHER -> preview
    BY <1>1 DEF Told
  <2>2. CASE call.what = "preview"
    <3>1. PICK doc, asked, taken :
            doc = revisions[call.taken] /\ asked = call.op /\ taken = call.taken
      OBVIOUS
    <3>2. preview' = <<[revision |-> taken, asked |-> asked, answer |-> answer]>>
      BY <2>1, <2>2, <3>1
    <3>3. /\ preview'[1].revision = taken /\ preview'[1].asked = asked
          /\ preview'[1].answer = answer
      BY <3>2, OneOf
    <3>4. answer = Previewed(doc, ToMutation(asked.op), asked.urls)
      BY <1>1, <1>2, <2>2, <3>1, AnswerIs
    <3>5. asked.op \in Operations
      BY <1>2, <1>3, <2>2, <3>1 DEF AskedSound
    <3>6. taken \in 1..Newest' /\ revisions'[taken] = doc
      BY <1>2, <1>4, <1>9, <3>1
    <3> QED BY <3>2, <3>3, <3>4, <3>5, <3>6 DEF PreviewSound
  <2>3. CASE call.what = "get" /\ answer.ok
    BY <2>1, <2>3 DEF PreviewSound
  <2>4. CASE call.what # "preview" /\ ~(call.what = "get" /\ answer.ok)
    <3>1. preview' = preview
      BY <2>1, <2>4
    <3> QED BY <1>2, <1>3, <3>1, PreviewStays
  <2> QED BY <2>2, <2>3, <2>4
<1> QED
  BY <1>9, <1>10, <1>11, <1>12, <1>13, <1>14, <1>15 DEF ToolsInvariant

(***************************************************************************)
(* The changes.                                                            *)
(***************************************************************************)
\* A change that may have been made once, of what it expects.
IsChange(c) ==
  /\ IsCall(c) /\ c.what = "mutate" /\ c.op \in Operations /\ c.id \in 1..spent.calls
  /\ c.expected \in 1..Newest /\ c.taken \in 1..Newest
  /\ \A r \in DOMAIN makers : makers[r].id = c.id => r = c.expected

LEMMA ChangeEnds ==
  ASSUME ToolsTypes', Histories', Once', PreviewSound',
         NEW c, NEW answer, IsChange(c)', Answered(c, answer)', Ends(c, answer)
  PROVE  ToolsInvariant'
<1>1. /\ IsCall(c) /\ c.what = "mutate" /\ c.op \in Operations /\ c.id \in 1..spent'.calls
      /\ c.expected \in 1..Newest' /\ c.taken \in 1..Newest'
      /\ \A r \in DOMAIN makers' : makers'[r].id = c.id => r = c.expected
  BY DEF IsChange
<1>2. PICK at \in {"answered", "lost"} : call' = Put(c, at, answer)
  BY DEF Ends, Put
<1>3. audit' = Audited(c, answer)
  BY DEF Ends
<1>4. call' = Staged(c, at, answer)
  BY <1>1, <1>2, StagedIs
<1>5. /\ IsCall(call') /\ call'.at = at /\ call'.answer = answer
      /\ call'.id = c.id /\ call'.what = c.what /\ call'.op = c.op
      /\ call'.expected = c.expected /\ call'.taken = c.taken
  BY <1>4, StagedFields
<1>6. CallSound'
  BY <1>1, <1>5 DEF CallSound, IsCall, Staged, Tasks
<1>7. AskedSound' /\ AnswerSound'
  BY <1>1, <1>5 DEF AskedSound, AnswerSound
<1>8. Mine'
  BY <1>1, <1>5 DEF Mine
<1>9. ChangeSound'
  <2>1. audit' = Audited(call', call'.answer)
    BY <1>3, <1>5 DEF Audited
  <2>2. Answered(call, call.answer)'
    BY <1>5 DEF Answered
  <2> QED BY <2>1, <2>2 DEF ChangeSound
<1> QED
  BY <1>6, <1>7, <1>8, <1>9 DEF ToolsInvariant

\* A refusal is sound: only a call sent again may have made a revision, and it conflicts.
LEMMA RefusalIs ==
  ASSUME NEW c, NEW why, (\E r \in DOMAIN makers : makers[r].id = c.id) => why = "conflict",
         UNCHANGED makers
  PROVE  Answered(c, Refused(why))'
  BY DEF Answered, Refused

\* The call owns the transaction: nothing was made for it yet.
LEMMA ChangeIsAdmitted ==
  ASSUME ToolsTypes', Histories', Once', PreviewSound',
         NEW c, IsChange(c)', c.expected = Newest', editor' # "busy",
         call' = [c EXCEPT !.at = "pending"]
  PROVE  ToolsInvariant'
<1>1. /\ IsCall(c) /\ c.what = "mutate" /\ c.op \in Operations /\ c.id \in 1..spent'.calls
      /\ c.expected \in 1..Newest' /\ c.taken \in 1..Newest'
      /\ \A r \in DOMAIN makers' : makers'[r].id = c.id => r = c.expected
  BY DEF IsChange
<1>2. call' = PutAt(c, "pending")
  BY DEF PutAt
<1>3. call' = Staged(c, "pending", c.answer)
  BY <1>1, <1>2, StagedIs
<1>4. /\ IsCall(call') /\ call'.at = "pending"
      /\ call'.id = c.id /\ call'.what = c.what /\ call'.op = c.op
      /\ call'.expected = c.expected /\ call'.taken = c.taken
  BY <1>3, StagedFields
<1>5. CallSound'
  BY <1>1, <1>4 DEF CallSound, IsCall, Staged, Tasks
<1>6. AskedSound' /\ AnswerSound' /\ ChangeSound'
  BY <1>1, <1>4 DEF AskedSound, AnswerSound, ChangeSound
<1>7. Mine'
  <2>1. Newest' \notin DOMAIN makers'
    <3>1. Newest' \in Nat /\ DOMAIN makers' = 1..(Newest' - 1)
      BY LenProperties DEF ToolsTypes, Newest
    <3> QED BY <3>1
  <2>2. \A r \in DOMAIN makers' : makers'[r].id # c.id
    BY <1>1, <2>1
  <2> QED BY <1>4, <2>2 DEF Mine
<1> QED
  BY <1>5, <1>6, <1>7 DEF ToolsInvariant

LEMMA ChangeBegins ==
  ASSUME ToolsTypes, ToolsTypes', Histories', Once', PreviewSound',
         UNCHANGED <<revisions, makers, editor>>, NEW c, IsChange(c)', Admitting(c)
  PROVE  ToolsInvariant'
<1>1. Newest' = Newest
  BY DEF Newest
<1>2. CASE Admission(c.expected) = << >>
  <2>1. c.expected = Newest /\ editor # "busy"
    BY <1>2, OneOf DEF Admission
  <2>2. call' = [c EXCEPT !.at = "pending"]
    BY <1>2 DEF Admitting
  <2> QED BY <1>1, <2>1, <2>2, ChangeIsAdmitted
<1>3. CASE Admission(c.expected) # << >>
  <2>1. PICK why : why = Admission(c.expected)[1]
    OBVIOUS
  <2>2. Ends(c, Refused(why))
    BY <1>3, <2>1 DEF Admitting
  <2>3. (\E r \in DOMAIN makers : makers[r].id = c.id) => why = "conflict"
    <3>1. SUFFICES ASSUME NEW r \in DOMAIN makers, makers[r].id = c.id
                   PROVE  why = "conflict"
      OBVIOUS
    <3>2. r = c.expected
      BY <3>1 DEF IsChange
    <3>3. c.expected # Newest
      BY <3>2, MakersAre
    <3>4. Admission(c.expected) = <<"conflict">>
      BY <3>3 DEF Admission
    <3> QED BY <2>1, <3>4
  <2>4. Answered(c, Refused(why))'
    BY <2>3, RefusalIs
  <2> QED BY <2>2, <2>4, ChangeEnds
<1> QED
  BY <1>2, <1>3

LEMMA MutateKeeps ==
  ASSUME ToolsInvariant, NEW op \in Operations, MutateMapping(op)
  PROVE  ToolsInvariant'
<1>1. PICK held : held = basis
  OBVIOUS
<1> DEFINE c == Snapshot("mutate", op, held)
<1>2. /\ spent' = [spent EXCEPT !.calls = @ + 1] /\ held # 0 /\ Admitting(c)
      /\ UNCHANGED <<revisions, makers, editor, basis, preview>>
  BY <1>1 DEF MutateMapping, MayCall
<1>3. ToolsTypes /\ Histories /\ Once /\ PreviewSound
  BY InvariantParts
<1>4. held \in 1..Newest /\ Newest \in 1..Newest
  <2>1. held \in 0..Newest
    BY <1>1, <1>3 DEF ToolsTypes
  <2>2. Newest \in Nat /\ Newest >= 1
    BY <1>3, MakersAre
  <2> QED BY <1>2, <2>1, <2>2
<1>5. IsCall(c)
  BY SnapshotIs, Zenon
<1>6. /\ c.what = "mutate" /\ c.op = op /\ c.expected = held /\ c.taken = Newest
      /\ c.id = spent.calls + 1
  BY DEF Snapshot
<1> HIDE DEF c
<1>7. /\ spent' \in [calls : Nat, elsewhere : Nat] /\ spent'.calls = spent.calls + 1
      /\ spent.calls \in Nat /\ basis' \in 0..Newest
  BY <1>2, <1>3 DEF ToolsTypes
<1>8. ToolsTypes' /\ Histories' /\ Once' /\ Newest' = Newest /\ DOMAIN makers' = DOMAIN makers
  BY <1>2, <1>3, <1>7, HistoryStays
<1>9. PreviewSound'
  BY <1>2, <1>3, PreviewStays
<1>10. \A r \in DOMAIN makers' : makers'[r].id # c.id
  BY <1>2, <1>3, <1>6, <1>8, NumbersAreNew
<1>11. PICK d : d = c
  OBVIOUS
<1>12. d.id \in 1..spent'.calls /\ d.expected \in 1..Newest' /\ d.taken \in 1..Newest'
  BY <1>4, <1>6, <1>7, <1>8, <1>11
<1>13. IsChange(d)'
  BY <1>5, <1>6, <1>10, <1>11, <1>12 DEF IsChange
<1>14. Admitting(d)
  BY <1>2, <1>11
<1> QED
  BY <1>2, <1>3, <1>8, <1>9, <1>13, <1>14, ChangeBegins

\* The call that was lost, or is under way.
LEMMA ChangeIs ==
  ASSUME ToolsInvariant, call.at \in {"lost", "pending"}
  PROVE  IsChange(call)
<1>1. CallSound /\ AskedSound /\ Mine
  BY InvariantParts
<1>2. call.what = "mutate" /\ call.op \in Operations
  BY <1>1, CallIs DEF AskedSound
<1>3. \A r \in DOMAIN makers : makers[r].id = call.id => r = call.expected
  BY <1>1 DEF Mine
<1> QED
  BY <1>1, <1>2, <1>3, CallIs DEF IsChange

LEMMA RetryKeeps ==
  ASSUME ToolsInvariant, Retry
  PROVE  ToolsInvariant'
<1>1. /\ call.at = "lost" /\ Admitting(call)
      /\ UNCHANGED <<revisions, makers, editor, basis, preview, spent>>
  BY DEF Retry
<1>2. PICK c : c = call
  OBVIOUS
<1>3. ToolsTypes /\ Histories /\ Once /\ PreviewSound
  BY InvariantParts
<1>4. spent.calls \in Nat /\ basis \in 0..Newest /\ spent \in [calls : Nat, elsewhere : Nat]
  BY <1>3 DEF ToolsTypes
<1>5. ToolsTypes' /\ Histories' /\ Once' /\ Newest' = Newest
  BY <1>1, <1>3, <1>4, HistoryStays
<1>6. PreviewSound'
  BY <1>1, <1>3, PreviewStays
<1>7. IsChange(c)
  BY <1>1, <1>2, ChangeIs
<1>8. IsChange(c)'
  BY <1>1, <1>5, <1>7 DEF IsChange
<1> QED
  BY <1>1, <1>2, <1>3, <1>5, <1>6, <1>8, ChangeBegins

LEMMA CommitFailsKeeps ==
  ASSUME ToolsInvariant, CommitFails
  PROVE  ToolsInvariant'
<1>0. call.at = "pending" /\ Ends(call, Refused("not written"))
  BY DEF CommitFails
<1>1. UNCHANGED <<revisions, makers, editor, basis, preview, spent>>
  BY DEF CommitFails
<1>2. PICK c, answer, why : c = call /\ answer = Refused(why) /\ why = "not written"
  OBVIOUS
<1>3. ToolsTypes /\ Histories /\ Once /\ PreviewSound /\ Mine
  BY InvariantParts
<1>4. spent.calls \in Nat /\ basis \in 0..Newest /\ spent \in [calls : Nat, elsewhere : Nat]
  BY <1>3 DEF ToolsTypes
<1>5. ToolsTypes' /\ Histories' /\ Once' /\ Newest' = Newest
  BY <1>1, <1>3, <1>4, HistoryStays
<1>6. PreviewSound'
  BY <1>1, <1>3, PreviewStays
<1>7. IsChange(c)
  BY <1>0, <1>2, ChangeIs
<1>8. IsChange(c)'
  BY <1>1, <1>5, <1>7 DEF IsChange
<1>9. ~\E r \in DOMAIN makers : makers[r].id = c.id
  BY <1>0, <1>2, <1>3 DEF Mine
<1>10. Answered(c, answer)'
  BY <1>1, <1>2, <1>9, RefusalIs
<1>11. Ends(c, answer)
  BY <1>0, <1>2
<1> QED
  BY <1>5, <1>6, <1>8, <1>10, <1>11, ChangeEnds

\* A revision more: those before it are as they were.
LEMMA Grows ==
  ASSUME ToolsTypes, NEW doc \in ToolDocuments, NEW maker \in MakerRecords \union {Others},
         revisions' = Append(revisions, doc), makers' = Append(makers, maker),
         UNCHANGED basis, spent' \in [calls : Nat, elsewhere : Nat]
  PROVE  /\ ToolsTypes' /\ Newest' = Newest + 1
         /\ DOMAIN makers' = DOMAIN makers \union {Newest} /\ Newest \notin DOMAIN makers
         /\ \A r \in 1..Newest : revisions'[r] = revisions[r]
         /\ \A r \in DOMAIN makers : makers'[r] = makers[r]
         /\ revisions'[Newest + 1] = doc /\ makers'[Newest] = maker
<1>1. /\ Newest \in Nat /\ Newest >= 1 /\ DOMAIN revisions = 1..Newest
      /\ DOMAIN makers = 1..(Newest - 1) /\ Len(makers) = Newest - 1
  BY MakersAre
<1>2. /\ revisions \in Seq(ToolDocuments) /\ makers \in Seq(MakerRecords \union {Others})
      /\ Len(revisions) = Newest /\ basis \in 0..Newest
  BY DEF ToolsTypes, Newest
<1>3. /\ revisions' \in Seq(ToolDocuments) /\ Len(revisions') = Newest + 1
      /\ \A r \in 1..Newest : revisions'[r] = revisions[r]
      /\ revisions'[Newest + 1] = doc
  <2>1. PICK n : n = Newest
    OBVIOUS
  <2> QED BY <1>1, <1>2, <2>1, AppendProperties
<1>4. /\ makers' \in Seq(MakerRecords \union {Others}) /\ Len(makers') = Newest
      /\ \A r \in 1..(Newest - 1) : makers'[r] = makers[r]
      /\ makers'[Newest] = maker
  <2>1. PICK Set : Set = MakerRecords \union {Others}
    OBVIOUS
  <2>2. PICK n \in Nat : n = Newest /\ Len(makers) = n - 1 /\ n - 1 + 1 = n
    BY <1>1
  <2>3. makers \in Seq(Set) /\ maker \in Set
    BY <1>2, <2>1
  <2>4. /\ makers' \in Seq(Set) /\ Len(makers') = n /\ makers'[n] = maker
        /\ \A r \in 1..(n - 1) : makers'[r] = makers[r]
    BY <2>2, <2>3, AppendProperties
  <2> QED BY <2>1, <2>2, <2>4
<1>5. Newest' = Newest + 1
  BY <1>3 DEF Newest
<1>6. DOMAIN makers' = 1..Newest
  BY <1>4, LenProperties
<1>7. revisions' # << >>
  BY <1>1, <1>3, EmptySeq
<1>8. ToolsTypes'
  <2>1. basis' \in 0..Newest'
    BY <1>1, <1>2, <1>5
  <2> QED BY <1>1, <1>3, <1>4, <1>5, <1>7, <2>1 DEF ToolsTypes
<1> QED
  BY <1>1, <1>3, <1>4, <1>5, <1>6, <1>8

\* What one was shown stays what it was.
LEMMA GrownSound ==
  ASSUME ToolsTypes, Histories, Newest' = Newest + 1, spent'.calls >= spent.calls,
         spent' \in [calls : Nat, elsewhere : Nat],
         \A r \in 1..Newest : revisions'[r] = revisions[r],
         \A r \in DOMAIN makers : makers'[r] = makers[r]
  PROVE  /\ \A r \in DOMAIN makers : makers[r] # Others => Made(r)'
         /\ PreviewSound /\ UNCHANGED preview => PreviewSound'
<1>0. Newest \in Nat /\ \A r \in DOMAIN makers : r \in 1..Newest /\ r + 1 \in 1..Newest
  BY MakersAre
<1>1. ASSUME NEW r \in DOMAIN makers, makers[r] # Others
      PROVE  Made(r)'
  <2>1. Made(r)
    BY <1>1 DEF Histories
  <2>2. /\ revisions'[r] = revisions[r] /\ revisions'[r + 1] = revisions[r + 1]
        /\ makers'[r] = makers[r]
    BY <1>0
  <2>3. makers[r].id \in Nat
    BY <1>1, NumbersAreNew
  <2>4. makers'[r].id <= spent'.calls
    <3>1. spent.calls \in Nat /\ spent'.calls \in Nat
      BY DEF ToolsTypes
    <3> QED BY <2>1, <2>2, <2>3, <3>1 DEF Made
  <2> QED BY <2>1, <2>2, <2>4 DEF Made
<1>2. ASSUME PreviewSound, UNCHANGED preview
      PROVE  PreviewSound'
  <2>1. CASE preview = << >>
    BY <1>2, <2>1 DEF PreviewSound
  <2>2. CASE preview # << >>
    <3>1. preview[1].revision \in 1..Newest
      BY <1>2, <2>2 DEF PreviewSound
    <3>2. /\ preview[1].revision \in 1..Newest'
          /\ revisions'[preview[1].revision] = revisions[preview[1].revision]
      BY <1>0, <3>1
    <3> QED BY <1>2, <2>2, <3>2 DEF PreviewSound
  <2> QED BY <2>1, <2>2
<1> QED
  BY <1>1, <1>2

LEMMA InstalledIs ==
  ASSUME NEW doc \in ToolDocuments, NEW m, IsMutation(m),
         NEW result, result = Mutated(doc.proxy, m)
  PROVE  [doc EXCEPT !.proxy = result.proxy] \in ToolDocuments
<1>1. doc.proxy \in Proxies
  BY DEF ToolDocuments
<1>2. PICK qx : qx = result.proxy
  OBVIOUS
<1>3. qx \in Proxies
  BY <1>1, <1>2, MutationKeepsForm
<1>4. [doc EXCEPT !.proxy = qx] \in ToolDocuments
  BY <1>3 DEF ToolDocuments
<1> QED
  BY <1>2, <1>4

LEMMA CommitKeeps ==
  ASSUME ToolsInvariant, Commit
  PROVE  ToolsInvariant'
<1>0. call.at = "pending" /\ UNCHANGED <<editor, basis, preview, spent>>
  BY DEF Commit
<1>1. PICK c : c = call
  OBVIOUS
<1>2. PICK doc, m, result, answer :
        /\ doc = Document /\ m = ToMutation(c.op) /\ result = Mutated(doc.proxy, m)
        /\ answer = Committed(m, result) /\ Ends(c, answer)
        /\ IF answer.ok /\ answer.changed
           THEN /\ revisions' = Append(revisions, [doc EXCEPT !.proxy = result.proxy])
                /\ makers' = Append(makers, [id |-> c.id, op |-> c.op,
                                             affected |-> answer.affected])
           ELSE UNCHANGED <<revisions, makers>>
  BY <1>1 DEF Commit
<1>3. /\ ToolsTypes /\ Histories /\ Once /\ CallSound /\ Mine /\ PreviewSound
  BY InvariantParts
<1>4. /\ spent.calls \in Nat /\ basis \in 0..Newest /\ spent \in [calls : Nat, elsewhere : Nat]
  BY <1>3 DEF ToolsTypes
<1>5. /\ IsChange(c) /\ c.expected = Newest
  BY <1>0, <1>1, <1>3, ChangeIs, CallIs
<1>6. /\ Newest \in 1..Newest /\ Newest \in Nat /\ DOMAIN makers = 1..(Newest - 1)
  BY <1>3, MakersAre
<1>7. \A r \in DOMAIN makers : makers[r].id # c.id
  BY <1>0, <1>1, <1>3 DEF Mine
<1>8. /\ doc = revisions[Newest] /\ doc \in ToolDocuments /\ doc.proxy \in Proxies
  BY <1>2, <1>3, <1>6, RevisionIs DEF Document
<1>9. c.op \in Operations /\ c.id \in 1..spent.calls /\ IsMutation(m)
  BY <1>2, <1>5, MutationIsTyped DEF IsChange
<1>10. CASE ~(answer.ok /\ answer.changed)
  <2>1. UNCHANGED <<revisions, makers>>
    BY <1>2, <1>10
  <2>2. ToolsTypes' /\ Histories' /\ Once' /\ Newest' = Newest
    BY <1>0, <1>3, <1>4, <2>1, HistoryStays
  <2>3. PreviewSound'
    BY <1>0, <1>3, <2>1, PreviewStays
  <2>4. IsChange(c)'
    BY <1>0, <1>5, <2>1, <2>2 DEF IsChange
  <2>5. Answered(c, answer)'
    <3>1. ~\E r \in DOMAIN makers' : makers'[r].id = c.id
      BY <1>7, <2>1
    <3>2. CASE ~answer.ok
      BY <3>1, <3>2 DEF Answered
    <3>3. CASE answer.ok
      <4>1. \A why : ~Refused(why).ok
        BY DEF Refused
      <4>2. answer = Accepted(m, result)
        BY <1>2, <3>3, <4>1 DEF Committed
      <4>3. /\ answer.changed = result.changed /\ answer.affected = Affected(doc.proxy, m)
            /\ answer.revision = Newest + (IF result.changed THEN 1 ELSE 0)
        BY <1>2, <4>2 DEF Accepted
      <4>4. ~result.changed
        BY <1>10, <3>3, <4>3
      <4>5. revisions'[c.expected] = doc
        BY <1>5, <1>8, <2>1
      <4> QED BY <1>2, <1>5, <3>1, <3>3, <4>3, <4>4, <4>5 DEF Answered
    <3> QED BY <3>2, <3>3
  <2> QED BY <1>2, <2>2, <2>3, <2>4, <2>5, ChangeEnds
<1>11. CASE answer.ok /\ answer.changed
  <2> DEFINE next == [doc EXCEPT !.proxy = result.proxy]
             maker == [id |-> c.id, op |-> c.op, affected |-> answer.affected]
  <2>1. revisions' = Append(revisions, next) /\ makers' = Append(makers, maker)
    BY <1>2, <1>11
  <2>2. \A why : ~Refused(why).ok
    BY DEF Refused
  <2>3. answer = Accepted(m, result) /\ result.ok /\ (result.changed => Compiles(next))
    BY <1>2, <1>11, <2>2 DEF Committed
  <2>4. /\ answer.changed = result.changed /\ answer.affected = Affected(doc.proxy, m)
        /\ answer.revision = Newest + (IF result.changed THEN 1 ELSE 0)
    BY <1>2, <2>3 DEF Accepted
  <2>5. result.changed
    BY <1>11, <2>4
  <2>6. next \in ToolDocuments
    BY <1>2, <1>8, <1>9, InstalledIs
  <2>7. Affected(doc.proxy, m) \in Refs
    BY <1>2, <1>8, <1>9, <2>3, AffectedIs
  <2>8. maker \in MakerRecords /\ maker # Others
    <3>1. maker \in MakerRecords
      BY <1>4, <1>9, <2>4, <2>7 DEF MakerRecords
    <3>2. maker.id # 0 /\ Others.id = 0
      BY <1>4, <1>9 DEF Others
    <3> HIDE DEF maker
    <3> QED BY <3>1, <3>2
  <2>9. next.proxy = result.proxy
    BY <1>8 DEF ToolDocuments
  <2>15. maker.id = c.id /\ maker.op = c.op /\ maker.affected = Affected(doc.proxy, m)
    BY <2>4
  <2>16. next = [doc EXCEPT !.proxy = result.proxy]
    OBVIOUS
  <2> HIDE DEF next, maker
  <2>10. /\ ToolsTypes' /\ Newest' = Newest + 1
         /\ DOMAIN makers' = DOMAIN makers \union {Newest} /\ Newest \notin DOMAIN makers
         /\ \A r \in 1..Newest : revisions'[r] = revisions[r]
         /\ \A r \in DOMAIN makers : makers'[r] = makers[r]
         /\ revisions'[Newest + 1] = next /\ makers'[Newest] = maker
    BY <1>0, <1>3, <1>4, <2>1, <2>6, <2>8, Grows
  <2>11. PreviewSound' /\ \A r \in DOMAIN makers : makers[r] # Others => Made(r)'
    BY <1>0, <1>3, <1>4, <2>10, GrownSound
  <2>12. Histories'
    <3>1. revisions'[Newest] = doc
      BY <1>6, <1>8, <2>10
    <3>2. c.id <= spent'.calls
      BY <1>0, <1>4, <1>9
    <3>3. PICK n : n = Newest
      OBVIOUS
    <3>4. /\ makers'[n] = maker /\ revisions'[n] = doc /\ revisions'[n + 1] = next
          /\ DOMAIN makers' = DOMAIN makers \union {n}
      BY <2>10, <3>1, <3>3
    <3>5. Made(n)'
      <4>1. /\ ToMutation(makers'[n].op) = m /\ Mutated(revisions'[n].proxy, m) = result
            /\ makers'[n] \in MakerRecords /\ makers'[n].id <= spent'.calls
        BY <1>2, <2>8, <2>15, <3>2, <3>4
      <4>2. revisions'[n + 1] = [revisions'[n] EXCEPT !.proxy = result.proxy]
        BY <2>16, <3>4
      <4>3. Compiles(revisions'[n + 1])
        BY <2>3, <2>5, <3>4
      <4>4. makers'[n].affected = Affected(revisions'[n].proxy, m)
        BY <2>15, <3>4
      <4> QED BY <2>3, <2>5, <4>1, <4>2, <4>3, <4>4 DEF Made
    <3>6. ASSUME NEW r \in DOMAIN makers', makers'[r] # Others PROVE Made(r)'
      <4>1. CASE r = n
        BY <3>5, <4>1
      <4>2. CASE r # n
        <5>1. r \in DOMAIN makers /\ makers[r] # Others
          BY <2>10, <3>4, <3>6, <4>2
        <5> QED BY <2>11, <5>1
      <4> QED BY <4>1, <4>2
    <3> QED BY <3>6 DEF Histories, Others
  <2>13. Once'
    <3>1. ASSUME NEW r \in DOMAIN makers', NEW s \in DOMAIN makers',
                 makers'[r].id = makers'[s].id
          PROVE  makers'[r] = Others \/ r = s
      <4>1. CASE r \in DOMAIN makers /\ s \in DOMAIN makers
        BY <1>3, <2>10, <3>1, <4>1 DEF Once
      <4>2. CASE r = Newest /\ s = Newest
        BY <4>2
      <4>3. CASE r = Newest /\ s \in DOMAIN makers
        BY <1>7, <2>10, <2>15, <3>1, <4>3
      <4>4. CASE s = Newest /\ r \in DOMAIN makers
        BY <1>7, <2>10, <2>15, <3>1, <4>4
      <4> QED BY <2>10, <4>1, <4>2, <4>3, <4>4
    <3> QED BY <3>1 DEF Once, Others
  <2>14. IsChange(c)'
    <3>1. c.expected \in 1..Newest' /\ c.taken \in 1..Newest'
      BY <1>5, <1>6, <2>10 DEF IsChange
    <3>2. ASSUME NEW r \in DOMAIN makers', makers'[r].id = c.id PROVE r = c.expected
      BY <1>5, <1>7, <2>10, <3>2
    <3> QED BY <1>0, <1>5, <3>1, <3>2 DEF IsChange
  <2>17. Answered(c, answer)'
    <3>1. revisions'[c.expected] = doc
      BY <1>5, <1>6, <1>8, <2>10
    <3>2. \E r \in DOMAIN makers' : makers'[r].id = c.id
      BY <2>10, <2>15
    <3> QED BY <1>2, <1>5, <1>11, <2>4, <2>5, <3>1, <3>2 DEF Answered
  <2> QED BY <1>2, <2>10, <2>11, <2>12, <2>13, <2>14, <2>17, ChangeEnds
<1> QED
  BY <1>10, <1>11

(***************************************************************************)
(* What happens elsewhere, and the theorems.                               *)
(***************************************************************************)
LEMMA EditElsewhereKeeps ==
  ASSUME ToolsInvariant, EditElsewhere
  PROVE  ToolsInvariant'
<1>1. /\ call.at # "pending"
      /\ UNCHANGED <<revisions, makers, call, basis, preview, audit, spent>>
  BY DEF EditElsewhere
<1>2. /\ ToolsTypes /\ Histories /\ Once
      /\ CallSound /\ AskedSound /\ AnswerSound /\ Mine /\ ChangeSound /\ PreviewSound
  BY InvariantParts
<1>3. ToolsTypes' /\ Histories' /\ Once'
  <2>1. /\ spent.calls \in Nat /\ basis \in 0..Newest /\ spent \in [calls : Nat, elsewhere : Nat]
    BY <1>2 DEF ToolsTypes
  <2> QED BY <1>1, <1>2, <2>1, HistoryStays
<1>4. CallSound'
  BY <1>1, <1>2 DEF CallSound, Newest
<1>5. AskedSound'
  <2>1. \A v : FromView(v) => FromView(v)'
    BY <1>1 DEF FromView
  <2> QED BY <1>1, <1>2, <2>1 DEF AskedSound
<1>6. AnswerSound' /\ Mine'
  BY <1>1, <1>2 DEF AnswerSound, Mine
<1>7. ChangeSound'
  <2>1. Answered(call, call.answer) => Answered(call, call.answer)'
    BY <1>1 DEF Answered
  <2> QED BY <1>1, <1>2, <2>1 DEF ChangeSound
<1>8. PreviewSound'
  BY <1>1, <1>2, PreviewStays
<1> QED
  BY <1>3, <1>4, <1>5, <1>6, <1>7, <1>8 DEF ToolsInvariant

LEMMA EndElsewhereKeeps ==
  ASSUME ToolsInvariant, EndElsewhere
  PROVE  ToolsInvariant'
<1>0. editor = "busy" /\ spent' = [spent EXCEPT !.elsewhere = @ + 1]
  BY DEF EndElsewhere
<1>1. UNCHANGED <<call, basis, preview, audit>>
  BY DEF EndElsewhere
<1>2. /\ ToolsTypes /\ Histories /\ Once
      /\ CallSound /\ AskedSound /\ AnswerSound /\ Mine /\ ChangeSound /\ PreviewSound
  BY InvariantParts
<1>3. /\ spent.calls \in Nat /\ basis' \in 0..Newest /\ spent' \in [calls : Nat, elsewhere : Nat]
      /\ spent'.calls = spent.calls
  BY <1>0, <1>1, <1>2 DEF ToolsTypes
<1>4. /\ Newest \in 1..Newest /\ Newest \in Nat /\ DOMAIN makers = 1..(Newest - 1)
  BY <1>2, MakersAre
<1>5. call.at # "pending"
  BY <1>0, <1>2 DEF CallSound
<1>6. PICK doc, result :
        /\ doc = Document /\ \E m \in Elsewhere : result = Mutated(doc.proxy, m)
        /\ Installed(result)
  BY DEF EndElsewhere
<1>7. /\ ToolsTypes' /\ Histories' /\ Once' /\ PreviewSound' /\ Newest' >= Newest /\ Newest' \in Nat
      /\ \A r \in 1..Newest : revisions'[r] = revisions[r]
      /\ DOMAIN makers \subseteq DOMAIN makers'
      /\ \A r \in DOMAIN makers : makers'[r] = makers[r]
      /\ \A r \in DOMAIN makers' : r \notin DOMAIN makers => makers'[r] = Others
  <2>1. CASE UNCHANGED <<revisions, makers>>
    <3>1. ToolsTypes' /\ Histories' /\ Once' /\ Newest' = Newest
      BY <1>2, <1>3, <2>1, HistoryStays
    <3>2. PreviewSound'
      BY <1>1, <1>2, <2>1, PreviewStays
    <3> QED BY <1>4, <2>1, <3>1, <3>2
  <2>2. CASE ~UNCHANGED <<revisions, makers>>
    <3> DEFINE next == [doc EXCEPT !.proxy = result.proxy]
    <3>1. revisions' = Append(revisions, next) /\ makers' = Append(makers, Others)
      BY <1>6, <2>2 DEF Installed
    <3>2. doc \in ToolDocuments
      BY <1>2, <1>4, <1>6, RevisionIs DEF Document
    <3>3. next \in ToolDocuments
      BY <1>6, <3>2, InstalledIs, ToolsAssumption
    <3> HIDE DEF next
    <3>4. /\ ToolsTypes' /\ Newest' = Newest + 1
          /\ DOMAIN makers' = DOMAIN makers \union {Newest} /\ Newest \notin DOMAIN makers
          /\ \A r \in 1..Newest : revisions'[r] = revisions[r]
          /\ \A r \in DOMAIN makers : makers'[r] = makers[r]
          /\ makers'[Newest] = Others
      BY <1>1, <1>2, <1>3, <3>1, <3>3, Grows
    <3>5. PreviewSound' /\ \A r \in DOMAIN makers : makers[r] # Others => Made(r)'
      BY <1>1, <1>2, <1>3, <3>4, GrownSound
    <3>6. Histories'
      <4>1. ASSUME NEW r \in DOMAIN makers', makers'[r] # Others PROVE Made(r)'
        <5>1. r \in DOMAIN makers /\ makers[r] # Others
          BY <3>4, <4>1
        <5> QED BY <3>5, <5>1
      <4> QED BY <4>1 DEF Histories, Others
    <3>7. Once'
      <4>1. ASSUME NEW r \in DOMAIN makers', NEW s \in DOMAIN makers',
                   makers'[r].id = makers'[s].id
            PROVE  makers'[r] = Others \/ r = s
        <5>1. CASE r \in DOMAIN makers /\ s \in DOMAIN makers
          BY <1>2, <3>4, <4>1, <5>1 DEF Once
        <5>2. CASE r = Newest
          BY <3>4, <5>2
        <5>3. CASE s = Newest /\ r \in DOMAIN makers
          <6>1. makers[r].id = 0
            BY <3>4, <4>1, <5>3 DEF Others
          <6>2. CASE makers[r] = Others
            BY <3>4, <5>3, <6>2
          <6>3. CASE makers[r] # Others
            <7>1. PICK op, px, m, made : MadeFrom(r, op, px, m, made)
              BY <1>2, <5>3, <6>3, MadeIs
            <7> QED BY <1>3, <6>1, <7>1 DEF MadeFrom
          <6> QED BY <6>2, <6>3
        <5> QED BY <3>4, <5>1, <5>2, <5>3
      <4> QED BY <4>1 DEF Once, Others
    <3> QED BY <1>4, <3>4, <3>5, <3>6, <3>7
  <2> QED BY <2>1, <2>2
<1>8. call.at # "none" =>
        /\ call.id \in 1..spent.calls /\ call.expected \in 1..Newest /\ call.taken \in 1..Newest
        /\ \A r \in DOMAIN makers' : makers'[r].id = call.id => r \in DOMAIN makers
  <2> HAVE call.at # "none"
  <2>1. /\ call.id \in 1..spent.calls /\ call.expected \in 1..Newest /\ call.taken \in 1..Newest
    BY <1>2, CallIs
  <2>2. call.id # 0 /\ Others.id = 0
    BY <1>3, <2>1 DEF Others
  <2> QED BY <1>7, <2>1, <2>2
<1>9. CallSound'
  <2>1. call.at # "none" => call.expected \in 1..Newest' /\ call.taken \in 1..Newest'
    BY <1>4, <1>7, <1>8
  <2> QED BY <1>1, <1>2, <1>3, <1>5, <2>1 DEF CallSound
<1>10. AskedSound'
  <2>1. ASSUME NEW v, FromView(v) PROVE FromView(v)'
    <3>1. basis \in 1..Newest
      BY <1>1, <1>3, <1>4, <2>1 DEF FromView
    <3>2. revisions'[basis] = revisions[basis]
      BY <1>7, <3>1
    <3> QED BY <1>1, <2>1, <3>2 DEF FromView
  <2> QED BY <1>1, <1>2, <2>1 DEF AskedSound
<1>11. AnswerSound'
  <2>1. call.at # "none" => revisions'[call.taken] = revisions[call.taken]
    BY <1>7, <1>8
  <2> QED BY <1>1, <1>2, <2>1 DEF AnswerSound
<1>12. Mine'
  BY <1>1, <1>2, <1>7, <1>8 DEF Mine
<1>13. ChangeSound'
  <2>1. ASSUME call.at # "none", Answered(call, call.answer)
        PROVE  Answered(call, call.answer)'
    <3>1. revisions'[call.expected] = revisions[call.expected]
      BY <1>7, <1>8, <2>1
    <3>2. (\E r \in DOMAIN makers : makers[r].id = call.id)
            <=> \E r \in DOMAIN makers' : makers'[r].id = call.id
      BY <1>7, <1>8, <2>1
    <3> QED BY <1>1, <2>1, <3>1, <3>2 DEF Answered
  <2> QED BY <1>1, <1>2, <2>1 DEF ChangeSound
<1> QED
  BY <1>7, <1>9, <1>10, <1>11, <1>12, <1>13 DEF ToolsInvariant

LEMMA ToolsBeginSound ==
  ToolsInit(ToolDocs, "idle") => ToolsInvariant
<1> HAVE ToolsInit(ToolDocs, "idle")
<1>1. PICK doc \in ToolDocs : revisions = <<doc>>
  BY DEF ToolsInit
<1>2. /\ makers = << >> /\ call = [at |-> "none"] /\ basis = 0 /\ preview = << >>
      /\ spent = [calls |-> 0, elsewhere |-> 0]
  BY DEF ToolsInit
<1>3. call.at = "none"
  BY <1>2
<1>4. ToolsTypes
  <2>1. doc \in ToolDocuments
    BY ToolsAssumption
  <2>2. revisions \in Seq(ToolDocuments) /\ Len(revisions) = 1 /\ revisions # << >>
    BY <1>1, <2>1
  <2>3. makers \in Seq(MakerRecords \union {Others}) /\ Len(makers) = 0
    BY <1>2, EmptySeq
  <2> QED BY <1>2, <2>2, <2>3 DEF ToolsTypes, Newest
<1>5. DOMAIN makers = {}
  BY <1>2
<1> QED
  BY <1>2, <1>3, <1>4, <1>5 DEF ToolsInvariant, Histories, Once, CallSound, AskedSound,
       AnswerSound, Mine, ChangeSound, PreviewSound

LEMMA ToolsStutter ==
  ASSUME ToolsInvariant, UNCHANGED toolVars
  PROVE  ToolsInvariant'
<1>1. UNCHANGED <<revisions, makers, editor, call, basis, preview, audit, spent>>
  BY DEF toolVars
<1>2. /\ ToolsTypes /\ Histories /\ Once
      /\ CallSound /\ AskedSound /\ AnswerSound /\ Mine /\ ChangeSound /\ PreviewSound
  BY InvariantParts
<1>3. ToolsTypes' /\ Histories' /\ Once'
  <2>1. /\ spent.calls \in Nat /\ basis \in 0..Newest /\ spent \in [calls : Nat, elsewhere : Nat]
    BY <1>2 DEF ToolsTypes
  <2> QED BY <1>1, <1>2, <2>1, HistoryStays
<1>4. CallSound'
  BY <1>1, <1>2 DEF CallSound, Newest
<1>5. AskedSound'
  <2>1. \A v : FromView(v) => FromView(v)'
    BY <1>1 DEF FromView
  <2> QED BY <1>1, <1>2, <2>1 DEF AskedSound
<1>6. AnswerSound' /\ Mine'
  BY <1>1, <1>2 DEF AnswerSound, Mine
<1>7. ChangeSound'
  <2>1. Answered(call, call.answer) => Answered(call, call.answer)'
    BY <1>1 DEF Answered
  <2> QED BY <1>1, <1>2, <2>1 DEF ChangeSound
<1>8. PreviewSound'
  BY <1>1, <1>2, PreviewStays
<1> QED
  BY <1>3, <1>4, <1>5, <1>6, <1>7, <1>8 DEF ToolsInvariant

LEMMA ToolsStep ==
  ASSUME ToolsInvariant, [ToolsNext]_toolVars
  PROVE  ToolsInvariant'
<1>1. CASE \E scope \in ReadScopes : GetMappingSettings(scope)
  BY <1>1, GetKeeps
<1>2. CASE \E url \in UNION {ToSet(urls) : urls \in Probes} : ExplainMapping(url)
  BY <1>2, ExplainKeeps
<1>3. CASE ValidateMapping
  BY <1>3, ValidateKeeps
<1>4. CASE \E op \in Operations, urls \in Probes : PreviewMutation(op, urls)
  BY <1>4, PreviewKeeps
<1>5. CASE \E op \in Intended : MutateMapping(op)
  <2>1. PICK op \in Intended : MutateMapping(op)
    BY <1>5
  <2>2. op \in Operations
    <3>1. preview # << >> => preview[1].asked.op \in Operations
      BY InvariantParts DEF PreviewSound
    <3> QED BY <3>1 DEF Intended
  <2> QED BY <2>1, <2>2, MutateKeeps
<1>6. CASE ReadEnds
  BY <1>6, ReadEndsKeeps
<1>7. CASE Retry
  BY <1>7, RetryKeeps
<1>8. CASE Commit
  BY <1>8, CommitKeeps
<1>9. CASE CommitFails
  BY <1>9, CommitFailsKeeps
<1>10. CASE EditElsewhere
  BY <1>10, EditElsewhereKeeps
<1>11. CASE EndElsewhere
  BY <1>11, EndElsewhereKeeps
<1>12. CASE UNCHANGED toolVars
  BY <1>12, ToolsStutter
<1> QED
  BY <1>1, <1>2, <1>3, <1>4, <1>5, <1>6, <1>7, <1>8, <1>9, <1>10, <1>11, <1>12 DEF ToolsNext

\* What a client was shown, asked for and was told fits the revisions that were made.
THEOREM ToolsSpecIsSound == ToolsSpec => []ToolsInvariant
  BY ToolsBeginSound, ToolsStep, PTL DEF ToolsSpec

\* The tools change what their client was shown, where it was shown, once, as the preview
\* said, and the audit says so.
THEOREM ToolsSpecKeepsItsWord == ToolsSpec => []ToolsDoWhatTheySay
  BY ToolsSpecIsSound, InvariantSaysIt, PTL
============================================================================
