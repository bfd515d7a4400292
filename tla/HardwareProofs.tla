---------------------------- MODULE HardwareProofs ----------------------------
(***************************************************************************)
(* Facts about the two things the loader shares with the machine, as facts *)
(* about values: the Multiboot map and the iteration that extends it, and  *)
(* configuration space and the scan for the IDE controller.  The proofs of *)
(* MemoryMap and PciFixup use them for their variables, those of Boot for  *)
(* its own.                                                                *)
(***************************************************************************)
EXTENDS MultibootMap, PciConfig, FiniteSetTheorems, TLAPS

-----------------------------------------------------------------------------
(* The map.  The argument rests on one thing the code does not show on its *)
(* face: how many descriptors have been accounted for.  While the pointer  *)
(* p keeps up with the counter i it is p; once a descriptor that ends in   *)
(* the hole has left p behind it is p + 1, for good.                       *)
Seen(i, p) == IF p < i THEN p + 1 ELSE p

(* The descriptors that become two entries, among the first n. *)
Spanning(efi, n) == {k \in 1..n : SpansHole(efi[k])}

(* Of a firmware map, i iterations have left the pointer at p and written  *)
(* the entries m.  The pointer only ever falls behind at a descriptor that *)
(* ends in the hole; the entries report exactly what the descriptors seen  *)
(* promise; and there are no more than the descriptors account for.        *)
Account(efi, i, p, m) ==
  /\ efi \in EfiMaps /\ i \in 0..Len(efi) /\ p \in 0..i /\ m \in Seq(Entry)
  /\ p < i => p < Len(efi) /\ EndsInHole(efi[p + 1])
  /\ \A a \in Described, kind \in MultibootKind :
       ReportedBy(m, a, kind) <=> Promised(efi, Seen(i, p), a, kind)
  /\ Len(m) <= i + Cardinality(Spanning(efi, p))

(* What one descriptor promises of byte a. *)
Own(d, a, kind) ==
  KindOf(d.type) = kind /\ Claims(d, a) /\ ~InHole(d, a)

-----------------------------------------------------------------------------
(* The kind of any descriptor is a Multiboot kind. *)
LEMMA KindOfType == \A type : KindOf(type) \in MultibootKind
  BY DEF KindOf, MultibootKind

(* KindOf and the usable arm agree. *)
LEMMA UsableIsAvailable ==
  ASSUME NEW type \in UsableTypes
  PROVE  KindOf(type) = "AVAILABLE"
<1>1. type # "ACPI_RECLAIM_MEMORY" /\ type # "ACPI_MEMORY_NVS"
  BY DEF UsableTypes
<1>. QED
  BY <1>1 DEF KindOf

(* A descriptor of a firmware map has a start, a size and an end. *)
LEMMA DescriptorType ==
  ASSUME NEW e \in EfiMaps, NEW k \in 1..Len(e)
  PROVE  /\ e[k] \in Descriptor
         /\ Start(e[k]) \in Nat /\ Size(e[k]) \in Nat /\ End(e[k]) \in Nat
         /\ End(e[k]) = Start(e[k]) + Size(e[k])
<1>1. e \in Seq(Descriptor)
  BY MemoryAssumption
<1>2. e[k] \in Descriptor
  BY <1>1
<1>3. e[k].phys_addr \in Nat /\ e[k].num_pages \in Nat
  BY <1>2 DEF Descriptor
<1>4. e[k].num_pages * PageSize \in Nat
  BY <1>3, MemoryAssumption
<1>. QED
  BY <1>2, <1>3, <1>4 DEF Start, Size, End

(* AddMemoryRegion reports what was reported and the new region. *)
LEMMA AddMemoryRegionReports ==
  ASSUME NEW m \in Seq(Entry), NEW addr \in Nat, NEW length \in Nat,
         NEW type \in MultibootKind
  PROVE  /\ AddMemoryRegion(m, addr, length, type) \in Seq(Entry)
         /\ \A a \in Nat, kind \in MultibootKind :
              ReportedBy(AddMemoryRegion(m, addr, length, type), a, kind) <=>
                \/ ReportedBy(m, a, kind)
                \/ kind = type /\ addr <= a /\ a < addr + length
<1> DEFINE x  == Len(m)
           m2 == AddMemoryRegion(m, addr, length, type)
<1>1. CASE x > 0 /\ m[x].Address + m[x].Length = addr /\ m[x].Type = type
  <2>1. m2 = [m EXCEPT ![x].Length = @ + length]
    BY <1>1 DEF AddMemoryRegion
  <2>2. x \in 1..Len(m) /\ m[x] \in Entry
    BY <1>1
  <2>3. /\ m2 \in Seq(Entry)
        /\ Len(m2) = Len(m)
        /\ m2[x].Address = m[x].Address /\ m2[x].Type = type
        /\ m2[x].Length = m[x].Length + length
        /\ \A k \in 1..Len(m) : k # x => m2[k] = m[k]
    <3>. DEFINE e == [m[x] EXCEPT !.Length = @ + length]
    <3>1. /\ e \in Entry /\ e.Address = m[x].Address /\ e.Type = m[x].Type
          /\ e.Length = m[x].Length + length
      BY <2>2 DEF Entry
    <3>2. m2 = [m EXCEPT ![x] = e]
      BY <2>1
    <3>. HIDE DEF e
    <3>3. Len(m2) = Len(m) /\ m2 \in Seq(Entry)
      BY <2>2, <3>1, <3>2
    <3>4. m2[x] = e /\ \A k \in 1..Len(m) : k # x => m2[k] = m[k]
      BY <2>2, <3>2
    <3>. QED  BY <1>1, <3>1, <3>3, <3>4
  <2>4. ASSUME NEW a \in Nat, NEW kind \in MultibootKind
        PROVE  ReportedBy(m2, a, kind) <=>
                 \/ ReportedBy(m, a, kind)
                 \/ kind = type /\ addr <= a /\ a < addr + length
    <3>1. Covers(m2[x], a) <=>
            Covers(m[x], a) \/ (addr <= a /\ a < addr + length)
      <4>. DEFINE s == m[x].Address
                  l == m[x].Length
      <4>1. s \in Nat /\ l \in Nat /\ s + l = addr
        BY <1>1, <2>2 DEF Entry
      <4>2. m2[x].Address = s /\ m2[x].Length = l + length
        BY <2>3
      <4>. HIDE DEF s, l
      <4>3. /\ Covers(m2[x], a) <=> s <= a /\ a < s + (l + length)
            /\ Covers(m[x], a) <=> s <= a /\ a < s + l
        BY <4>2 DEF Covers, s, l
      <4>. QED  BY <4>1, <4>3
    <3>. QED
      BY <2>2, <2>3, <3>1, <1>1 DEF ReportedBy
  <2>. QED
    BY <2>3, <2>4
<1>2. CASE ~(x > 0 /\ m[x].Address + m[x].Length = addr /\ m[x].Type = type)
  <2> DEFINE e == [Address |-> addr, Length |-> length, Type |-> type]
  <2>1. m2 = Append(m, e)
    BY <1>2 DEF AddMemoryRegion
  <2>2. e \in Entry
    BY DEF Entry
  <2>3. /\ m2 \in Seq(Entry)
        /\ Len(m2) = x + 1
        /\ m2[x + 1] = e
        /\ \A k \in 1..x : m2[k] = m[k]
    BY <2>1, <2>2
  <2>4. ASSUME NEW a \in Nat, NEW kind \in MultibootKind
        PROVE  ReportedBy(m2, a, kind) <=>
                 \/ ReportedBy(m, a, kind)
                 \/ kind = type /\ addr <= a /\ a < addr + length
    <3>1. /\ e.Type = kind <=> kind = type
          /\ Covers(e, a) <=> addr <= a /\ a < addr + length
      BY DEF Covers
    <3>2. \A k \in 1..(x + 1) : k \in 1..x \/ k = x + 1
      OBVIOUS
    <3>3. x + 1 \in 1..Len(m2) /\ 1..x \subseteq 1..Len(m2)
      BY <2>3
    <3>. QED
      BY <2>3, <3>1, <3>2, <3>3 DEF ReportedBy
  <2>. QED
    BY <2>3, <2>4
<1>. QED
  BY <1>1, <1>2

(* AddBelowHole reports what was reported and the part below 640K. *)
LEMMA AddBelowHoleReports ==
  ASSUME NEW m \in Seq(Entry), NEW d, Start(d) \in Nat
  PROVE  /\ AddBelowHole(m, d) \in Seq(Entry)
         /\ \A a \in Nat, kind \in MultibootKind :
              ReportedBy(AddBelowHole(m, d), a, kind) <=>
                \/ ReportedBy(m, a, kind)
                \/ kind = "AVAILABLE" /\ Start(d) <= a /\ a < LowTop
<1>1. CASE Start(d) < LowTop
  <2>1. LowTop - Start(d) \in Nat /\ Start(d) + (LowTop - Start(d)) = LowTop
    BY <1>1, MemoryAssumption
  <2>2. "AVAILABLE" \in MultibootKind
    BY DEF MultibootKind
  <2>3. AddBelowHole(m, d)
          = AddMemoryRegion(m, Start(d), LowTop - Start(d), "AVAILABLE")
    BY <1>1 DEF AddBelowHole
  <2> DEFINE m2 == AddMemoryRegion(m, Start(d), LowTop - Start(d), "AVAILABLE")
  <2>4. /\ m2 \in Seq(Entry)
        /\ \A a \in Nat, kind \in MultibootKind :
             ReportedBy(m2, a, kind) <=>
               \/ ReportedBy(m, a, kind)
               \/ /\ kind = "AVAILABLE" /\ Start(d) <= a
                  /\ a < Start(d) + (LowTop - Start(d))
    BY <2>1, <2>2, AddMemoryRegionReports
  <2>. HIDE DEF m2
  <2>5. AddBelowHole(m, d) = m2
    BY <2>3 DEF m2
  <2>. QED
    BY <2>1, <2>4, <2>5
<1>2. CASE ~(Start(d) < LowTop)
  BY <1>2, MemoryAssumption DEF AddBelowHole
<1>. QED
  BY <1>1, <1>2

(* One more descriptor promises what the earlier ones did and its own. *)
LEMMA PromisedNext ==
  ASSUME NEW e, NEW n \in Nat, NEW a, NEW kind
  PROVE  Promised(e, n + 1, a, kind) <=>
           \/ Promised(e, n, a, kind)
           \/ /\ KindOf(e[n + 1].type) = kind
              /\ Claims(e[n + 1], a)
              /\ ~InHole(e[n + 1], a)
<1>1. 1..(n + 1) = 1..n \cup {n + 1}
  OBVIOUS
<1>. QED
  BY <1>1 DEF Promised

(* Below the hole is all a descriptor that ends in it promises. *)
LEMMA OwnEndsInHole ==
  ASSUME NEW d, NEW a \in Described, NEW kind,
         Start(d) \in Nat, End(d) \in Nat, EndsInHole(d)
  PROVE  Own(d, a, kind) <=>
           kind = "AVAILABLE" /\ Start(d) <= a /\ a < LowTop
<1>1. KindOf(d.type) = "AVAILABLE" /\ d.type \in UsableTypes
  BY UsableIsAvailable DEF EndsInHole, TouchesHole
<1>2. a \in Nat /\ LowTop \in Nat /\ HighBase \in Nat /\ LowTop < HighBase
  BY MemoryAssumption
<1>. QED
  BY <1>1, <1>2 DEF Own, EndsInHole, TouchesHole, Claims, InHole

(* Below 640K and from 1MB is all a descriptor that comes out of the hole  *)
(* at the top promises.                                                    *)
LEMMA OwnAcrossHole ==
  ASSUME NEW d, NEW a \in Described, NEW kind,
         Start(d) \in Nat, End(d) \in Nat,
         TouchesHole(d), End(d) > HighBase
  PROVE  Own(d, a, kind) <=>
           \/ kind = "AVAILABLE" /\ Start(d) <= a /\ a < LowTop
           \/ kind = "AVAILABLE" /\ HighBase <= a /\ a < End(d)
<1>1. KindOf(d.type) = "AVAILABLE" /\ d.type \in UsableTypes
  BY UsableIsAvailable DEF TouchesHole
<1>2. a \in Nat /\ LowTop \in Nat /\ HighBase \in Nat /\ LowTop < HighBase
  BY MemoryAssumption
<1>. QED
  BY <1>1, <1>2 DEF Own, TouchesHole, Claims, InHole

(* Any other descriptor promises all of its bytes. *)
LEMMA OwnWhole ==
  ASSUME NEW d, NEW a \in Described, NEW kind,
         Start(d) \in Nat, End(d) \in Nat, ~TouchesHole(d)
  PROVE  Own(d, a, kind) <=>
           kind = KindOf(d.type) /\ Start(d) <= a /\ a < End(d)
<1>2. a \in Nat /\ LowTop \in Nat /\ HighBase \in Nat /\ LowTop < HighBase
  BY MemoryAssumption
<1>. QED
  BY <1>2 DEF Own, TouchesHole, Claims, InHole

(* A set of descriptors has a size. *)
LEMMA SpanningFinite ==
  ASSUME NEW efi, NEW n \in Nat
  PROVE  IsFiniteSet(Spanning(efi, n)) /\ Cardinality(Spanning(efi, n)) \in Nat
<1>1. IsFiniteSet(1..n)
  BY FS_Interval
<1>2. Spanning(efi, n) \in SUBSET (1..n)
  BY DEF Spanning
<1>. QED  BY <1>1, <1>2, FS_Subset, FS_CardinalityType

(* One more descriptor counts if it spans the hole. *)
LEMMA SpanningNext ==
  ASSUME NEW efi, NEW n \in Nat
  PROVE  /\ Cardinality(Spanning(efi, n + 1)) >= Cardinality(Spanning(efi, n))
         /\ SpansHole(efi[n + 1])
              => Cardinality(Spanning(efi, n + 1)) = Cardinality(Spanning(efi, n)) + 1
<1>. DEFINE c  == Cardinality(Spanning(efi, n))
            c1 == Cardinality(Spanning(efi, n + 1))
<1>1. 1..(n + 1) = 1..n \cup {n + 1} /\ n + 1 \notin 1..n
  OBVIOUS
<1>2. IsFiniteSet(Spanning(efi, n)) /\ c \in Nat
  BY SpanningFinite
<1>3. ASSUME SpansHole(efi[n + 1]) PROVE c1 = c + 1
  <2>1. Spanning(efi, n + 1) = Spanning(efi, n) \cup {n + 1} /\ n + 1 \notin Spanning(efi, n)
    BY <1>1, <1>3 DEF Spanning
  <2>2. Cardinality(Spanning(efi, n) \cup {n + 1}) = c + 1
    BY <1>2, <2>1, FS_AddElement
  <2>. QED  BY <2>1, <2>2
<1>4. ASSUME ~SpansHole(efi[n + 1]) PROVE c1 = c
  <2>1. Spanning(efi, n + 1) = Spanning(efi, n)
    BY <1>1, <1>4 DEF Spanning
  <2>. QED  BY <2>1
<1>. HIDE DEF c, c1
<1>5. c1 >= c /\ (SpansHole(efi[n + 1]) => c1 = c + 1)
  BY <1>2, <1>3, <1>4
<1>. QED  BY <1>5, Zenon DEF c, c1

(* AddMemoryRegion adds an entry or none. *)
LEMMA AddsOneEntry ==
  ASSUME NEW m \in Seq(Entry), NEW addr, NEW length, NEW type
  PROVE  Len(AddMemoryRegion(m, addr, length, type)) \in {Len(m), Len(m) + 1}
<1>. DEFINE x == Len(m)
            longer == [m EXCEPT ![x].Length = @ + length]
            more == Append(m, [Address |-> addr, Length |-> length, Type |-> type])
<1>1. Len(longer) = Len(m)
  OBVIOUS
<1>2. Len(more) = Len(m) + 1
  OBVIOUS
<1>3. AddMemoryRegion(m, addr, length, type) \in {longer, more}
  BY DEF AddMemoryRegion
<1>. QED  BY <1>1, <1>2, <1>3

-----------------------------------------------------------------------------
(* What an iteration makes of the entries m at descriptor d.               *)
Converted(m, d) ==
  IF ~TouchesHole(d)
  THEN AddMemoryRegion(m, Start(d), Size(d), KindOf(d.type))
  ELSE IF End(d) > HighBase
       THEN AddMemoryRegion(AddBelowHole(m, d), HighBase, End(d) - HighBase, "AVAILABLE")
       ELSE AddBelowHole(m, d)

Measured(d) ==
  /\ Start(d) \in Nat /\ Size(d) \in Nat /\ End(d) \in Nat
  /\ End(d) = Start(d) + Size(d)

(* It is what the arms of the switch do.                                   *)
LEMMA ArmsConvert ==
  ASSUME NEW m, NEW d, Measured(d)
  PROVE  /\ d.type \notin UsableTypes =>
              /\ Converted(m, d) = AddMemoryRegion(m, Start(d), Size(d), KindOf(d.type))
              /\ ~EndsInHole(d)
         /\ d.type \in UsableTypes /\ ~TouchesHole(d) =>
              /\ Converted(m, d) = AddMemoryRegion(m, Start(d), Size(d), "AVAILABLE")
              /\ ~EndsInHole(d)
         /\ TouchesHole(d) /\ End(d) > HighBase =>
              /\ Converted(m, d) = AddMemoryRegion(AddBelowHole(m, d), HighBase,
                                                   End(d) - HighBase, "AVAILABLE")
              /\ ~EndsInHole(d)
         /\ EndsInHole(d) => Converted(m, d) = AddBelowHole(m, d)
<1>1. d.type \notin UsableTypes => ~TouchesHole(d)
  BY DEF TouchesHole
<1>2. d.type \in UsableTypes => KindOf(d.type) = "AVAILABLE"
  BY UsableIsAvailable
<1>3. ~(End(d) > HighBase /\ End(d) <= HighBase)
  BY MemoryAssumption DEF Measured
<1>4. EndsInHole(d) <=> TouchesHole(d) /\ End(d) <= HighBase
  BY DEF EndsInHole
<1>. QED  BY <1>1, <1>2, <1>3, <1>4, Zenon DEF Converted

(* It adds what the descriptor promises, and nothing else.                 *)
LEMMA ConvertedReports ==
  ASSUME NEW m \in Seq(Entry), NEW d, Measured(d)
  PROVE  /\ Converted(m, d) \in Seq(Entry)
         /\ \A a \in Described, kind \in MultibootKind :
              ReportedBy(Converted(m, d), a, kind)
                <=> ReportedBy(m, a, kind) \/ Own(d, a, kind)
<1>0. /\ Start(d) \in Nat /\ Size(d) \in Nat /\ End(d) \in Nat
      /\ End(d) = Start(d) + Size(d)
      /\ LowTop \in Nat /\ HighBase \in Nat /\ LowTop < HighBase
      /\ Described \subseteq Nat /\ "AVAILABLE" \in MultibootKind
  BY MemoryAssumption DEF MultibootKind, Measured
<1>1. CASE ~TouchesHole(d)
  <2>. DEFINE m2 == AddMemoryRegion(m, Start(d), Size(d), KindOf(d.type))
  <2>1. /\ m2 \in Seq(Entry)
        /\ \A a \in Nat, kind \in MultibootKind :
             ReportedBy(m2, a, kind) <=>
               \/ ReportedBy(m, a, kind)
               \/ kind = KindOf(d.type) /\ Start(d) <= a /\ a < Start(d) + Size(d)
    BY <1>0, KindOfType, AddMemoryRegionReports
  <2>. HIDE DEF m2
  <2>2. \A a \in Described, kind \in MultibootKind :
          ReportedBy(m2, a, kind) <=> ReportedBy(m, a, kind) \/ Own(d, a, kind)
    BY <1>0, <1>1, <2>1, OwnWhole
  <2>3. Converted(m, d) = m2
    BY <1>1 DEF Converted, m2
  <2>. QED  BY <2>1, <2>2, <2>3
<1>2. CASE TouchesHole(d)
  <2>. DEFINE low == AddBelowHole(m, d)
  <2>1. /\ low \in Seq(Entry)
        /\ \A a \in Nat, kind \in MultibootKind :
             ReportedBy(low, a, kind) <=>
               \/ ReportedBy(m, a, kind)
               \/ kind = "AVAILABLE" /\ Start(d) <= a /\ a < LowTop
    BY <1>0, AddBelowHoleReports
  <2>2. CASE End(d) > HighBase
    <3>. DEFINE high == End(d) - HighBase
                m2 == AddMemoryRegion(low, HighBase, high, "AVAILABLE")
    <3>1. high \in Nat /\ HighBase + high = End(d)
      BY <1>0, <2>2
    <3>. HIDE DEF low, high
    <3>2. /\ m2 \in Seq(Entry)
          /\ \A a \in Nat, kind \in MultibootKind :
               ReportedBy(m2, a, kind) <=>
                 \/ ReportedBy(low, a, kind)
                 \/ kind = "AVAILABLE" /\ HighBase <= a /\ a < HighBase + high
      <4>1. /\ low \in Seq(Entry) /\ HighBase \in Nat /\ high \in Nat
            /\ "AVAILABLE" \in MultibootKind
        BY <1>0, <2>1, <3>1
      <4>. QED  BY <4>1, AddMemoryRegionReports, Zenon
    <3>. HIDE DEF m2
    <3>3. \A a \in Described, kind \in MultibootKind :
            ReportedBy(m2, a, kind) <=> ReportedBy(m, a, kind) \/ Own(d, a, kind)
      BY <1>0, <1>2, <2>1, <2>2, <3>1, <3>2, OwnAcrossHole
    <3>4. Converted(m, d) = m2
      BY <1>2, <2>2 DEF Converted, m2, low, high
    <3>. QED  BY <3>2, <3>3, <3>4
  <2>3. CASE ~(End(d) > HighBase)
    <3>1. EndsInHole(d)
      BY <1>0, <1>2, <2>3 DEF EndsInHole
    <3>2. Converted(m, d) = low
      BY <1>2, <2>3 DEF Converted
    <3>. HIDE DEF low
    <3>3. \A a \in Described, kind \in MultibootKind :
            ReportedBy(low, a, kind) <=> ReportedBy(m, a, kind) \/ Own(d, a, kind)
      BY <1>0, <2>1, <3>1, OwnEndsInHole
    <3>. QED  BY <2>1, <3>2, <3>3
  <2>. QED  BY <2>2, <2>3
<1>. QED  BY <1>1, <1>2

(* It adds one entry at most, and two only across the whole hole.          *)
LEMMA ConvertedLength ==
  ASSUME NEW m \in Seq(Entry), NEW d, Measured(d)
  PROVE  /\ Len(Converted(m, d)) <= Len(m) + 2
         /\ ~SpansHole(d) => Len(Converted(m, d)) <= Len(m) + 1
<1>. DEFINE low == AddBelowHole(m, d)
            new == Converted(m, d)
<1>0. /\ Len(m) \in Nat /\ low \in Seq(Entry) /\ Len(low) \in Nat
      /\ new \in Seq(Entry) /\ Len(new) \in Nat
  <2>1. Start(d) \in Nat
    BY DEF Measured
  <2>2. low \in Seq(Entry)
    BY <2>1, AddBelowHoleReports
  <2>3. new \in Seq(Entry)
    BY ConvertedReports
  <2>. HIDE DEF low, new
  <2>. QED  BY <2>2, <2>3
<1>1. Len(low) \in {Len(m), Len(m) + 1} /\ (~(Start(d) < LowTop) => Len(low) = Len(m))
  BY AddsOneEntry, Zenon DEF AddBelowHole
<1>2. ~TouchesHole(d) => Len(new) \in {Len(m), Len(m) + 1}
  BY AddsOneEntry, Zenon DEF Converted
<1>3. TouchesHole(d) /\ End(d) > HighBase => Len(new) \in {Len(low), Len(low) + 1}
  BY <1>0, AddsOneEntry, Zenon DEF Converted
<1>4. TouchesHole(d) /\ ~(End(d) > HighBase) => Len(new) = Len(low)
  BY Zenon DEF Converted
<1>5. SpansHole(d) <=> TouchesHole(d) /\ Start(d) < LowTop /\ End(d) > HighBase
  BY DEF SpansHole
<1>. HIDE DEF low, new
<1>6. Len(new) <= Len(m) + 2 /\ (~SpansHole(d) => Len(new) <= Len(m) + 1)
  BY <1>0, <1>1, <1>2, <1>3, <1>4, <1>5
<1>. QED  BY <1>6 DEF new

-----------------------------------------------------------------------------
(* Before the loop nothing is seen and nothing is written.                 *)
LEMMA AccountStarts ==
  ASSUME NEW efi \in EfiMaps
  PROVE  Account(efi, 0, 0, <<>>)
<1>1. Len(efi) \in Nat
  BY MemoryAssumption
<1>2. Cardinality(Spanning(efi, 0)) \in Nat
  BY SpanningFinite
<1>3. Seen(0, 0) = 0
  BY DEF Seen
<1>4. \A a, kind : ~ReportedBy(<<>>, a, kind) /\ ~Promised(efi, 0, a, kind)
  BY DEF ReportedBy, Promised
<1>5. Len(<<>>) = 0 /\ <<>> \in Seq(Entry)
  OBVIOUS
<1>. QED  BY <1>1, <1>2, <1>3, <1>4, <1>5 DEF Account

(* The descriptor the pointer stands on is one of the firmware's.          *)
LEMMA CurrentDescriptor ==
  ASSUME NEW efi, NEW i, NEW p, NEW m, Account(efi, i, p, m), i < Len(efi)
  PROVE  /\ Len(efi) \in Nat /\ i \in Nat /\ p \in Nat /\ p <= i
         /\ p + 1 \in 1..Len(efi) /\ Measured(efi[p + 1])
<1>1. efi \in EfiMaps /\ Len(efi) \in Nat /\ i \in 0..Len(efi) /\ p \in 0..i
  BY MemoryAssumption DEF Account
<1>2. i \in Nat /\ p \in Nat /\ p <= i /\ p + 1 \in 1..Len(efi)
  BY <1>1
<1>. QED  BY <1>1, <1>2, DescriptorType DEF Measured

(* An iteration keeps the account: past the descriptor, or stuck at one    *)
(* that ends in the hole.                                                  *)
LEMMA AccountKept ==
  ASSUME NEW efi, NEW i, NEW p, NEW m, Account(efi, i, p, m), i < Len(efi)
  PROVE  Account(efi, i + 1, IF EndsInHole(efi[p + 1]) THEN p ELSE p + 1,
                 Converted(m, efi[p + 1]))
<1>. DEFINE d == efi[p + 1]
            new == Converted(m, d)
            c == Cardinality(Spanning(efi, p))
            c1 == Cardinality(Spanning(efi, p + 1))
<1>0. /\ efi \in EfiMaps /\ m \in Seq(Entry) /\ Len(m) \in Nat /\ Len(m) <= i + c
      /\ p < i => EndsInHole(efi[p + 1])
      /\ \A a \in Described, kind \in MultibootKind :
           ReportedBy(m, a, kind) <=> Promised(efi, Seen(i, p), a, kind)
  BY DEF Account
<1>1. /\ Len(efi) \in Nat /\ i \in Nat /\ p \in Nat /\ p <= i
      /\ p + 1 \in 1..Len(efi) /\ Measured(d)
  BY CurrentDescriptor
<1>2. c \in Nat /\ c1 \in Nat /\ c1 >= c /\ (SpansHole(d) => c1 = c + 1)
  <2>1. c \in Nat /\ c1 \in Nat
    <3>1. p \in Nat /\ p + 1 \in Nat
      BY <1>1
    <3>. QED  BY <3>1, SpanningFinite, Zenon
  <2>2. c1 >= c /\ (SpansHole(d) => c1 = c + 1)
    BY <1>1, SpanningNext, Zenon
  <2>. HIDE DEF c, c1, d
  <2>. QED  BY <2>1, <2>2
<1>3. /\ new \in Seq(Entry) /\ Len(new) \in Nat
      /\ \A a \in Described, kind \in MultibootKind :
           ReportedBy(new, a, kind) <=> ReportedBy(m, a, kind) \/ Own(d, a, kind)
  BY <1>0, <1>1, ConvertedReports
<1>4. Len(new) <= Len(m) + 2 /\ (~SpansHole(d) => Len(new) <= Len(m) + 1)
  BY <1>0, <1>1, ConvertedLength
<1>5. \A a \in Described, kind \in MultibootKind :
        ReportedBy(new, a, kind) <=> Promised(efi, p + 1, a, kind)
  <2>1. \A a, kind : Promised(efi, p + 1, a, kind)
                       <=> Promised(efi, p, a, kind) \/ Own(d, a, kind)
    BY <1>1, PromisedNext DEF Own
  <2>2. Seen(i, p) \in {p, p + 1}
    BY DEF Seen
  <2>. HIDE DEF new, d
  <2>. QED  BY <1>0, <1>3, <2>1, <2>2
<1>6. ~(EndsInHole(d) /\ SpansHole(d))
  BY <1>1, MemoryAssumption DEF EndsInHole, SpansHole, Measured
<1>. HIDE DEF new, d, c, c1
<1>7. CASE EndsInHole(d)
  <2>1. Seen(i + 1, p) = p + 1 /\ p < i + 1 /\ p < Len(efi)
    BY <1>1 DEF Seen
  <2>2. Len(new) <= (i + 1) + c
    BY <1>0, <1>1, <1>2, <1>3, <1>4, <1>6, <1>7
  <2>3. Len(new) <= (i + 1) + Cardinality(Spanning(efi, p))
    BY <2>2 DEF c
  <2>4. i + 1 \in 0..Len(efi) /\ p \in 0..(i + 1)
    BY <1>1
  <2>5. Account(efi, i + 1, p, new)
    BY <1>0, <1>3, <1>5, <1>7, <2>1, <2>3, <2>4 DEF Account, d
  <2>. QED  BY <1>7, <2>5 DEF new, d
<1>8. CASE ~EndsInHole(d)
  <2>1. p = i
    BY <1>0, <1>1, <1>8 DEF d
  <2>2. Seen(i + 1, p + 1) = p + 1 /\ ~(p + 1 < i + 1)
    BY <1>1, <2>1 DEF Seen
  <2>3. Len(new) <= (i + 1) + c1
    BY <1>0, <1>1, <1>2, <1>3, <1>4
  <2>4. Len(new) <= (i + 1) + Cardinality(Spanning(efi, p + 1))
    BY <2>3 DEF c1
  <2>5. i + 1 \in 0..Len(efi) /\ p + 1 \in 0..(i + 1)
    BY <1>1
  <2>6. Account(efi, i + 1, p + 1, new)
    BY <1>0, <1>3, <1>5, <2>2, <2>4, <2>5 DEF Account
  <2>. QED  BY <1>8, <2>6 DEF new, d
<1>. QED  BY <1>7, <1>8

-----------------------------------------------------------------------------
(* All the descriptors are seen at the end, if none but the last can hold  *)
(* the pointer back.                                                       *)
LEMMA SeenAll ==
  ASSUME NEW efi, NEW p, NEW m, Account(efi, Len(efi), p, m), CleanMap(efi)
  PROVE  Seen(Len(efi), p) = Len(efi)
<1>1. Len(efi) \in Nat /\ p \in 0..Len(efi)
  BY MemoryAssumption DEF Account
<1>2. CASE p < Len(efi)
  <2>1. EndsInHole(efi[p + 1]) /\ p + 1 \in 1..Len(efi)
    BY <1>1, <1>2 DEF Account
  <2>2. p + 1 \notin 1..(Len(efi) - 1)
    BY <2>1 DEF CleanMap
  <2>. QED  BY <1>1, <1>2, <2>1, <2>2 DEF Seen
<1>3. CASE ~(p < Len(efi))
  BY <1>1, <1>3 DEF Seen
<1>. QED  BY <1>2, <1>3

(* What is reported is promised.                                           *)
LEMMA ReportedIsPromised ==
  ASSUME NEW efi, NEW i, NEW p, NEW m, Account(efi, i, p, m),
         NEW a \in Described, NEW kind \in MultibootKind, ReportedBy(m, a, kind)
  PROVE  Promised(efi, Len(efi), a, kind)
<1>1. Promised(efi, Seen(i, p), a, kind)
  BY DEF Account
<1>2. Len(efi) \in Nat /\ i \in 0..Len(efi) /\ p \in 0..i
  BY MemoryAssumption DEF Account
<1>3. 1..Seen(i, p) \subseteq 1..Len(efi)
  BY <1>2 DEF Seen
<1>. QED  BY <1>1, <1>3 DEF Promised

(* ... and at the end the other way round, in maps as SeenAll has them.    *)
LEMMA AccountExact ==
  ASSUME NEW efi, NEW p, NEW m, Account(efi, Len(efi), p, m), CleanMap(efi),
         NEW a \in Described, NEW kind \in MultibootKind
  PROVE  ReportedBy(m, a, kind) <=> Promised(efi, Len(efi), a, kind)
BY SeenAll DEF Account

(* Of disjoint descriptors one at most spans the hole: two would both      *)
(* claim its first byte.                                                   *)
LEMMA OneSpans ==
  ASSUME NEW efi \in EfiMaps, NEW n \in 0..Len(efi), DisjointMap(efi)
  PROVE  Cardinality(Spanning(efi, n)) \in {0, 1}
<1>1. 1..n \subseteq 1..Len(efi)
  BY MemoryAssumption
<1>2. ASSUME NEW j \in Spanning(efi, n), NEW k \in Spanning(efi, n) PROVE j = k
  <2>1. /\ j \in 1..Len(efi) /\ k \in 1..Len(efi)
        /\ SpansHole(efi[j]) /\ SpansHole(efi[k])
    BY <1>1 DEF Spanning
  <2>2. /\ Start(efi[j]) \in Nat /\ End(efi[j]) \in Nat
        /\ Start(efi[k]) \in Nat /\ End(efi[k]) \in Nat
    BY <2>1, DescriptorType
  <2>3. Claims(efi[j], LowTop) /\ Claims(efi[k], LowTop)
    BY <2>1, <2>2, MemoryAssumption DEF SpansHole, Claims
  <2>. QED  BY <2>1, <2>3, MemoryAssumption DEF DisjointMap
<1>3. CASE Spanning(efi, n) = {}
  BY <1>3, FS_EmptySet
<1>4. CASE Spanning(efi, n) # {}
  <2>1. PICK k \in Spanning(efi, n) : TRUE
    BY <1>4
  <2>2. Spanning(efi, n) = {k}
    BY <1>2, <2>1
  <2>. QED  BY <2>2, FS_Singleton
<1>. QED  BY <1>3, <1>4

(* The entries of any firmware map: as many as its descriptors, those that *)
(* span the hole counted twice.                                            *)
LEMMA EntriesBounded ==
  ASSUME NEW efi, NEW i, NEW p, NEW m, Account(efi, i, p, m)
  PROVE  Len(m) <= Len(efi) + Cardinality(Spanning(efi, Len(efi)))
<1>. DEFINE c == Cardinality(Spanning(efi, p))
            all == Cardinality(Spanning(efi, Len(efi)))
<1>1. /\ Len(efi) \in Nat /\ i \in 0..Len(efi) /\ p \in 0..i /\ Len(m) \in Nat
      /\ Len(m) <= i + c
  BY MemoryAssumption DEF Account
<1>2. Spanning(efi, p) \in SUBSET Spanning(efi, Len(efi))
  BY <1>1 DEF Spanning
<1>3. p \in Nat
  BY <1>1
<1>4. c \in Nat /\ all \in Nat /\ c <= all
  BY <1>1, <1>2, <1>3, SpanningFinite, FS_Subset
<1>. HIDE DEF c, all
<1>5. Len(m) <= Len(efi) + all
  BY <1>1, <1>4
<1>. QED  BY <1>5 DEF all

-----------------------------------------------------------------------------
(* Coalesced, of an entry list.                                            *)
NoHalves(m) ==
  \A k \in 1..(Len(m) - 1) :
    ~ /\ m[k].Address + m[k].Length = m[k + 1].Address
      /\ m[k].Type = m[k + 1].Type

(* Only the end of the last entry moves, and a region that would continue  *)
(* it is never made an entry.                                              *)
LEMMA AddKeepsNoHalves ==
  ASSUME NEW m \in Seq(Entry), NoHalves(m),
         NEW addr \in Nat, NEW len \in Nat, NEW kind \in MultibootKind
  PROVE  /\ AddMemoryRegion(m, addr, len, kind) \in Seq(Entry)
         /\ NoHalves(AddMemoryRegion(m, addr, len, kind))
<1>. DEFINE x == Len(m)
            n == AddMemoryRegion(m, addr, len, kind)
<1>1. CASE x > 0 /\ m[x].Address + m[x].Length = addr /\ m[x].Type = kind
  <2>1. n = [m EXCEPT ![x] = [m[x] EXCEPT !.Length = m[x].Length + len]]
    BY <1>1 DEF AddMemoryRegion
  <2>2. x \in 1..Len(m) /\ m[x] \in Entry
    BY <1>1
  <2>3. [m[x] EXCEPT !.Length = m[x].Length + len] \in Entry
    BY <2>2 DEF Entry
  <2>4. n \in Seq(Entry) /\ Len(n) = x /\ \A k \in 1..(x - 1) : n[k] = m[k]
    BY <2>1, <2>2, <2>3
  <2>5. n[x].Address = m[x].Address /\ n[x].Type = m[x].Type
    BY <2>1, <2>2 DEF Entry
  <2>6. ASSUME NEW k \in 1..(x - 1)
        PROVE  ~ /\ n[k].Address + n[k].Length = n[k + 1].Address
                 /\ n[k].Type = n[k + 1].Type
    <3>1. n[k] = m[k]
      BY <2>4
    <3>2. n[k + 1].Address = m[k + 1].Address /\ n[k + 1].Type = m[k + 1].Type
      BY <2>4, <2>5
    <3>. QED
      BY <3>1, <3>2 DEF NoHalves
  <2>. QED
    BY <2>4, <2>6 DEF NoHalves
<1>2. CASE ~(x > 0 /\ m[x].Address + m[x].Length = addr /\ m[x].Type = kind)
  <2>. DEFINE e == [Address |-> addr, Length |-> len, Type |-> kind]
  <2>1. n = Append(m, e) /\ e \in Entry
    BY <1>2 DEF AddMemoryRegion, Entry
  <2>2. /\ n \in Seq(Entry) /\ Len(n) = x + 1 /\ n[x + 1] = e
        /\ \A k \in 1..x : n[k] = m[k]
    BY <2>1
  <2>3. ASSUME NEW k \in 1..x
        PROVE  ~ /\ n[k].Address + n[k].Length = n[k + 1].Address
                 /\ n[k].Type = n[k + 1].Type
    <3>1. CASE k = x
      BY <1>2, <2>2, <3>1
    <3>2. CASE k < x
      BY <2>2, <3>2 DEF NoHalves
    <3>. QED
      BY <3>1, <3>2
  <2>4. Len(n) - 1 = x
    BY <2>2
  <2>. HIDE DEF n
  <2>5. NoHalves(n)
    BY <2>3, <2>4 DEF NoHalves
  <2>. QED
    BY <2>2, <2>5 DEF n
<1>. QED
  BY <1>1, <1>2

(* An iteration makes no halves.                                           *)
LEMMA ConvertedNoHalves ==
  ASSUME NEW m \in Seq(Entry), NoHalves(m), NEW d, Measured(d)
  PROVE  NoHalves(Converted(m, d))
<1>. DEFINE low == AddBelowHole(m, d)
<1>0. /\ Start(d) \in Nat /\ Size(d) \in Nat /\ End(d) \in Nat
      /\ LowTop \in Nat /\ HighBase \in Nat /\ "AVAILABLE" \in MultibootKind
  BY MemoryAssumption DEF MultibootKind, Measured
<1>1. low \in Seq(Entry) /\ NoHalves(low)
  <2>1. CASE Start(d) < LowTop
    <3>1. LowTop - Start(d) \in Nat
      BY <1>0, <2>1
    <3>. QED  BY <1>0, <2>1, <3>1, AddKeepsNoHalves DEF AddBelowHole
  <2>2. CASE ~(Start(d) < LowTop)
    BY <2>2 DEF AddBelowHole
  <2>. QED  BY <2>1, <2>2
<1>2. CASE ~TouchesHole(d)
  BY <1>0, <1>2, KindOfType, AddKeepsNoHalves DEF Converted
<1>3. CASE TouchesHole(d) /\ End(d) > HighBase
  <2>1. End(d) - HighBase \in Nat
    BY <1>0, <1>3
  <2>. HIDE DEF low
  <2>2. Converted(m, d) = AddMemoryRegion(low, HighBase, End(d) - HighBase, "AVAILABLE")
    BY <1>3 DEF Converted, low
  <2>. QED  BY <1>0, <1>1, <2>1, <2>2, AddKeepsNoHalves
<1>4. CASE TouchesHole(d) /\ ~(End(d) > HighBase)
  BY <1>1, <1>4 DEF Converted
<1>. QED  BY <1>2, <1>3, <1>4

-----------------------------------------------------------------------------
(* The entries of a list share no byte. *)
ShareNoByte(m) ==
  \A j, k \in 1..Len(m) :
    j # k => \A a \in Described : ~(Covers(m[j], a) /\ Covers(m[k], a))

(* A region none of whose bytes is covered leaves the entries apart.       *)
LEMMA AddKeepsApart ==
  ASSUME NEW m \in Seq(Entry), ShareNoByte(m),
         NEW addr \in Nat, NEW length \in Nat, NEW type \in MultibootKind,
         \A a \in Described, k \in 1..Len(m) :
           addr <= a /\ a < addr + length => ~Covers(m[k], a)
  PROVE  ShareNoByte(AddMemoryRegion(m, addr, length, type))
<1>. DEFINE x == Len(m)
            n == AddMemoryRegion(m, addr, length, type)
            InRegion(a) == addr <= a /\ a < addr + length
<1>0. x \in Nat /\ Described \subseteq Nat
  BY MemoryAssumption
<1>1. \E last \in 1..Len(n) :
        /\ \A k \in 1..Len(n) : k # last => k \in 1..x /\ n[k] = m[k]
        /\ \A a \in Nat : Covers(n[last], a) <=>
             InRegion(a) \/ (last \in 1..x /\ Covers(m[last], a))
  <2>1. CASE x > 0 /\ m[x].Address + m[x].Length = addr /\ m[x].Type = type
    <3>1. n = [m EXCEPT ![x] = [m[x] EXCEPT !.Length = m[x].Length + length]]
      BY <2>1 DEF AddMemoryRegion
    <3>2. x \in 1..Len(m) /\ m[x] \in Entry
      BY <2>1
    <3>3. Len(n) = x /\ \A k \in 1..(x - 1) : n[k] = m[k]
      BY <3>1, <3>2
    <3>4. n[x].Address = m[x].Address /\ n[x].Length = m[x].Length + length
      BY <3>1, <3>2 DEF Entry
    <3>5. \A a \in Nat : Covers(n[x], a) <=> InRegion(a) \/ Covers(m[x], a)
      BY <2>1, <3>2, <3>4 DEF Covers, Entry
    <3>. QED  BY <1>0, <3>2, <3>3, <3>5
  <2>2. CASE ~(x > 0 /\ m[x].Address + m[x].Length = addr /\ m[x].Type = type)
    <3>. DEFINE e == [Address |-> addr, Length |-> length, Type |-> type]
    <3>1. n = Append(m, e)
      BY <2>2 DEF AddMemoryRegion
    <3>2. Len(n) = x + 1 /\ n[x + 1] = e /\ \A k \in 1..x : n[k] = m[k]
      BY <3>1
    <3>3. \A a \in Nat : Covers(n[x + 1], a) <=> InRegion(a)
      BY <3>2 DEF Covers
    <3>. DEFINE y == x + 1
    <3>4. /\ y \in 1..Len(n) /\ y \notin 1..x
          /\ \A k \in 1..Len(n) : k # y => k \in 1..x
      BY <1>0, <3>2
    <3>5. /\ \A k \in 1..Len(n) : k # y => k \in 1..x /\ n[k] = m[k]
          /\ \A a \in Nat : Covers(n[y], a) <=>
               InRegion(a) \/ (y \in 1..x /\ Covers(m[y], a))
      BY <3>2, <3>3, <3>4
    <3>. HIDE DEF y, n, InRegion
    <3>. QED  BY <3>4, <3>5
  <2>. QED  BY <2>1, <2>2
<1>. HIDE DEF n
<1>2. ASSUME NEW j \in 1..Len(n), NEW k \in 1..Len(n), j # k, NEW a \in Described
      PROVE  ~(Covers(n[j], a) /\ Covers(n[k], a))
  BY <1>0, <1>1, <1>2 DEF ShareNoByte
<1>3. ShareNoByte(n)
  BY <1>2 DEF ShareNoByte
<1>. QED  BY <1>3 DEF n

(* What is not reported with any kind is in no entry. *)
LEMMA CoveredIsReported ==
  ASSUME NEW m \in Seq(Entry), NEW k \in 1..Len(m), NEW a, Covers(m[k], a)
  PROVE  m[k].Type \in MultibootKind /\ ReportedBy(m, a, m[k].Type)
<1>1. m[k] \in Entry
  OBVIOUS
<1>. QED  BY <1>1 DEF Entry, ReportedBy

(* An iteration keeps the entries apart, if its descriptor shares no byte  *)
(* with them.                                                              *)
LEMMA ConvertedApart ==
  ASSUME NEW m \in Seq(Entry), ShareNoByte(m), NEW d, Measured(d),
         \A a \in Described, kind \in MultibootKind :
           Claims(d, a) => ~ReportedBy(m, a, kind)
  PROVE  ShareNoByte(Converted(m, d))
<1>. DEFINE low == AddBelowHole(m, d)
<1>0. /\ Start(d) \in Nat /\ Size(d) \in Nat /\ End(d) \in Nat
      /\ End(d) = Start(d) + Size(d)
      /\ LowTop \in Nat /\ HighBase \in Nat /\ LowTop < HighBase
      /\ Described \subseteq Nat /\ "AVAILABLE" \in MultibootKind
  BY MemoryAssumption DEF MultibootKind, Measured
<1>1. \A a \in Described, k \in 1..Len(m) : Claims(d, a) => ~Covers(m[k], a)
  BY CoveredIsReported
<1>2. CASE ~TouchesHole(d)
  <2>1. \A a \in Described, k \in 1..Len(m) :
          Start(d) <= a /\ a < Start(d) + Size(d) => ~Covers(m[k], a)
    BY <1>0, <1>1 DEF Claims
  <2>2. Converted(m, d) = AddMemoryRegion(m, Start(d), Size(d), KindOf(d.type))
    BY <1>2 DEF Converted
  <2>. QED  BY <1>0, <2>1, <2>2, KindOfType, AddKeepsApart
<1>3. CASE TouchesHole(d)
  <2>0. Start(d) < HighBase /\ End(d) > LowTop
    BY <1>3 DEF TouchesHole
  <2>1. /\ low \in Seq(Entry)
        /\ \A a \in Nat, kind \in MultibootKind :
             ReportedBy(low, a, kind) <=>
               \/ ReportedBy(m, a, kind)
               \/ kind = "AVAILABLE" /\ Start(d) <= a /\ a < LowTop
    BY <1>0, AddBelowHoleReports
  <2>2. ShareNoByte(low)
    <3>1. CASE Start(d) < LowTop
      <4>. DEFINE len == LowTop - Start(d)
      <4>1. len \in Nat /\ Start(d) + len = LowTop
        BY <1>0, <3>1
      <4>2. low = AddMemoryRegion(m, Start(d), len, "AVAILABLE")
        BY <3>1 DEF AddBelowHole
      <4>. HIDE DEF len, low
      <4>3. \A a \in Described, k \in 1..Len(m) :
              Start(d) <= a /\ a < Start(d) + len => ~Covers(m[k], a)
        BY <1>0, <1>1, <2>0, <4>1 DEF Claims
      <4>. QED  BY <1>0, <4>1, <4>2, <4>3, AddKeepsApart
    <3>2. CASE ~(Start(d) < LowTop)
      BY <3>2 DEF AddBelowHole
    <3>. QED  BY <3>1, <3>2
  <2>. HIDE DEF low
  <2>3. CASE End(d) > HighBase
    <3>. DEFINE len == End(d) - HighBase
    <3>1. len \in Nat /\ HighBase + len = End(d)
      BY <1>0, <2>3
    <3>2. Converted(m, d) = AddMemoryRegion(low, HighBase, len, "AVAILABLE")
      BY <1>3, <2>3 DEF Converted, low
    <3>. HIDE DEF len
    <3>3. ASSUME NEW a \in Described, NEW k \in 1..Len(low),
                 HighBase <= a, a < HighBase + len, Covers(low[k], a)
          PROVE  FALSE
      <4>1. PICK kind \in MultibootKind : ReportedBy(low, a, kind)
        BY <2>1, <3>3, CoveredIsReported
      <4>2. ReportedBy(m, a, kind)
        BY <1>0, <2>1, <3>3, <4>1
      <4>3. Claims(d, a)
        BY <1>0, <2>0, <3>1, <3>3 DEF Claims
      <4>. QED  BY <4>2, <4>3
    <3>. QED  BY <1>0, <2>1, <2>2, <3>1, <3>2, <3>3, AddKeepsApart
  <2>4. CASE ~(End(d) > HighBase)
    <3>1. Converted(m, d) = low
      BY <1>3, <2>4 DEF Converted, low
    <3>. QED  BY <2>2, <3>1
  <2>. QED  BY <2>3, <2>4
<1>. QED  BY <1>2, <1>3

(* Which bytes are free: those of a descriptor that shares none with the   *)
(* earlier ones, as long as the pointer keeps up.                          *)
LEMMA AccountApart ==
  ASSUME NEW efi, NEW i, NEW p, NEW m, Account(efi, i, p, m), i < Len(efi),
         DisjointMap(efi), CleanMap(efi), ShareNoByte(m)
  PROVE  ShareNoByte(Converted(m, efi[p + 1]))
<1>1. /\ Len(efi) \in Nat /\ i \in Nat /\ p \in Nat /\ p <= i
      /\ p + 1 \in 1..Len(efi) /\ Measured(efi[p + 1])
  BY CurrentDescriptor
<1>2. ~(p < i)
  <2>. SUFFICES ASSUME p < i PROVE FALSE
    OBVIOUS
  <2>1. EndsInHole(efi[p + 1]) /\ p + 1 \in 1..(Len(efi) - 1)
    BY <1>1 DEF Account
  <2>. QED  BY <2>1 DEF CleanMap
<1>3. ASSUME NEW a \in Described, NEW kind \in MultibootKind,
             Claims(efi[p + 1], a), ReportedBy(m, a, kind)
      PROVE  FALSE
  <2>1. Promised(efi, p, a, kind)
    BY <1>2, <1>3 DEF Account, Seen
  <2>2. PICK k \in 1..p : Claims(efi[k], a)
    BY <2>1 DEF Promised
  <2>3. k \in 1..Len(efi) /\ k # p + 1
    BY <1>1
  <2>. QED  BY <1>1, <1>3, <2>2, <2>3 DEF DisjointMap
<1>4. m \in Seq(Entry)
  BY DEF Account
<1>. QED  BY <1>1, <1>3, <1>4, ConvertedApart

-----------------------------------------------------------------------------
(* Configuration space.                                                    *)
FirstOf(old, f) == \A g \in ControllersOf(old) : g # f => Before(f, g)

(* The scan has left no controller behind and written nothing; what the    *)
(* fixup works on is decided when the scan ends; and how it ends, by the   *)
(* programming interface of that function.                                 *)
FixupState(old, config, pc, bus, slot, func, dev) ==
  /\ config \in Space /\ old \in Space
  /\ pc \in {"scan", "fixup", "done", "failed"}
  /\ bus \in 0..LastBus /\ slot \in 0..(NumSlots - 1) /\ func \in 0..(NumFuncs - 1)
  /\ dev \in Function
  /\ pc \in {"scan", "fixup"} => config = old
  /\ pc = "scan" => \A f \in ControllersOf(old) : ~Before(f, <<bus, slot, func>>)
  /\ pc # "scan" /\ ControllersOf(old) # {} => dev \in ControllersOf(old) /\ FirstOf(old, dev)
  /\ pc = "done" =>
       /\ old[dev][8][2] \in {138, 143}
       /\ config[dev][8] = [old[dev][8] EXCEPT ![2] = 138] /\ config[dev][0] = old[dev][0]
       /\ \A g \in Function \ {dev} : config[g] = old[g]
  /\ pc = "failed" => old[dev][8][2] \notin {138, 143}

-----------------------------------------------------------------------------
(* The loops visit functions in a total order. *)
LEMMA BeforeTotal ==
  ASSUME NEW f \in Function, NEW g \in Function, ~Before(f, g), f # g
  PROVE  Before(g, f)
<1>1. /\ f = <<f[1], f[2], f[3]>> /\ g = <<g[1], g[2], g[3]>>
      /\ f[1] \in Nat /\ f[2] \in Nat /\ f[3] \in Nat
      /\ g[1] \in Nat /\ g[2] \in Nat /\ g[3] \in Nat
  BY GeometryAssumption DEF Function
<1>2. f[1] # g[1] \/ f[2] # g[2] \/ f[3] # g[3]
  BY <1>1
<1>. QED  BY <1>1, <1>2 DEF Before

(* Passing misses none: what is before the next function is before this    *)
(* one, or is this one.                                                    *)
LEMMA PassToSuccessor ==
  ASSUME NEW b \in 0..LastBus, NEW s \in 0..(NumSlots - 1), NEW c \in 0..(NumFuncs - 1),
         NEW b2, NEW s2, NEW c2,
         IF c < NumFuncs - 1 THEN b2 = b /\ s2 = s /\ c2 = c + 1
         ELSE /\ c2 = 0
              /\ IF s < NumSlots - 1 THEN b2 = b /\ s2 = s + 1 ELSE b2 = b + 1 /\ s2 = 0,
         NEW f \in Function, Before(f, <<b2, s2, c2>>)
  PROVE  Before(f, <<b, s, c>>) \/ f = <<b, s, c>>
<1>1. /\ f = <<f[1], f[2], f[3]>>
      /\ f[1] \in Nat /\ f[2] \in 0..(NumSlots - 1) /\ f[3] \in 0..(NumFuncs - 1)
  BY GeometryAssumption DEF Function
<1>2. b \in Nat /\ NumSlots \in Nat /\ NumFuncs \in Nat
  BY GeometryAssumption
<1>3. CASE c < NumFuncs - 1
  <2>1. b2 = b /\ s2 = s /\ c2 = c + 1
    BY <1>3
  <2>. QED  BY <1>1, <1>2, <2>1 DEF Before
<1>4. CASE c >= NumFuncs - 1 /\ s < NumSlots - 1
  <2>1. b2 = b /\ s2 = s + 1 /\ c2 = 0 /\ c = NumFuncs - 1
    BY <1>2, <1>4
  <2>. QED  BY <1>1, <1>2, <2>1 DEF Before
<1>5. CASE c >= NumFuncs - 1 /\ s >= NumSlots - 1
  <2>1. b2 = b + 1 /\ s2 = 0 /\ c2 = 0 /\ c = NumFuncs - 1 /\ s = NumSlots - 1
    BY <1>2, <1>5
  <2>. QED  BY <1>1, <1>2, <2>1 DEF Before
<1>. QED  BY <1>2, <1>3, <1>4, <1>5

-----------------------------------------------------------------------------
(* Division with remainder, by the one way to write n with them.           *)
LEMMA Quotient ==
  ASSUME NEW n \in Int, NEW q \in Int, NEW r \in Int, NEW k \in Nat,
         0 <= r, r < k, n = q * k + r
  PROVE  n \div k = q /\ n % k = r
OBVIOUS

(* Bus, slot and function do not run into one another in an address.       *)
LEMMA AddressNames ==
  ASSUME NEW f \in Function, NEW Offset \in 0..255
  PROVE  /\ FunctionAt(ConfigAddress(f, Offset)) = f
         /\ RegisterAt(ConfigAddress(f, Offset)) = Offset - (Offset % 4)
<1>. DEFINE b == f[1]
            s == f[2]
            c == f[3]
            r == Offset - (Offset % 4)
            a == ConfigAddress(f, Offset)
<1>1. f = <<b, s, c>> /\ b \in 0..255 /\ s \in 0..31 /\ c \in 0..7 /\ r \in 0..255
  BY GeometryAssumption DEF Function
<1>2. a = b * 65536 + s * 2048 + c * 256 + r
  BY DEF ConfigAddress
<1>. HIDE DEF a, b, s, c, r
<1>. SUFFICES ASSUME b \in 0..255, s \in 0..31, c \in 0..7, r \in 0..255,
                     a = b * 65536 + s * 2048 + c * 256 + r
              PROVE  FunctionAt(a) = <<b, s, c>> /\ RegisterAt(a) = r
  BY <1>1, <1>2 DEF a, r
<1>3. a \in Int
  OBVIOUS
<1>4. a \div 65536 = b
  BY <1>3, Quotient, a = b * 65536 + (s * 2048 + c * 256 + r),
     s * 2048 + c * 256 + r < 65536, s * 2048 + c * 256 + r \in Nat
<1>5. a \div 2048 = b * 32 + s
  BY <1>3, Quotient, a = (b * 32 + s) * 2048 + (c * 256 + r),
     c * 256 + r < 2048, c * 256 + r \in Nat, b * 32 + s \in Nat
<1>6. (b * 32 + s) % 32 = s
  BY Quotient, b * 32 + s \in Nat
<1>7. a \div 256 = b * 256 + s * 8 + c /\ a % 256 = r
  BY <1>3, Quotient, a = (b * 256 + s * 8 + c) * 256 + r, b * 256 + s * 8 + c \in Nat
<1>8. (b * 256 + s * 8 + c) % 8 = c
  BY Quotient, b * 256 + s * 8 + c = (b * 32 + s) * 8 + c,
     b * 256 + s * 8 + c \in Nat, b * 32 + s \in Nat
<1>. QED  BY <1>4, <1>5, <1>6, <1>7, <1>8 DEF FunctionAt, RegisterAt

(* A longword is read from the function it is asked of.                    *)
LEMMA ReadsLongword ==
  ASSUME NEW space, NEW f \in Function
  PROVE  PciReadLong(space, f, 8) = space[f][8]
<1>1. FunctionAt(ConfigAddress(f, 8)) = f /\ RegisterAt(ConfigAddress(f, 8)) = 8
  BY AddressNames
<1>. QED  BY <1>1 DEF PciReadLong, Data

(* Writing a longword changes one register of one function.                *)
LEMMA WritesLongword ==
  ASSUME NEW space \in Space, NEW f \in Function, NEW Value \in Longword
  PROVE  LET new == PciWriteLong(space, f, 8, Value)
         IN  /\ new \in Space
             /\ new[f][8] = Value /\ new[f][0] = space[f][0]
             /\ \A g \in Function \ {f} : new[g] = space[g]
<1>1. FunctionAt(ConfigAddress(f, 8)) = f /\ RegisterAt(ConfigAddress(f, 8)) = 8
  BY AddressNames
<1>2. PciWriteLong(space, f, 8, Value) = [space EXCEPT ![f] = [@ EXCEPT ![8] = Value]]
  BY <1>1 DEF PciWriteLong
<1>3. space[f] \in [Register -> Longword] /\ 8 \in Register /\ 0 \in Register
  BY DEF Space, Register
<1>4. [space[f] EXCEPT ![8] = Value] \in [Register -> Longword]
  BY <1>3
<1>. QED  BY <1>2, <1>3, <1>4 DEF Space

(* The longword written is the one read but for its second byte.           *)
LEMMA Reconstructed ==
  ASSUME NEW l \in Longword
  PROVE  /\ FromBytes(l[1], 138, l[3], l[4]) \in Longword
         /\ FromBytes(l[1], 138, l[3], l[4]) = [l EXCEPT ![2] = 138]
<1>. DEFINE n == FromBytes(l[1], 138, l[3], l[4])
<1>1. n = [k \in 1..4 |-> IF k = 1 THEN l[1] ELSE IF k = 2 THEN 138
                          ELSE IF k = 3 THEN l[3] ELSE l[4]]
  BY DEF FromBytes
<1>. HIDE DEF n
<1>2. n \in Longword /\ [l EXCEPT ![2] = 138] \in Longword
  BY <1>1 DEF Longword
<1>3. \A k \in 1..4 : n[k] = [l EXCEPT ![2] = 138][k]
  BY <1>1 DEF Longword
<1>4. n \in Longword /\ n = [l EXCEPT ![2] = 138]
  BY <1>2, <1>3 DEF Longword
<1>. QED  BY <1>4 DEF n

-----------------------------------------------------------------------------
(* The scan starts at the first function: none is before it.               *)
LEMMA ScanStarts ==
  ASSUME NEW old \in Space, NEW dev \in Function
  PROVE  FixupState(old, old, "scan", 0, 0, 0, dev)
BY GeometryAssumption DEF FixupState, ControllersOf, Scanned, Function, Before

(* The controller at the counters is the first: the scan has passed none.  *)
LEMMA ScanFinds ==
  ASSUME NEW old, NEW config, NEW b, NEW s, NEW c, NEW dev,
         FixupState(old, config, "scan", b, s, c, dev),
         b < LastBus, IsIde(config, <<b, s, c>>)
  PROVE  FixupState(old, config, "fixup", b, s, c, <<b, s, c>>)
<1>. DEFINE here == <<b, s, c>>
<1>1. /\ config \in Space /\ old \in Space /\ config = old
      /\ b \in 0..LastBus /\ s \in 0..(NumSlots - 1) /\ c \in 0..(NumFuncs - 1)
      /\ \A f \in ControllersOf(old) : ~Before(f, here)
  BY DEF FixupState
<1>2. here \in Function
  BY <1>1 DEF Function
<1>3. here \in ControllersOf(old)
  BY <1>1, <1>2 DEF ControllersOf, Scanned
<1>. HIDE DEF here
<1>4. FirstOf(old, here)
  <2>. SUFFICES ASSUME NEW g \in ControllersOf(old), g # here PROVE Before(here, g)
    BY DEF FirstOf
  <2>1. g \in Function /\ ~Before(g, here)
    BY <1>1 DEF ControllersOf, Scanned
  <2>. QED  BY <1>2, <2>1, BeforeTotal
<1>5. FixupState(old, config, "fixup", b, s, c, here)
  BY <1>1, <1>2, <1>3, <1>4 DEF FixupState
<1>. QED  BY <1>5 DEF here

(* Past a function that is no controller there is still none behind.       *)
LEMMA ScanPasses ==
  ASSUME NEW old, NEW config, NEW b, NEW s, NEW c, NEW dev, NEW b2, NEW s2, NEW c2,
         FixupState(old, config, "scan", b, s, c, dev),
         b < LastBus, ~IsIde(config, <<b, s, c>>),
         IF c < NumFuncs - 1 THEN b2 = b /\ s2 = s /\ c2 = c + 1
         ELSE /\ c2 = 0
              /\ IF s < NumSlots - 1 THEN b2 = b /\ s2 = s + 1 ELSE b2 = b + 1 /\ s2 = 0
  PROVE  FixupState(old, config, "scan", b2, s2, c2, dev)
<1>1. /\ config \in Space /\ old \in Space /\ config = old
      /\ b \in 0..LastBus /\ s \in 0..(NumSlots - 1) /\ c \in 0..(NumFuncs - 1)
      /\ dev \in Function /\ \A f \in ControllersOf(old) : ~Before(f, <<b, s, c>>)
  BY DEF FixupState
<1>2. b2 \in 0..LastBus /\ s2 \in 0..(NumSlots - 1) /\ c2 \in 0..(NumFuncs - 1)
  BY <1>1, GeometryAssumption
<1>3. ASSUME NEW f \in ControllersOf(old), Before(f, <<b2, s2, c2>>) PROVE FALSE
  <2>1. f \in Function /\ IsIde(old, f)
    BY DEF ControllersOf, Scanned
  <2>2. Before(f, <<b, s, c>>) \/ f = <<b, s, c>>
    BY <1>1, <1>3, <2>1, PassToSuccessor
  <2>. QED  BY <1>1, <2>1, <2>2
<1>. QED  BY <1>1, <1>2, <1>3 DEF FixupState

(* Past the last function there was none to see.                           *)
LEMMA ScanEnds ==
  ASSUME NEW old, NEW config, NEW b, NEW s, NEW c, NEW dev,
         FixupState(old, config, "scan", b, s, c, dev), b = LastBus
  PROVE  /\ ControllersOf(old) = {}
         /\ FixupState(old, config, "fixup", b, s, c, dev)
<1>1. ControllersOf(old) = {}
  <2>. SUFFICES ASSUME NEW f \in ControllersOf(old) PROVE FALSE
    OBVIOUS
  <2>1. Before(f, <<b, s, c>>)
    BY GeometryAssumption DEF ControllersOf, Scanned, Function, Before
  <2>. QED  BY <2>1 DEF FixupState
<1>. QED  BY <1>1 DEF FixupState

(* What the fixup reads is what the firmware set.                          *)
LEMMA FixupReads ==
  ASSUME NEW old, NEW config, NEW b, NEW s, NEW c, NEW dev,
         FixupState(old, config, "fixup", b, s, c, dev)
  PROVE  /\ PciReadLong(config, dev, 8) = old[dev][8] /\ old[dev][8] \in Longword
         /\ config = old /\ old \in Space /\ dev \in Function
<1>1. config = old /\ old \in Space /\ dev \in Function
  BY DEF FixupState
<1>2. old[dev][8] \in Longword
  BY <1>1 DEF Space, Register
<1>. QED  BY <1>1, <1>2, ReadsLongword

(* Compatibility mode: there is nothing to write.                          *)
LEMMA FixupLeaves ==
  ASSUME NEW old, NEW config, NEW b, NEW s, NEW c, NEW dev,
         FixupState(old, config, "fixup", b, s, c, dev),
         PciReadLong(config, dev, 8)[2] = 138
  PROVE  FixupState(old, config, "done", b, s, c, dev)
<1>1. /\ old[dev][8] \in Longword /\ config = old /\ old \in Space /\ dev \in Function
      /\ old[dev][8][2] = 138
  BY FixupReads
<1>2. old[dev][8] = [old[dev][8] EXCEPT ![2] = 138]
  BY <1>1 DEF Longword
<1>. QED  BY <1>1, <1>2 DEF FixupState

(* Native mode: the one byte is changed, and nothing else.                 *)
LEMMA FixupWrites ==
  ASSUME NEW old, NEW config, NEW b, NEW s, NEW c, NEW dev, NEW config2,
         FixupState(old, config, "fixup", b, s, c, dev),
         PciReadLong(config, dev, 8)[2] = 143,
         config2 = PciWriteLong(config, dev, 8,
                     LET l == PciReadLong(config, dev, 8)
                     IN  FromBytes(l[1], 138, l[3], l[4]))
  PROVE  FixupState(old, config2, "done", b, s, c, dev)
<1>. DEFINE l == old[dev][8]
            n == FromBytes(l[1], 138, l[3], l[4])
<1>1. /\ l \in Longword /\ config = old /\ old \in Space /\ dev \in Function /\ l[2] = 143
      /\ config2 = PciWriteLong(old, dev, 8, n)
  BY FixupReads
<1>2. n \in Longword /\ n = [l EXCEPT ![2] = 138]
  BY <1>1, Reconstructed
<1>. HIDE DEF l, n
<1>3. /\ config2 \in Space /\ config2[dev][8] = n /\ config2[dev][0] = old[dev][0]
      /\ \A g \in Function \ {dev} : config2[g] = old[g]
  BY <1>1, <1>2, WritesLongword
<1>4. /\ config2[dev][8] = [old[dev][8] EXCEPT ![2] = 138] /\ old[dev][8][2] = 143
  BY <1>1, <1>2, <1>3 DEF l
<1>. QED  BY <1>1, <1>3, <1>4 DEF FixupState

(* Any other programming interface stops the loader.                       *)
LEMMA FixupRefuses ==
  ASSUME NEW old, NEW config, NEW b, NEW s, NEW c, NEW dev,
         FixupState(old, config, "fixup", b, s, c, dev),
         PciReadLong(config, dev, 8)[2] \notin {138, 143}
  PROVE  FixupState(old, config, "failed", b, s, c, dev)
<1>1. old[dev][8][2] \notin {138, 143}
  BY FixupReads
<1>. QED  BY <1>1 DEF FixupState

(* Where there is a controller to see, the first is ready in the end.      *)
LEMMA FirstIsReady ==
  ASSUME NEW old, NEW config, NEW b, NEW s, NEW c, NEW dev,
         FixupState(old, config, "done", b, s, c, dev), ControllersOf(old) # {}
  PROVE  \E f \in ControllersOf(old) :
           /\ FirstOf(old, f)
           /\ config[f][8] = [old[f][8] EXCEPT ![2] = 138] /\ config[f][0] = old[f][0]
           /\ \A g \in Function \ {f} : config[g] = old[g]
BY DEF FixupState
=============================================================================
