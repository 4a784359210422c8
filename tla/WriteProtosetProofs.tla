------------------------- MODULE WriteProtosetProofs -------------------------
(***************************************************************************)
(* Theorems about WriteProtoset, for every list of files, every server and *)
(* any number of symbols.                                                  *)
(***************************************************************************)
EXTENDS Listings, SequenceTheorems, FiniteSetTheorems, WellFoundedInduction,
        TLAPS

\* What Append does to the positions of a sequence.
LEMMA AppendIs ==
  ASSUME NEW S, NEW s \in Seq(S), NEW e \in S
  PROVE  /\ Append(s, e) \in Seq(S)
         /\ Len(Append(s, e)) = Len(s) + 1
         /\ DOMAIN s = 1 .. Len(s)
         /\ DOMAIN Append(s, e) = 1 .. Len(s) + 1
         /\ \A i \in 1 .. Len(s) : Append(s, e)[i] = s[i]
         /\ Append(s, e)[Len(s) + 1] = e
  OBVIOUS

\* What is left when the last element is taken away.
LEMMA PopIs ==
  ASSUME NEW S, NEW s \in Seq(S), s # <<>>
  PROVE  LET t == SubSeq(s, 1, Len(s) - 1)
         IN  /\ Len(s) \in Nat \ {0}
             /\ s[Len(s)] \in S
             /\ t \in Seq(S)
             /\ Len(t) = Len(s) - 1
             /\ DOMAIN t = 1 .. Len(s) - 1
             /\ DOMAIN s = 1 .. Len(s)
             /\ \A i \in 1 .. Len(s) - 1 : t[i] = s[i]
<1> DEFINE n == Len(s) - 1
<1>1. /\ Len(s) \in Nat \ {0} /\ s[Len(s)] \in S
      /\ DOMAIN s = 1 .. Len(s) /\ n \in Int
      /\ \A i \in 1 .. n : s[i] \in S
  OBVIOUS
<1>2. /\ SubSeq(s, 1, n) \in Seq(S)
      /\ Len(SubSeq(s, 1, n)) = IF 1 <= n THEN n - 1 + 1 ELSE 0
      /\ \A i \in 1 .. n - 1 + 1 : SubSeq(s, 1, n)[i] = s[1 + i - 1]
  BY <1>1, SubSeqProperties
<1> QED
  BY <1>1, <1>2

\* Files in order stay so when one is added whose name is new and whose imports
\* are all there.
LEMMA InOrderAppend ==
  ASSUME NEW files \in Seq(Proto), NEW f \in Proto, InOrder(files),
         f.name \notin NamesIn(files),
         \A m \in DOMAIN f.deps : f.deps[m] \in NamesIn(files)
  PROVE  InOrder(Append(files, f))
<1> DEFINE more == Append(files, f)
<1>1. /\ DOMAIN files = 1 .. Len(files) /\ DOMAIN more = 1 .. Len(files) + 1
      /\ \A i \in 1 .. Len(files) : more[i] = files[i]
      /\ more[Len(files) + 1] = f
      /\ Len(files) \in Nat
  BY AppendIs
<1> HIDE DEF more
<1>2. \A i, j \in DOMAIN more : more[i].name = more[j].name => i = j
  BY <1>1 DEF InOrder, NamesIn
<1>3. \A i \in DOMAIN more : \A k \in DOMAIN more[i].deps :
          \E j \in 1 .. i - 1 : more[j].name = more[i].deps[k]
  <2> SUFFICES ASSUME NEW i \in DOMAIN more, NEW k \in DOMAIN more[i].deps
               PROVE  \E j \in 1 .. i - 1 : more[j].name = more[i].deps[k]
    OBVIOUS
  <2>1. CASE i \in DOMAIN files
    <3>1. PICK j \in 1 .. i - 1 : files[j].name = files[i].deps[k]
      BY <1>1, <2>1 DEF InOrder
    <3> QED
      BY <1>1, <2>1, <3>1
  <2>2. CASE i = Len(files) + 1
    <3>1. PICK j \in DOMAIN files : files[j].name = f.deps[k]
      BY <1>1, <2>2 DEF NamesIn
    <3> QED
      BY <1>1, <2>2, <3>1
  <2> QED
    BY <1>1, <2>1, <2>2
<1> QED
  BY <1>2, <1>3 DEF InOrder, more
-------------------------------------------------------------------------------
(* Loading: a call of resolveFileDescriptor. *)

\* The predicates of the invariant, for a frame that asks for its next import.
LEMMA AskedFrame ==
  ASSUME NEW STATE f, f \in Frame, f.next \in DOMAIN f.file.deps,
         Unfinished(f), Passed(f, f.next),
         NEW STATE g, g \in Frame, g = [f EXCEPT !.next = @ + 1]
  PROVE  /\ Unfinished(g)
         /\ f.file.deps[f.next] \in NamesIn(resolved) => Passed(g, g.next)
         /\ Passed(g, g.next - 1)
         /\ \A h : h.file.name = f.file.deps[f.next] => WaitsFor(g, h)
<1>1. g.file = f.file /\ g.next = f.next + 1 /\ f.next \in Nat
      /\ DOMAIN f.file.deps \subseteq Nat
  BY DEF Frame, Proto
<1>2. Unfinished(g)
  BY <1>1 DEF Unfinished
<1>3. Passed(g, g.next - 1)
  BY <1>1 DEF Passed
<1>4. f.file.deps[f.next] \in NamesIn(resolved) => Passed(g, g.next)
  BY <1>1 DEF Passed
<1>5. \A h : h.file.name = f.file.deps[f.next] => WaitsFor(g, h)
  BY <1>1 DEF WaitsFor
<1> QED
  BY <1>2, <1>3, <1>4, <1>5

\* The predicates look at nothing but the files given and created.
LEMMA SameFiles ==
  ASSUME UNCHANGED <<given, resolved>>
  PROVE  \A f, g, limit :
           /\ Unfinished(f)' <=> Unfinished(f)
           /\ Passed(f, limit)' <=> Passed(f, limit)
           /\ WaitsFor(f, g)' <=> WaitsFor(f, g)
  BY DEF Unfinished, Passed, WaitsFor, Unresolved, NamesIn

\* The frames that wait for n: as they are, but for the next import of the top.
Waiting(n, below) ==
    /\ below \in Seq(Frame) /\ Len(below) = Len(stack)
    /\ \A k \in 1 .. Len(stack) - 1 : below[k] = stack[k]
    /\ stack # <<>> =>
          /\ Top.next \in DOMAIN Top.file.deps
          /\ Top.file.deps[Top.next] = n
          /\ below[Len(stack)] = [Top EXCEPT !.next = @ + 1]

\* A call keeps the invariant: it is answered from the resolved files, or its
\* frame is the one that the frame below waits for.
LEMMA ResolveStep ==
  ASSUME LoadInv, NEW STATE n, n \in Names, NEW STATE below, Waiting(n, below),
         Resolve(n, below), UNCHANGED <<given, resolved>>
  PROVE  stack' \in Seq(Frame) /\ StackInv'
<1>1. /\ stack \in Seq(Frame) /\ given \in Seq(Proto) /\ Len(stack) \in Nat
      /\ below \in Seq(Frame) /\ Len(below) = Len(stack)
      /\ stack # <<>> <=> Len(stack) \in 1 .. Len(stack)
  <2>1. stack \in Seq(Frame) /\ given \in Seq(Proto)
    BY DEF LoadInv, LoadTypeOK
  <2> QED
    BY <2>1 DEF Waiting
<1>2. /\ \A k \in 1 .. Len(stack) : Unfinished(stack[k])
      /\ \A k \in 1 .. Len(stack) - 1 :
            WaitsFor(stack[k], stack[k + 1]) /\ Passed(stack[k], stack[k].next - 1)
      /\ stack # <<>> => Passed(Top, Top.next)
  BY DEF LoadInv, StackInv
<1>3. \A k \in 1 .. Len(stack) - 1 : below[k] = stack[k]
  BY DEF Waiting
<1>4. stack # <<>> =>
        /\ below[Len(stack)] \in Frame
        /\ Unfinished(below[Len(stack)])
        /\ n \in NamesIn(resolved) =>
              Passed(below[Len(stack)], below[Len(stack)].next)
        /\ Passed(below[Len(stack)], below[Len(stack)].next - 1)
        /\ \A h : h.file.name = n => WaitsFor(below[Len(stack)], h)
  <2> SUFFICES ASSUME stack # <<>> PROVE <1>4!2
    OBVIOUS
  <2>1. Top \in Frame /\ Unfinished(Top) /\ below[Len(stack)] \in Frame
    BY <1>1, <1>2 DEF Top
  <2> QED
    BY <1>2, <2>1, AskedFrame DEF Waiting
<1>5. \A k \in 1 .. Len(stack) - 1 :
        /\ Unfinished(below[k])
        /\ Passed(below[k], below[k].next - 1)
        /\ k + 1 # Len(stack) => WaitsFor(below[k], below[k + 1])
        /\ \A h : h.file = stack[k + 1].file => WaitsFor(below[k], h)
  BY <1>1, <1>2, <1>3 DEF WaitsFor
<1>6. \A k \in 1 .. Len(stack) - 1 : WaitsFor(below[k], below[k + 1])
  <2> SUFFICES ASSUME NEW k \in 1 .. Len(stack) - 1
               PROVE  WaitsFor(below[k], below[k + 1])
    OBVIOUS
  <2>1. CASE k + 1 = Len(stack)
    <3>1. stack # <<>> /\ Top \in Frame
      BY <1>1 DEF Top
    <3>2. below[k + 1].file = stack[k + 1].file
      BY <2>1, <3>1 DEF Waiting, Top, Frame
    <3> QED
      BY <1>5, <3>2
  <2> QED
    BY <1>5, <2>1
<1>7. CASE n \in NamesIn(resolved)
  <2>1. stack' = below
    BY <1>7 DEF Resolve
  <2>2. \A k \in 1 .. Len(below) : Unfinished(below[k])
    <3> SUFFICES ASSUME NEW k \in 1 .. Len(stack) PROVE Unfinished(below[k])
      BY <1>1
    <3>1. CASE k = Len(stack)
      BY <1>1, <1>4, <3>1
    <3>2. CASE k \in 1 .. Len(stack) - 1
      BY <1>5, <3>2
    <3> QED
      BY <1>1, <3>1, <3>2
  <2>3. \A k \in 1 .. Len(below) - 1 :
          WaitsFor(below[k], below[k + 1]) /\ Passed(below[k], below[k].next - 1)
    BY <1>1, <1>5, <1>6
  <2>4. below # <<>> => Passed(below[Len(below)], below[Len(below)].next)
    BY <1>1, <1>4, <1>7
  <2> QED
    BY <1>1, <2>1, <2>2, <2>3, <2>4, SameFiles DEF StackInv, Top
<1>8. ASSUME NEW i \in DOMAIN given, n \notin NamesIn(resolved),
             Unresolved(i), given[i].name = n,
             stack' = Append(below, [file |-> given[i], next |-> 1])
      PROVE  stack' \in Seq(Frame) /\ StackInv'
  <2> DEFINE f == [file |-> given[i], next |-> 1]
  <2>1. /\ f \in Frame /\ f.file = given[i] /\ f.next = 1
        /\ DOMAIN f.file.deps \subseteq Nat \ {0}
    <3>1. given[i] \in Proto
      BY <1>1
    <3>2. DOMAIN given[i].deps \subseteq Nat \ {0}
      BY <3>1 DEF Proto
    <3> QED
      BY <3>1, <3>2 DEF Frame
  <2> HIDE DEF f
  <2>a. Unfinished(f) /\ Passed(f, f.next) /\ f.file.name = n
    BY <1>8, <2>1 DEF Unfinished, Passed
  <2>2. /\ stack' \in Seq(Frame) /\ Len(stack') = Len(stack) + 1
        /\ \A k \in 1 .. Len(stack) : stack'[k] = below[k]
        /\ stack'[Len(stack) + 1] = f
    BY <1>1, <1>8, <2>1, AppendIs DEF f
  <2>3. \A k \in 1 .. Len(stack') : Unfinished(stack'[k])
    <3> SUFFICES ASSUME NEW k \in 1 .. Len(stack) + 1 PROVE Unfinished(stack'[k])
      BY <2>2
    <3>1. CASE k = Len(stack) + 1
      BY <2>a, <2>2, <3>1
    <3>2. CASE k = Len(stack)
      <4>0. k \in 1 .. Len(stack)
        BY <1>1, <3>2
      <4>1. stack # <<>> /\ stack'[k] = below[Len(stack)]
        BY <1>1, <2>2, <3>2, <4>0
      <4> QED
        BY <1>4, <4>1
    <3>3. CASE k \in 1 .. Len(stack) - 1
      <4>1. k \in 1 .. Len(stack)
        BY <1>1, <3>3
      <4>2. stack'[k] = below[k]
        BY <2>2, <4>1
      <4> QED
        BY <1>5, <3>3, <4>2
    <3> QED
      BY <1>1, <3>1, <3>2, <3>3
  <2>4. \A k \in 1 .. Len(stack') - 1 :
          WaitsFor(stack'[k], stack'[k + 1]) /\ Passed(stack'[k], stack'[k].next - 1)
    <3>1. ASSUME NEW k \in 1 .. Len(stack)
          PROVE  WaitsFor(stack'[k], stack'[k + 1]) /\ Passed(stack'[k], stack'[k].next - 1)
      <4>1. CASE k = Len(stack)
        BY <1>1, <1>4, <2>a, <2>2, <4>1
      <4>2. CASE k \in 1 .. Len(stack) - 1
        <5>1. stack'[k] = below[k] /\ stack'[k + 1] = below[k + 1]
          BY <1>1, <2>2, <4>2
        <5> QED
          BY <1>5, <1>6, <4>2, <5>1
      <4> QED
        BY <1>1, <4>1, <4>2
    <3> QED
      BY <1>1, <2>2, <3>1
  <2>5. Passed(Top', Top'.next)
    BY <1>1, <2>a, <2>2 DEF Top
  <2> QED
    BY <2>2, <2>3, <2>4, <2>5, SameFiles DEF StackInv
<1>9. CASE stack' = stack
  BY <1>1, <1>2, <1>9, SameFiles DEF StackInv, Top
<1> QED
  BY <1>7, <1>8, <1>9 DEF Resolve
\* The predicates when one more file has been created.
LEMMA MoreFiles ==
  ASSUME NEW STATE new, UNCHANGED given,
         NamesIn(resolved') = NamesIn(resolved) \cup {new}
  PROVE  \A f, g, limit :
           /\ Unfinished(f) /\ f.file.name # new => Unfinished(f)'
           /\ Passed(f, limit) => Passed(f, limit)'
           /\ WaitsFor(f, g) => WaitsFor(f, g)'
  BY DEF Unfinished, Passed, WaitsFor, Unresolved, NamesIn

-------------------------------------------------------------------------------
(* Loading: the inductive invariant. *)

LEMMA LoadStart == LoadInit => LoadInv
<1> SUFFICES ASSUME LoadInit PROVE LoadInv
  OBVIOUS
<1>1. LoadTypeOK
  BY LoadAssumption DEF LoadInit, LoadTypeOK
<1>2. StackInv /\ DependenciesFirst
  BY DEF LoadInit, StackInv, DependenciesFirst, InOrder
<1> QED
  BY <1>1, <1>2 DEF LoadInv

\* The file of the top frame is created when all its imports are there.  No other
\* frame holds it: that one would be waiting for an import not created yet.
LEMMA CreateStep == LoadInv /\ Create => LoadInv'
<1> SUFFICES ASSUME LoadInv, Create PROVE LoadInv'
  OBVIOUS
<1> DEFINE L == Len(stack)
<1>1. /\ stack \in Seq(Frame) /\ resolved \in Seq(Proto) /\ stack # <<>>
      /\ L \in Nat \ {0} /\ Top = stack[L] /\ Top \in Frame
  BY DEF LoadInv, LoadTypeOK, Create, Top
<1>2. /\ \A k \in 1 .. L : Unfinished(stack[k])
      /\ \A k \in 1 .. L - 1 :
            WaitsFor(stack[k], stack[k + 1]) /\ Passed(stack[k], stack[k].next - 1)
      /\ Passed(Top, Top.next)
  BY <1>1 DEF LoadInv, StackInv
<1>3. /\ stack' \in Seq(Frame) /\ Len(stack') = L - 1
      /\ \A k \in 1 .. L - 1 : stack'[k] = stack[k]
  BY <1>1, PopIs DEF Create, Pop
<1>4. resolved' = Append(resolved, Top.file) /\ UNCHANGED <<given, pos, loading>>
  BY DEF Create
<1>5. Top.file \in Proto /\ Top.next \in Nat /\ Top.next > Len(Top.file.deps)
      /\ Top.file.deps \in Seq(Names)
  BY <1>1 DEF Create, Frame, Proto
<1>6. \A m \in DOMAIN Top.file.deps : Top.file.deps[m] \in NamesIn(resolved)
  BY <1>2, <1>5 DEF Passed
<1>7. NamesIn(resolved') = NamesIn(resolved) \cup {Top.file.name}
  <2>1. /\ DOMAIN resolved = 1 .. Len(resolved) /\ Len(resolved) \in Nat
        /\ DOMAIN resolved' = 1 .. Len(resolved) + 1
        /\ \A i \in 1 .. Len(resolved) : resolved'[i] = resolved[i]
        /\ resolved'[Len(resolved) + 1] = Top.file
    BY <1>1, <1>4, <1>5, AppendIs
  <2> QED
    BY <2>1 DEF NamesIn
<1>8. DependenciesFirst'
  BY <1>1, <1>2, <1>4, <1>5, <1>6, InOrderAppend
     DEF LoadInv, DependenciesFirst, Unfinished
<1>9. \A k \in 1 .. L - 1 : stack[k].file.name # Top.file.name
  <2> SUFFICES ASSUME NEW k \in 1 .. L - 1, stack[k].file.name = Top.file.name
               PROVE  FALSE
    OBVIOUS
  <2>1. stack[k].file = Top.file
    <3>0. k \in 1 .. L /\ L \in 1 .. L
      BY <1>1
    <3>1. Unfinished(stack[k]) /\ Unfinished(Top)
      BY <1>1, <1>2, <3>0
    <3>2. PICK i, j \in DOMAIN given :
             /\ Unresolved(i) /\ stack[k].file = given[i]
             /\ Unresolved(j) /\ Top.file = given[j]
      BY <3>1 DEF Unfinished
    <3>3. i <= j /\ j <= i /\ i \in Nat /\ j \in Nat
      BY <3>2 DEF Unresolved, LoadInv, LoadTypeOK
    <3> QED
      BY <3>2, <3>3
  <2>2. stack[k + 1].file.name \in NamesIn(resolved)
    BY <1>2, <1>6, <2>1 DEF WaitsFor
  <2>3. Unfinished(stack[k + 1])
    BY <1>1, <1>2
  <2> QED
    BY <2>2, <2>3 DEF Unfinished
<1>10. \A k \in 1 .. L - 1 :
         /\ Unfinished(stack[k])'
         /\ k + 1 # L => WaitsFor(stack[k], stack[k + 1])'
         /\ Passed(stack[k], stack[k].next - 1)'
         /\ k + 1 = L => Passed(stack[k], stack[k].next)'
  <2> SUFFICES ASSUME NEW k \in 1 .. L - 1
               PROVE  /\ Unfinished(stack[k])'
                      /\ k + 1 # L => WaitsFor(stack[k], stack[k + 1])'
                      /\ Passed(stack[k], stack[k].next - 1)'
                      /\ k + 1 = L => Passed(stack[k], stack[k].next)'
    OBVIOUS
  <2>1. /\ k \in 1 .. L /\ k + 1 \in 1 .. L
        /\ stack'[k] = stack[k] /\ stack[k] \in Frame
        /\ k + 1 # L => stack'[k + 1] = stack[k + 1]
    BY <1>1, <1>3
  <2>2. /\ Unfinished(stack[k]) /\ WaitsFor(stack[k], stack[k + 1])
        /\ Passed(stack[k], stack[k].next - 1)
    BY <1>2, <2>1
  <2>3. Unfinished(stack[k])'
    BY <1>4, <1>7, <1>9, <2>1, <2>2, MoreFiles
  <2>4. k + 1 # L => WaitsFor(stack[k], stack[k + 1])'
    BY <1>4, <1>7, <2>1, <2>2, MoreFiles
  <2>5. Passed(stack[k], stack[k].next - 1)'
    BY <1>4, <1>7, <2>1, <2>2, MoreFiles
  <2>6. k + 1 = L => Passed(stack[k], stack[k].next)'
    <3> SUFFICES ASSUME k + 1 = L PROVE Passed(stack[k], stack[k].next)'
      OBVIOUS
    <3>1. stack[k].next \in Nat /\ DOMAIN stack[k].file.deps \subseteq Nat
      BY <2>1 DEF Frame, Proto
    <3>2. stack[k].file.deps[stack[k].next - 1] \in NamesIn(resolved')
      BY <1>1, <1>7, <2>2 DEF WaitsFor
    <3>3. \A m \in DOMAIN stack[k].file.deps :
            m < stack[k].next => stack[k].file.deps[m] \in NamesIn(resolved')
      BY <1>7, <2>2, <3>1, <3>2 DEF Passed
    <3> QED
      BY <2>1, <3>3 DEF Passed
  <2> QED
    BY <2>3, <2>4, <2>5, <2>6
<1>a. StackInv'
  <2>1. \A k \in 1 .. Len(stack') : Unfinished(stack[k])'
    BY <1>3, <1>10
  <2>2. \A k \in 1 .. Len(stack') - 1 :
          (WaitsFor(stack[k], stack[k + 1]) /\ Passed(stack[k], stack[k].next - 1))'
    <3> SUFFICES ASSUME NEW k \in 1 .. Len(stack') - 1
                 PROVE  (WaitsFor(stack[k], stack[k + 1])
                           /\ Passed(stack[k], stack[k].next - 1))'
      OBVIOUS
    <3>1. k \in 1 .. L - 1 /\ k + 1 # L
      BY <1>1, <1>3
    <3> QED
      BY <1>10, <3>1
  <2>3. stack' # <<>> => Passed(Top, Top.next)'
    <3> SUFFICES ASSUME stack' # <<>> PROVE Passed(Top, Top.next)'
      OBVIOUS
    <3>1. PICK k \in 1 .. L - 1 : k = Len(stack') /\ k + 1 = L
      BY <1>1, <1>3
    <3>2. Passed(stack[k], stack[k].next)'
      BY <1>10, <3>1
    <3> QED
      BY <3>1, <3>2 DEF Top
  <2> QED
    BY <2>1, <2>2, <2>3 DEF StackInv
<1>11. LoadTypeOK'
  BY <1>1, <1>3, <1>4, <1>5 DEF LoadInv, LoadTypeOK
<1> QED
  BY <1>8, <1>a, <1>11 DEF LoadInv

LEMMA LoadStep == LoadInv /\ [LoadNext]_loadVars => LoadInv'
<1> SUFFICES ASSUME LoadInv, [LoadNext]_loadVars PROVE LoadInv'
  OBVIOUS
<1>1. /\ stack \in Seq(Frame) /\ given \in Seq(Proto) /\ resolved \in Seq(Proto)
      /\ pos \in Nat \ {0}
  BY DEF LoadInv, LoadTypeOK
<1>2. ASSUME UNCHANGED <<given, resolved>>, stack' \in Seq(Frame), StackInv',
             pos' \in Nat \ {0},
             loading' \in {"loading", "loaded", "notFound", "invalid", "overflow"}
      PROVE  LoadInv'
  BY <1>2 DEF LoadInv, LoadTypeOK, DependenciesFirst, InOrder
<1>3. UNCHANGED <<given, stack, resolved>> => StackInv'
  <2> SUFFICES ASSUME UNCHANGED <<given, stack, resolved>> PROVE StackInv'
    OBVIOUS
  <2>1. StackInv
    BY DEF LoadInv
  <2> QED
    BY <2>1, SameFiles DEF StackInv, Top
<1>4. CASE ResolveNext
  <2>1. given[pos].name \in Names
    <3>1. pos \in DOMAIN given /\ given[pos] \in Proto
      BY <1>1, <1>4 DEF ResolveNext
    <3> QED
      BY <3>1 DEF Proto
  <2>2. Waiting(given[pos].name, stack)
    BY <1>1, <1>4 DEF ResolveNext, Waiting
  <2>3. stack' \in Seq(Frame) /\ StackInv'
    BY <1>4, <2>1, <2>2, ResolveStep DEF ResolveNext
  <2>4. loading' \in {"loading", "loaded", "notFound", "invalid", "overflow"}
    BY <1>4 DEF ResolveNext, Resolve
  <2> QED
    BY <1>1, <1>2, <1>4, <2>3, <2>4 DEF ResolveNext
<1>5. CASE ResolveDependency
  <2> DEFINE below == [stack EXCEPT ![Len(stack)].next = @ + 1]
  <2>1. Top \in Frame /\ Len(stack) \in DOMAIN stack
    BY <1>1, <1>5 DEF ResolveDependency, Top
  <2>2. Top.file.deps \in Seq(Names) /\ Top.next \in Nat \ {0}
    BY <2>1 DEF Frame, Proto
  <2>3. Top.next \in DOMAIN Top.file.deps /\ Top.file.deps[Top.next] \in Names
    BY <2>2, <1>5 DEF ResolveDependency
  <2>4. Waiting(Top.file.deps[Top.next], below)
    <3>1. [Top EXCEPT !.next = @ + 1] \in Frame
      BY <2>1, <2>2 DEF Frame
    <3>2. below = [stack EXCEPT ![Len(stack)] = [Top EXCEPT !.next = @ + 1]]
      BY DEF Top
    <3> QED
      BY <1>1, <2>1, <2>3, <3>1, <3>2 DEF Waiting
  <2>5. stack' \in Seq(Frame) /\ StackInv'
    BY <1>5, <2>3, <2>4, ResolveStep DEF ResolveDependency
  <2>6. loading' \in {"loading", "loaded", "notFound", "invalid", "overflow"}
    BY <1>5 DEF ResolveDependency, Resolve
  <2> QED
    BY <1>1, <1>2, <1>5, <2>5, <2>6 DEF ResolveDependency
<1>6. CASE Create
  BY <1>6, CreateStep
<1>7. CASE CreateFails
  BY <1>1, <1>2, <1>3, <1>7 DEF CreateFails
<1>8. CASE Loaded
  BY <1>1, <1>2, <1>3, <1>8 DEF Loaded
<1>9. CASE UNCHANGED loadVars
  BY <1>1, <1>2, <1>3, <1>9 DEF loadVars, LoadInv, LoadTypeOK
<1> QED
  BY <1>4, <1>5, <1>6, <1>7, <1>8, <1>9 DEF LoadNext

\* Whatever the protosets hold and however deep the imports go, files are created
\* once and after their imports (resolveFileDescriptor).
THEOREM LoadedInOrder == LoadSpec => []DependenciesFirst
<1>1. LoadSpec => []LoadInv
  BY LoadStart, LoadStep, PTL DEF LoadSpec
<1> QED
  BY <1>1, PTL DEF LoadInv
-------------------------------------------------------------------------------
(* Loading: what was loaded is complete. *)

\* A set of natural numbers has a least element: what the inductions rest on.
LEMMA LeastOf ==
  ASSUME NEW T \in SUBSET Nat, T # {}
  PROVE  \E x \in T : \A y \in T : x <= y
<1> DEFINE R == OpToRel(<, Nat)
<1>1. \A a, b \in Nat : a < b => <<a, b>> \in R
  BY DEF OpToRel
<1>2. IsWellFoundedOn(R, Nat)
  BY NatLessThanWellFounded
<1> HIDE DEF R
<1>3. PICK x \in T : \A y \in T : ~ (<<y, x>> \in R)
  BY <1>2, WFMin
<1>4. ASSUME NEW y \in T PROVE x <= y
  <2>1. x \in Nat /\ y \in Nat /\ ~(y < x)
    BY <1>1, <1>3
  <2> QED
    BY <2>1
<1> QED
  BY <1>4

\* What a frame holds.
LEMMA FrameIs ==
  ASSUME NEW f \in Frame
  PROVE  /\ f.file \in Proto /\ f.file.name \in Names /\ f.next \in Nat \ {0}
         /\ f.file.deps \in Seq(Names) /\ Len(f.file.deps) \in Nat
         /\ DOMAIN f.file.deps = 1 .. Len(f.file.deps)
<1>1. f.file \in Proto /\ f.next \in Nat \ {0}
  BY DEF Frame
<1>2. f.file.name \in Names /\ f.file.deps \in Seq(Names)
  BY <1>1 DEF Proto
<1> QED
  BY <1>1, <1>2

\* The map unresolved holds one file of each name.
LEMMA OneFile ==
  ASSUME given \in Seq(Proto)
  PROVE  \A i, j \in DOMAIN given :
            Unresolved(i) /\ Unresolved(j) /\ given[i].name = given[j].name => i = j
<1> SUFFICES ASSUME NEW i \in DOMAIN given, NEW j \in DOMAIN given,
                    Unresolved(i), Unresolved(j), given[i].name = given[j].name
             PROVE  i = j
  OBVIOUS
<1>1. i <= j /\ j <= i /\ i \in Nat /\ j \in Nat
  BY DEF Unresolved
<1> QED
  BY <1>1

\* The first created file of a circle would have an import created before it.
LEMMA LoadedHasNoCircle ==
  ASSUME LoadInv, LoopInv, loading = "loaded"
  PROVE  NamesIn(resolved) = NamesIn(given) /\ ~Cyclic
<1>1. /\ given \in Seq(Proto) /\ resolved \in Seq(Proto) /\ pos \in Nat
      /\ DOMAIN resolved \subseteq Nat
      /\ InOrder(resolved)
  BY DEF LoadInv, LoadTypeOK, DependenciesFirst
<1>2. /\ \A j \in DOMAIN resolved :
            \E i \in DOMAIN given : Unresolved(i) /\ resolved[j] = given[i]
      /\ stack = <<>> /\ pos > Len(given)
      /\ \A i \in DOMAIN given : i < pos => given[i].name \in NamesIn(resolved)
  BY DEF LoopInv
<1>3. NamesIn(resolved) = NamesIn(given)
  <2>1. \A i \in DOMAIN given : i < pos
    BY <1>1, <1>2
  <2> QED
    BY <1>2, <2>1 DEF NamesIn
<1>4. ASSUME Cyclic PROVE FALSE
  <2>1. PICK circle \in SUBSET Names :
          /\ circle # {}
          /\ \A n \in circle : \E i \in DOMAIN given :
                /\ Unresolved(i) /\ given[i].name = n
                /\ \E k \in DOMAIN given[i].deps : given[i].deps[k] \in circle
    BY <1>4 DEF Cyclic
  <2> DEFINE T == {j \in DOMAIN resolved : resolved[j].name \in circle}
  <2>2. T \in SUBSET Nat /\ T # {}
    <3>1. PICK n \in circle : n \in NamesIn(given)
      BY <2>1 DEF NamesIn
    <3>2. PICK j \in DOMAIN resolved : resolved[j].name = n
      BY <1>3, <3>1 DEF NamesIn
    <3> QED
      BY <1>1, <3>2
  <2>3. PICK j \in T : \A l \in T : j <= l
    BY <2>2, LeastOf
  <2>4. PICK i \in DOMAIN given :
           /\ Unresolved(i) /\ given[i].name = resolved[j].name
           /\ \E k \in DOMAIN given[i].deps : given[i].deps[k] \in circle
    BY <2>1
  <2>5. resolved[j] = given[i]
    BY <1>1, <1>2, <2>4, OneFile
  <2>6. PICK k \in DOMAIN resolved[j].deps : resolved[j].deps[k] \in circle
    BY <2>4, <2>5
  <2>7. PICK l \in 1 .. j - 1 : resolved[l].name = resolved[j].deps[k]
    BY <1>1 DEF InOrder
  <2>8. l \in T /\ ~(j <= l)
    BY <1>1, <2>6, <2>7
  <2> QED
    BY <2>3, <2>8
<1> QED
  BY <1>3, <1>4

\* A stack that has a frame for every name holds a name twice, or holds n: the
\* frames in between wait for each other.
LEMMA FullStackIsCyclic ==
  ASSUME IsFiniteSet(Names), Cardinality(Names) <= MaxDepth,
         LoadInv, Len(stack) = MaxDepth, NEW n \in NamesIn(given),
         stack # <<>> => Top.next \in DOMAIN Top.file.deps
                         /\ Top.file.deps[Top.next] = n
  PROVE  Cyclic
<1> DEFINE L == Len(stack)
           Waits == 1 .. L + 1
           w == [m \in Waits |-> IF m \in 1 .. L THEN stack[m].file.name ELSE n]
<1>1. /\ given \in Seq(Proto) /\ stack \in Seq(Frame) /\ L \in Nat
      /\ DOMAIN stack = 1 .. L
  BY DEF LoadInv, LoadTypeOK
<1>2. /\ \A m \in 1 .. L : Unfinished(stack[m]) /\ stack[m] \in Frame
      /\ \A m \in 1 .. L - 1 : WaitsFor(stack[m], stack[m + 1])
  BY <1>1 DEF LoadInv, StackInv
<1>3. n \in Names /\ \A m \in 1 .. L : stack[m].file.name \in Names
  <2>1. PICK i \in DOMAIN given : n = given[i].name
    BY DEF NamesIn
  <2>2. given[i] \in Proto
    BY <1>1
  <2> QED
    BY <1>2, <2>1, <2>2, FrameIs DEF Proto
<1>4. w \in [Waits -> Names]
  BY <1>3
<1>5. PICK x, y \in Waits : x # y /\ w[x] = w[y]
  <2>1. IsFiniteSet(Waits) /\ Cardinality(Waits) = L + 1
    <3>1. 1 \in Int /\ L + 1 \in Int /\ ~(1 > L + 1)
      BY <1>1
    <3>2. IsFiniteSet(Waits) /\ Cardinality(Waits) = (L + 1) - 1 + 1
      BY <3>1, FS_Interval
    <3> QED
      BY <1>1, <3>2
  <2>2. Cardinality(Names) \in Nat
    BY FS_CardinalityType
  <2>3. Cardinality(Names) < Cardinality(Waits)
    BY <1>1, <2>1, <2>2
  <2> HIDE DEF w, Waits
  <2> QED
    BY <1>4, <2>1, <2>3, FS_PigeonHole
<1>6. PICK a, b \in Waits : a < b /\ w[a] = w[b]
  BY <1>1, <1>5
<1> DEFINE circle == {w[m] : m \in a .. b - 1}
<1>7. \A m \in a .. b - 1 : m \in 1 .. L /\ m + 1 \in Waits /\ w[m + 1] \in circle
  <2> SUFFICES ASSUME NEW m \in a .. b - 1
               PROVE  m \in 1 .. L /\ m + 1 \in Waits /\ w[m + 1] \in circle
    OBVIOUS
  <2>1. m \in 1 .. L /\ m + 1 \in Waits /\ a \in a .. b - 1
    BY <1>1, <1>6
  <2>2. m + 1 = b \/ m + 1 \in a .. b - 1
    BY <1>1, <1>6
  <2> HIDE DEF w
  <2> QED
    BY <1>6, <2>1, <2>2
<1>8. \A m \in 1 .. L : \E i \in DOMAIN given :
         /\ Unresolved(i) /\ given[i].name = w[m]
         /\ \E k \in DOMAIN given[i].deps : given[i].deps[k] = w[m + 1]
  <2> SUFFICES ASSUME NEW m \in 1 .. L
               PROVE  \E i \in DOMAIN given :
                         /\ Unresolved(i) /\ given[i].name = w[m]
                         /\ \E k \in DOMAIN given[i].deps :
                               given[i].deps[k] = w[m + 1]
    OBVIOUS
  <2>1. PICK i \in DOMAIN given : Unresolved(i) /\ stack[m].file = given[i]
    BY <1>2 DEF Unfinished
  <2>2. m \in Waits /\ m + 1 \in Waits /\ w[m] = given[i].name
    BY <1>1, <2>1
  <2>3. CASE m = L
    <3>1. stack # <<>> /\ Top = stack[m] /\ w[m + 1] = n
      BY <1>1, <2>2, <2>3 DEF Top
    <3> QED
      BY <2>1, <2>2, <3>1
  <2>4. CASE m \in 1 .. L - 1
    <3>1. WaitsFor(stack[m], stack[m + 1]) /\ w[m + 1] = stack[m + 1].file.name
      BY <1>1, <1>2, <2>2, <2>4
    <3> QED
      BY <2>1, <2>2, <3>1 DEF WaitsFor
  <2>5. m = L \/ m \in 1 .. L - 1
    BY <1>1
  <2> QED
    BY <2>3, <2>4, <2>5
<1>9. circle \in SUBSET Names /\ circle # {}
  <2>1. \A m \in a .. b - 1 : m \in Waits
    BY <1>1, <1>7
  <2>2. a \in a .. b - 1
    BY <1>1, <1>6
  <2> HIDE DEF w
  <2> QED
    BY <1>4, <2>1, <2>2
<1> HIDE DEF w
<1>10. ASSUME NEW c \in circle
       PROVE  \E i \in DOMAIN given :
                 /\ Unresolved(i) /\ given[i].name = c
                 /\ \E k \in DOMAIN given[i].deps : given[i].deps[k] \in circle
  <2>1. PICK m \in a .. b - 1 : c = w[m]
    OBVIOUS
  <2>2. m \in 1 .. L /\ w[m + 1] \in circle
    BY <1>7
  <2>3. PICK i \in DOMAIN given :
           /\ Unresolved(i) /\ given[i].name = w[m]
           /\ \E k \in DOMAIN given[i].deps : given[i].deps[k] = w[m + 1]
    BY <1>8, <2>2
  <2> HIDE DEF circle
  <2> QED
    BY <2>1, <2>2, <2>3
<1> QED
  BY <1>9, <1>10 DEF Cyclic

LEMMA CompleteStart == LoadInit => CompleteInv
  BY DEF LoadInit, CompleteInv, LoopInv, OverflowInv

\* Cyclic looks at nothing but the files given.
LEMMA SameCircles == UNCHANGED given => (Cyclic' <=> Cyclic)
  BY DEF Cyclic, Unresolved

\* Steps that create no file.
LEMMA LoopResolveStep ==
  ASSUME LoadInv, LoopInv, loading = "loading", UNCHANGED <<given, resolved>>,
         NEW STATE n, NEW STATE below,
         \/ stack = <<>> /\ below = <<>> /\ pos \in DOMAIN given
            /\ n = given[pos].name /\ pos' = pos + 1
         \/ /\ stack # <<>> /\ UNCHANGED pos
            /\ below = [stack EXCEPT ![Len(stack)].next = @ + 1],
         Resolve(n, below)
  PROVE  LoopInv'
<1>1. /\ given \in Seq(Proto) /\ stack \in Seq(Frame) /\ pos \in Nat
      /\ Len(stack) \in Nat /\ DOMAIN stack = 1 .. Len(stack)
      /\ DOMAIN given \subseteq Nat
  BY DEF LoadInv, LoadTypeOK
<1>2. /\ \A j \in DOMAIN resolved :
            \E i \in DOMAIN given : Unresolved(i) /\ resolved[j] = given[i]
      /\ \A i \in DOMAIN given : i < pos =>
            \/ given[i].name \in NamesIn(resolved)
            \/ stack # <<>> /\ stack[1].file.name = given[i].name
  BY DEF LoopInv
<1>3. \A j \in DOMAIN resolved' :
         \E i \in DOMAIN given' : Unresolved(i)' /\ resolved'[j] = given'[i]
  BY <1>2 DEF Unresolved
<1>4. loading' # "loaded"
  BY DEF Resolve
<1>5. CASE stack = <<>>
  <2>1. \A i \in DOMAIN given : i < pos' => given[i].name \in NamesIn(resolved) \/ i = pos
    BY <1>1, <1>2, <1>5
  <2>2. CASE n \in NamesIn(resolved)
    BY <1>3, <1>4, <1>5, <2>1, <2>2 DEF LoopInv, NamesIn
  <2>3. ASSUME NEW i \in DOMAIN given, given[i].name = n,
               stack' = Append(below, [file |-> given[i], next |-> 1])
        PROVE  LoopInv'
    <3>1. stack' = <<[file |-> given[i], next |-> 1]>>
      BY <1>5, <2>3
    <3>2. stack' # <<>> /\ stack'[1].file = given[i]
      BY <3>1
    <3>3. stack'[1].file.name = n
      BY <2>3, <3>2
    <3> QED
      BY <1>3, <1>4, <1>5, <2>1, <3>2, <3>3 DEF LoopInv, NamesIn
  <2>4. CASE loading' \notin {"loading", "loaded"}
    BY <1>3, <2>4 DEF LoopInv
  <2> QED
    BY <2>2, <2>3, <2>4 DEF Resolve
<1>6. CASE stack # <<>>
  <2>1. /\ Len(below) = Len(stack) /\ below # <<>> /\ below \in Seq(Frame)
        /\ below[1].file = stack[1].file
    <3>1. 1 \in DOMAIN stack /\ Len(stack) \in DOMAIN stack /\ stack[1] \in Frame
          /\ stack[Len(stack)] \in Frame
      BY <1>1, <1>6
    <3>2. [stack[Len(stack)] EXCEPT !.next = @ + 1] \in Frame
      BY <3>1 DEF Frame
    <3>3. [stack[Len(stack)] EXCEPT !.next = @ + 1].file = stack[Len(stack)].file
      BY <3>1 DEF Frame
    <3>4. below = [stack EXCEPT ![Len(stack)] =
                      [stack[Len(stack)] EXCEPT !.next = @ + 1]]
      BY <1>6
    <3> QED
      BY <1>1, <1>6, <3>1, <3>2, <3>3, <3>4
  <2>2. CASE stack' = below
    BY <1>2, <1>3, <1>4, <1>6, <2>1, <2>2 DEF LoopInv, NamesIn
  <2>3. ASSUME NEW i \in DOMAIN given,
               stack' = Append(below, [file |-> given[i], next |-> 1])
        PROVE  LoopInv'
    <3>1. stack' # <<>> /\ stack'[1] = below[1]
      <4>1. [file |-> given[i], next |-> 1] \in Frame
        BY <1>1, <2>3 DEF Frame
      <4>2. /\ Len(stack') = Len(below) + 1 /\ 1 \in 1 .. Len(below)
            /\ \A k \in 1 .. Len(below) : stack'[k] = below[k]
        BY <1>1, <1>6, <2>1, <2>3, <4>1, AppendIs
      <4> QED
        BY <2>1, <2>3, <4>1, <4>2
    <3> QED
      BY <1>2, <1>3, <1>4, <1>6, <2>1, <3>1 DEF LoopInv, NamesIn
  <2>4. CASE loading' \notin {"loading", "loaded"}
    BY <1>3, <2>4 DEF LoopInv
  <2> QED
    BY <2>2, <2>3, <2>4 DEF Resolve
<1> QED
  BY <1>5, <1>6

\* The file that is created is one that was given; when the stack gets empty it
\* is the one that the whole stack was for.
LEMMA LoopCreateStep == LoadInv /\ LoopInv /\ Create => LoopInv'
<1> SUFFICES ASSUME LoadInv, LoopInv, Create PROVE LoopInv'
  OBVIOUS
<1> DEFINE L == Len(stack)
           N == Len(resolved)
<1>1. /\ stack \in Seq(Frame) /\ resolved \in Seq(Proto) /\ stack # <<>>
      /\ given \in Seq(Proto)
      /\ L \in Nat \ {0} /\ Top = stack[L] /\ Top \in Frame /\ Top.file \in Proto
      /\ N \in Nat /\ DOMAIN resolved = 1 .. N
  <2>1. stack \in Seq(Frame) /\ resolved \in Seq(Proto) /\ given \in Seq(Proto)
    BY DEF LoadInv, LoadTypeOK
  <2>2. stack # <<>> /\ L \in Nat \ {0} /\ Top = stack[L] /\ Top \in Frame
    BY <2>1 DEF Create, Top
  <2> QED
    BY <2>1, <2>2, FrameIs
<1>2. /\ \A j \in 1 .. N : \E i \in DOMAIN given : Unresolved(i) /\ resolved[j] = given[i]
      /\ \A i \in DOMAIN given : i < pos =>
            \/ given[i].name \in NamesIn(resolved)
            \/ stack[1].file.name = given[i].name
      /\ UNCHANGED <<given, pos, loading>> /\ loading = "loading"
  BY <1>1 DEF LoopInv, Create
<1>3. PICK g \in DOMAIN given : Unresolved(g) /\ Top.file = given[g]
  BY <1>1 DEF LoadInv, StackInv, Unfinished
<1>4. /\ DOMAIN resolved' = 1 .. N + 1
      /\ \A i \in 1 .. N : resolved'[i] = resolved[i]
      /\ resolved'[N + 1] = Top.file
  BY <1>1, AppendIs DEF Create
<1>5. /\ Len(stack') = L - 1 /\ stack' \in Seq(Frame)
      /\ \A k \in 1 .. L - 1 : stack'[k] = stack[k]
  BY <1>1, PopIs DEF Create, Pop
<1>6. NamesIn(resolved') = NamesIn(resolved) \cup {Top.file.name}
  <2>1. \A j \in 1 .. N + 1 : j \in 1 .. N \/ j = N + 1
    BY <1>1
  <2>2. 1 .. N \subseteq 1 .. N + 1 /\ N + 1 \in 1 .. N + 1
    BY <1>1
  <2> QED
    BY <1>1, <1>4, <2>1, <2>2 DEF NamesIn
<1>7. \A j \in DOMAIN resolved' :
         \E i \in DOMAIN given : Unresolved(i) /\ resolved'[j] = given[i]
  <2>1. \A j \in 1 .. N + 1 : j \in 1 .. N \/ j = N + 1
    BY <1>1
  <2> QED
    BY <1>2, <1>3, <1>4, <2>1
<1>8. \A i \in DOMAIN given : i < pos =>
         \/ given[i].name \in NamesIn(resolved')
         \/ stack' # <<>> /\ stack'[1].file.name = given[i].name
  <2>1. CASE L = 1
    BY <1>1, <1>2, <1>6, <2>1
  <2>0. L \in Nat \ {0}
    BY <1>1
  <2>a. L = 1 \/ L > 1
    BY <2>0
  <2>2. CASE L > 1
    <3>1. stack' # <<>> /\ stack'[1] = stack[1]
      BY <1>1, <1>5, <2>2
    <3> QED
      BY <1>2, <1>6, <3>1
  <2> QED
    BY <2>a, <2>1, <2>2
<1> QED
  BY <1>2, <1>7, <1>8 DEF LoopInv, NamesIn, Unresolved

LEMMA CompleteStep ==
  ASSUME IsFiniteSet(Names), Cardinality(Names) <= MaxDepth
  PROVE  LoadInv /\ CompleteInv /\ [LoadNext]_loadVars => CompleteInv'
<1> SUFFICES ASSUME LoadInv, LoopInv, OverflowInv, [LoadNext]_loadVars
             PROVE  LoopInv' /\ OverflowInv'
  BY DEF CompleteInv
<1>0. /\ given \in Seq(Proto) /\ stack \in Seq(Frame) /\ pos \in Nat \ {0}
      /\ DOMAIN stack = 1 .. Len(stack) /\ Len(stack) \in Nat
  BY DEF LoadInv, LoadTypeOK
<1>1. CASE ResolveNext
  <2>1. stack = <<>> /\ pos \in DOMAIN given
    BY <1>0, <1>1 DEF ResolveNext
  <2>2. LoopInv'
    BY <1>1, <2>1, LoopResolveStep DEF ResolveNext
  <2>3. Len(stack) = MaxDepth => Cyclic
    BY <2>1, FullStackIsCyclic DEF NamesIn
  <2> QED
    BY <1>1, <2>2, <2>3, SameCircles DEF ResolveNext, Resolve, OverflowInv
<1>2. CASE ResolveDependency
  <2>1. /\ stack # <<>> /\ Top \in Frame /\ Top.next \in DOMAIN Top.file.deps
    <3>1. stack # <<>> /\ Top \in Frame /\ Top.next <= Len(Top.file.deps)
      BY <1>0, <1>2 DEF ResolveDependency, Top
    <3> QED
      BY <3>1, FrameIs
  <2>2. LoopInv'
    BY <1>2, <2>1, LoopResolveStep DEF ResolveDependency
  <2>3. ASSUME Len(stack) = MaxDepth, NEW n \in NamesIn(given),
               Top.file.deps[Top.next] = n
        PROVE  Cyclic
    BY <2>1, <2>3, FullStackIsCyclic
  <2> QED
    BY <1>2, <2>2, <2>3, SameCircles DEF ResolveDependency, Resolve, OverflowInv
<1>3. CASE Create
  BY <1>3, LoopCreateStep, SameCircles DEF Create, OverflowInv
<1>4. CASE CreateFails \/ Loaded
  BY <1>0, <1>4 DEF CreateFails, Loaded, LoopInv, OverflowInv, Unresolved, NamesIn
<1>5. CASE UNCHANGED loadVars
  BY <1>5, SameCircles DEF loadVars, LoopInv, OverflowInv, Unresolved, NamesIn
<1> QED
  BY <1>1, <1>2, <1>3, <1>4, <1>5 DEF LoadNext
-------------------------------------------------------------------------------
(* Writing: descriptors. *)

\* Descriptors of linked files have names and imports.
LEMMA LinkedFile ==
  ASSUME TypeOK
  PROVE  \A d : Linked(d) =>
            /\ d \in Descriptor /\ d.at \in Nat /\ d.at \in DOMAIN FilesOf(d.origin)
            /\ Name(d) \in Names /\ Deps(d) \in Seq(Names)
<1> SUFFICES ASSUME NEW d, Linked(d)
             PROVE  /\ d \in Descriptor /\ d.at \in Nat /\ d.at \in DOMAIN FilesOf(d.origin)
                    /\ Name(d) \in Names /\ Deps(d) \in Seq(Names)
  OBVIOUS
<1>1. FilesOf(d.origin) \in Seq(Proto)
  BY DEF TypeOK, LoadTypeOK, FilesOf
<1>2. d \in Descriptor /\ d.at \in Nat /\ d.at \in DOMAIN FilesOf(d.origin)
  BY DEF Linked, Descriptor
<1>3. FilesOf(d.origin)[d.at] \in Proto
  BY <1>1, <1>2
<1> QED
  BY <1>2, <1>3 DEF Name, Deps, Proto

\* Among the files of one origin a name stands for one file, and a file's imports
\* were created before it.
LEMMA CreationOrder ==
  ASSUME TypeOK, InOrder(server), InOrder(resolved)
  PROVE  \A d, e : Linked(d) /\ Linked(e) /\ d.origin = e.origin =>
            /\ Name(d) = Name(e) => d.at = e.at
            /\ \A k \in DOMAIN Deps(d) : Deps(d)[k] = Name(e) => e.at < d.at
<1> SUFFICES ASSUME NEW d, NEW e, Linked(d), Linked(e), d.origin = e.origin
             PROVE  /\ Name(d) = Name(e) => d.at = e.at
                    /\ \A k \in DOMAIN Deps(d) : Deps(d)[k] = Name(e) => e.at < d.at
  OBVIOUS
<1> DEFINE files == FilesOf(d.origin)
<1>1. files \in Seq(Proto) /\ InOrder(files)
  BY DEF TypeOK, LoadTypeOK, FilesOf
<1>2. /\ d.at \in DOMAIN files /\ e.at \in DOMAIN files
      /\ Name(d) = files[d.at].name /\ Name(e) = files[e.at].name
      /\ Deps(d) = files[d.at].deps
  BY DEF Linked, Name, Deps
<1> HIDE DEF files
<1>a. \A i, j \in DOMAIN files : files[i].name = files[j].name => i = j
  BY <1>1 DEF InOrder
<1>3. Name(d) = Name(e) => d.at = e.at
  <2> SUFFICES ASSUME Name(d) = Name(e) PROVE d.at = e.at
    OBVIOUS
  <2>1. files[d.at].name = files[e.at].name
    BY <1>2
  <2> QED
    BY <1>2, <1>a, <2>1
<1>4. ASSUME NEW k \in DOMAIN Deps(d), Deps(d)[k] = Name(e)
      PROVE  e.at < d.at
  <2>1. PICK j \in 1 .. d.at - 1 : files[j].name = Deps(d)[k]
    BY <1>1, <1>2 DEF InOrder
  <2>2. d.at \in 1 .. Len(files) /\ Len(files) \in Nat /\ DOMAIN files = 1 .. Len(files)
    BY <1>1, <1>2
  <2>3. j \in DOMAIN files /\ j < d.at
    BY <2>2
  <2>4. j = e.at
    BY <1>2, <1>4, <1>a, <2>1, <2>3
  <2> QED
    BY <2>3, <2>4
<1> QED
  BY <1>3, <1>4

\* Once the source is ready its descriptors no longer change.
LEMMA SameDescriptors ==
  ASSUME UNCHANGED <<server, resolved>>
  PROVE  \A d : /\ Linked(d)' <=> Linked(d)
                /\ Name(d)' = Name(d)
                /\ Deps(d)' = Deps(d)
  BY DEF Linked, Name, Deps, FilesOf

\* The parts of the invariant that look at what is visited and written.
Visited == FramesInv /\ DependenciesWrittenFirst /\ NoNameTwice

LEMMA SameVisited ==
  ASSUME Visited, UNCHANGED <<server, resolved, frames, expanded, out>>
  PROVE  Visited'
<1>1. FramesInv'
  BY SameDescriptors DEF Visited, FramesInv, OutNames, FrameNames
<1>2. DependenciesWrittenFirst' /\ NoNameTwice'
  BY SameDescriptors DEF Visited, DependenciesWrittenFirst, NoNameTwice
<1> QED
  BY <1>1, <1>2 DEF Visited
-------------------------------------------------------------------------------
(* A call of addFilesToSet. *)

\* The frames that call it for d: as they are, but for the next import of the
\* last, which is the name of d.
Calling(d, below) ==
    /\ Linked(d)
    /\ below \in Seq([file : Descriptor, next : Nat \ {0}])
    /\ Len(below) = Len(frames)
    /\ \A k \in 1 .. Len(frames) : below[k].file = frames[k].file
    /\ \A k \in 1 .. Len(frames) - 1 : below[k].next = frames[k].next
    /\ frames # <<>> =>
          /\ d.origin = Last.file.origin
          /\ Last.next \in DOMAIN Deps(Last.file)
          /\ Deps(Last.file)[Last.next] = Name(d)
          /\ below[Len(frames)].next = Last.next + 1

LEMMA VisitStep ==
  ASSUME TypeOK, InOrder(server), InOrder(resolved), LinkedInv, Visited,
         NEW STATE d, NEW STATE below, Calling(d, below), Visit(d, below),
         UNCHANGED <<server, resolved, out>>
  PROVE  /\ frames' \in Seq([file : Descriptor, next : Nat \ {0}])
         /\ expanded' \subseteq Names
         /\ \A k \in DOMAIN frames' : Linked(frames'[k].file)
         /\ Visited'
<1> DEFINE Fr == [file : Descriptor, next : Nat \ {0}]
<1> DEFINE L == Len(frames)
<1>0. frames \in Seq(Fr) /\ L \in Nat
  BY DEF TypeOK
<1>1. /\ frames \in Seq(Fr) /\ below \in Seq(Fr) /\ Len(below) = L /\ L \in Nat
      /\ DOMAIN frames = 1 .. L /\ DOMAIN below = 1 .. L
      /\ \A k \in 1 .. L : below[k].file = frames[k].file
      /\ \A k \in 1 .. L - 1 : below[k].next = frames[k].next
      /\ L # 0 <=> frames # <<>>
  BY DEF TypeOK, Calling
<1>2. /\ Linked(d) /\ d \in Descriptor /\ Name(d) \in Names /\ expanded \subseteq Names
  BY LinkedFile DEF Calling, TypeOK
<1>3. \A k \in 1 .. L : Linked(frames[k].file)
  BY <1>1 DEF LinkedInv
<1>4. /\ \A k, l \in 1 .. L : k < l =>
            /\ frames[k].file.origin = frames[l].file.origin
            /\ frames[l].file.at < frames[k].file.at
      /\ expanded = OutNames \cup FrameNames
      /\ OutNames \cap FrameNames = {}
      /\ \A k \in 1 .. L : \A m \in DOMAIN Deps(frames[k].file) :
            m < frames[k].next => Deps(frames[k].file)[m] \in expanded
  BY <1>1 DEF Visited, FramesInv
<1>5. ASSUME L # 0
      PROVE  /\ L \in 1 .. L /\ Last = frames[L]
             /\ frames[L].file.origin = d.origin
             /\ frames[L].next \in DOMAIN Deps(frames[L].file)
             /\ Deps(frames[L].file)[frames[L].next] = Name(d)
             /\ below[L].next = frames[L].next + 1
             /\ DOMAIN Deps(frames[L].file) \subseteq Nat
             /\ frames[L].next \in Nat
  <2>1. L \in 1 .. L /\ Last = frames[L] /\ frames # <<>>
    BY <1>1, <1>5 DEF Last
  <2>2. Deps(frames[L].file) \in Seq(Names)
    BY <1>3, <2>1, LinkedFile
  <2>3. DOMAIN Deps(frames[L].file) \subseteq Nat
    BY <2>2
  <2>4. frames[L].next \in Nat
    <3>1. frames[L] \in Fr
      BY <1>0, <2>1, ElementOfSeq
    <3> QED
      BY <3>1
  <2> QED
    BY <2>1, <2>3, <2>4 DEF Calling
\* What the frames below have visited, when d has been.
<1>6. ASSUME NEW seen, expanded \subseteq seen, Name(d) \in seen
      PROVE  \A k \in 1 .. L : \A m \in DOMAIN Deps(below[k].file) :
               m < below[k].next => Deps(below[k].file)[m] \in seen
  <2> SUFFICES ASSUME NEW k \in 1 .. L, NEW m \in DOMAIN Deps(frames[k].file),
                      m < below[k].next
               PROVE  Deps(frames[k].file)[m] \in seen
    BY <1>1
  <2>1. CASE k = L
    <3>1. L # 0
      BY <1>1
    <3>2. m \in Nat /\ (m < frames[L].next \/ m = frames[L].next)
      BY <1>5, <2>1, <3>1
    <3> QED
      BY <1>4, <1>5, <1>6, <2>1, <3>1, <3>2
  <2>2. CASE k # L
    <3>1. k \in 1 .. L - 1
      BY <1>1, <2>2
    <3>2. m < frames[k].next
      BY <1>1, <3>1
    <3> QED
      BY <1>4, <1>6, <3>2
  <2> QED
    BY <2>1, <2>2
\* d was created before all the files that wait for it.
<1>7. \A k \in 1 .. L : frames[k].file.origin = d.origin /\ d.at < frames[k].file.at
  <2> SUFFICES ASSUME NEW k \in 1 .. L
               PROVE  frames[k].file.origin = d.origin /\ d.at < frames[k].file.at
    OBVIOUS
  <2>1. L # 0 /\ L \in 1 .. L
    BY <1>1
  <2>2. d.at < frames[L].file.at /\ frames[L].file.origin = d.origin
    BY <1>2, <1>3, <1>5, <2>1, CreationOrder
  <2>3. /\ d.at \in Nat /\ frames[k].file.at \in Nat /\ frames[L].file.at \in Nat
    BY <1>2, <1>3, <2>1, LinkedFile
  <2>4. k = L \/ k < L
    BY <1>0
  <2>5. CASE k = L
    BY <2>2, <2>5
  <2>6. CASE k < L
    <3>1. /\ frames[k].file.origin = frames[L].file.origin
          /\ frames[L].file.at < frames[k].file.at
      BY <1>4, <2>1, <2>6
    <3> QED
      BY <2>2, <2>3, <3>1
  <2> QED
    BY <2>4, <2>5, <2>6
<1>8. OutNames' = OutNames /\ DependenciesWrittenFirst' /\ NoNameTwice'
  BY SameDescriptors DEF Visited, OutNames, DependenciesWrittenFirst, NoNameTwice
<1>9. FrameNames = {Name(frames[k].file) : k \in 1 .. L}
  BY <1>1 DEF FrameNames
<1>10. ASSUME NEW M \in Nat, frames' \in Seq(Fr), Len(frames') = M,
              \A k \in 1 .. M : Linked(frames'[k].file),
              \A k, l \in 1 .. M : k < l =>
                 /\ frames'[k].file.origin = frames'[l].file.origin
                 /\ frames'[l].file.at < frames'[k].file.at,
              expanded' = OutNames \cup {Name(frames'[k].file) : k \in 1 .. M},
              OutNames \cap {Name(frames'[k].file) : k \in 1 .. M} = {},
              \A k \in 1 .. M : \A m \in DOMAIN Deps(frames'[k].file) :
                 m < frames'[k].next => Deps(frames'[k].file)[m] \in expanded',
              expanded' \subseteq Names
       PROVE  /\ frames' \in Seq(Fr)
              /\ expanded' \subseteq Names
              /\ \A k \in DOMAIN frames' : Linked(frames'[k].file)
              /\ Visited'
  <2>1. DOMAIN frames' = 1 .. M
    BY <1>10
  <2>2. FrameNames' = {Name(frames'[k].file) : k \in 1 .. M}
    BY <2>1, SameDescriptors DEF FrameNames
  <2>3. \A k \in 1 .. M : \A m \in DOMAIN Deps(frames[k].file)' :
          m < frames'[k].next => (Deps(frames[k].file)[m])' \in expanded'
    BY <1>10, SameDescriptors
  <2>4. FramesInv'
    BY <1>8, <1>10, <2>1, <2>2, <2>3 DEF FramesInv
  <2> QED
    BY <1>8, <1>10, <2>1, <2>4 DEF Visited
<1>11. CASE Name(d) \in expanded
  <2>1. frames' = below /\ expanded' = expanded
    BY <1>11 DEF Visit
  <2>2. \A k \in 1 .. L : Linked(frames'[k].file) /\ frames'[k].file = frames[k].file
    BY <1>1, <1>3, <2>1
  <2>3. {Name(frames'[k].file) : k \in 1 .. L} = FrameNames
    BY <1>9, <2>2
  <2>4. \A k \in 1 .. L : \A m \in DOMAIN Deps(frames'[k].file) :
          m < frames'[k].next => Deps(frames'[k].file)[m] \in expanded'
    BY <1>6, <1>11, <2>1
  <2>5. \A k, l \in 1 .. L : k < l =>
          /\ frames'[k].file.origin = frames'[l].file.origin
          /\ frames'[l].file.at < frames'[k].file.at
    BY <1>4, <2>2
  <2> QED
    BY <1>1, <1>2, <1>4, <1>10, <2>1, <2>2, <2>3, <2>4, <2>5
<1>12. CASE Name(d) \notin expanded
  <2> DEFINE f == [file |-> d, next |-> 1]
  <2>0. f \in Fr /\ f.file = d /\ f.next = 1
    BY <1>2
  <2> HIDE DEF f
  <2>1. /\ frames' \in Seq(Fr) /\ Len(frames') = L + 1 /\ L + 1 \in Nat
        /\ \A k \in 1 .. L : frames'[k] = below[k]
        /\ frames'[L + 1].file = d /\ frames'[L + 1].next = 1
        /\ expanded' = expanded \cup {Name(d)}
    <3>1. frames' = Append(below, f) /\ expanded' = expanded \cup {Name(d)}
      BY <1>12 DEF Visit, f
    <3> QED
      BY <1>1, <2>0, <3>1, AppendIs
  <2>2. \A k \in 1 .. L : /\ frames'[k].file = frames[k].file
                          /\ frames'[k].next = below[k].next
    BY <1>1, <2>1
  <2>3. \A k \in 1 .. L + 1 : k \in 1 .. L \/ k = L + 1
    BY <1>1
  <2>4. \A k \in 1 .. L + 1 : Linked(frames'[k].file)
    BY <1>2, <1>3, <2>1, <2>2, <2>3
  <2>5. \A k, l \in 1 .. L + 1 : k < l =>
          /\ frames'[k].file.origin = frames'[l].file.origin
          /\ frames'[l].file.at < frames'[k].file.at
    <3> SUFFICES ASSUME NEW k \in 1 .. L + 1, NEW l \in 1 .. L + 1, k < l
                 PROVE  /\ frames'[k].file.origin = frames'[l].file.origin
                        /\ frames'[l].file.at < frames'[k].file.at
      OBVIOUS
    <3>1. k \in 1 .. L
      BY <1>1
    <3>2. CASE l = L + 1
      BY <1>7, <2>1, <2>2, <3>1, <3>2
    <3>3. CASE l \in 1 .. L
      BY <1>4, <2>2, <3>1, <3>3
    <3> QED
      BY <2>3, <3>2, <3>3
  <2>6. {Name(frames'[k].file) : k \in 1 .. L + 1} = FrameNames \cup {Name(d)}
    <3>1. ASSUME NEW x \in FrameNames \cup {Name(d)}
          PROVE  \E k \in 1 .. L + 1 : x = Name(frames'[k].file)
      <4>1. CASE x = Name(d)
        <5>1. L + 1 \in 1 .. L + 1
          BY <1>1
        <5> QED
          BY <2>1, <4>1, <5>1
      <4>2. CASE x \in FrameNames
        <5>1. PICK k \in 1 .. L : x = Name(frames[k].file)
          BY <1>9, <4>2
        <5>2. k \in 1 .. L + 1
          BY <1>1
        <5> QED
          BY <2>2, <5>1, <5>2
      <4> QED
        BY <3>1, <4>1, <4>2
    <3>2. ASSUME NEW k \in 1 .. L + 1
          PROVE  Name(frames'[k].file) \in FrameNames \cup {Name(d)}
      BY <1>9, <2>1, <2>2, <2>3
    <3> QED
      BY <3>1, <3>2
  <2>7. \A k \in 1 .. L + 1 : \A m \in DOMAIN Deps(frames'[k].file) :
          m < frames'[k].next => Deps(frames'[k].file)[m] \in expanded'
    <3>1. ASSUME NEW k \in 1 .. L, NEW m \in DOMAIN Deps(frames'[k].file),
                 m < frames'[k].next
          PROVE  Deps(frames'[k].file)[m] \in expanded'
      BY <1>1, <1>6, <2>1, <2>2, <3>1
    <3>2. ASSUME NEW m \in DOMAIN Deps(d) PROVE ~(m < 1)
      <4>1. Deps(d) \in Seq(Names)
        BY <1>2, LinkedFile
      <4> QED
        BY <3>2, <4>1
    <3> QED
      BY <2>1, <2>3, <3>1, <3>2
  <2>8. /\ expanded' = OutNames \cup {Name(frames'[k].file) : k \in 1 .. L + 1}
        /\ OutNames \cap {Name(frames'[k].file) : k \in 1 .. L + 1} = {}
        /\ expanded' \subseteq Names
    BY <1>2, <1>4, <1>12, <2>1, <2>6
  <2> QED
    BY <1>10, <2>1, <2>4, <2>5, <2>7, <2>8
<1> QED
  BY <1>11, <1>12
-------------------------------------------------------------------------------
(* A file is appended when its imports have been visited.  They are not on the *)
(* stack, where only files created later are: so they have been appended.      *)

LEMMA AppendStep ==
  ASSUME TypeOK, InOrder(server), InOrder(resolved), LinkedInv, Visited, AppendFile
  PROVE  /\ frames' \in Seq([file : Descriptor, next : Nat \ {0}])
         /\ out' \in Seq(Descriptor)
         /\ \A k \in DOMAIN frames' : Linked(frames'[k].file)
         /\ \A i \in DOMAIN out' : Linked(out'[i])
         /\ Visited'
<1> DEFINE Fr == [file : Descriptor, next : Nat \ {0}]
<1> DEFINE L == Len(frames)
<1> DEFINE N == Len(out)
<1>0. L \in Nat /\ \A k \in 1 .. L : k = L \/ k \in 1 .. L - 1
  <2>1. L \in Nat
    BY DEF TypeOK
  <2> QED
    BY <2>1
<1>1. /\ frames \in Seq(Fr) /\ frames # <<>> /\ L \in Nat /\ L # 0 /\ L \in 1 .. L
      /\ DOMAIN frames = 1 .. L /\ Last = frames[L]
      /\ out \in Seq(Descriptor) /\ N \in Nat /\ DOMAIN out = 1 .. N
  BY DEF TypeOK, AppendFile, Last
<1>2. /\ \A k \in 1 .. L : Linked(frames[k].file)
      /\ \A i \in 1 .. N : Linked(out[i])
  BY <1>1 DEF LinkedInv
<1>3. /\ Linked(Last.file) /\ Last.file \in Descriptor /\ Last.file.at \in Nat
      /\ Deps(Last.file) \in Seq(Names)
  <2>1. Linked(Last.file)
    BY <1>1, <1>2
  <2> QED
    BY <2>1, LinkedFile
<1>4. /\ frames' \in Seq(Fr) /\ Len(frames') = L - 1 /\ DOMAIN frames' = 1 .. L - 1
      /\ \A k \in 1 .. L - 1 : frames'[k] = frames[k]
  BY <1>1, PopIs DEF AppendFile
<1>5. /\ out' \in Seq(Descriptor) /\ DOMAIN out' = 1 .. N + 1
      /\ \A i \in 1 .. N : out'[i] = out[i]
      /\ out'[N + 1] = Last.file
  BY <1>1, <1>3, AppendIs DEF AppendFile
<1>6. UNCHANGED <<server, resolved, expanded>>
  BY DEF AppendFile, loadVars
<1>7. /\ \A k, l \in 1 .. L : k < l =>
            /\ frames[k].file.origin = frames[l].file.origin
            /\ frames[l].file.at < frames[k].file.at
      /\ expanded = OutNames \cup FrameNames
      /\ OutNames \cap FrameNames = {}
      /\ \A k \in 1 .. L : \A m \in DOMAIN Deps(frames[k].file) :
            m < frames[k].next => Deps(frames[k].file)[m] \in expanded
  BY <1>1 DEF Visited, FramesInv
<1>8. /\ FrameNames = {Name(frames[k].file) : k \in 1 .. L}
      /\ OutNames = {Name(out[i]) : i \in 1 .. N}
  BY <1>1 DEF FrameNames, OutNames
\* Below the last frame are later files of the same origin.
<1>9. \A k \in 1 .. L - 1 :
        /\ k \in 1 .. L
        /\ frames[k].file.origin = Last.file.origin
        /\ Last.file.at < frames[k].file.at
        /\ frames[k].file.at \in Nat
  <2> SUFFICES ASSUME NEW k \in 1 .. L - 1
               PROVE  /\ k \in 1 .. L
                      /\ frames[k].file.origin = Last.file.origin
                      /\ Last.file.at < frames[k].file.at
                      /\ frames[k].file.at \in Nat
    OBVIOUS
  <2>1. k \in 1 .. L /\ k < L
    BY <1>1
  <2>2. /\ frames[k].file.origin = frames[L].file.origin
        /\ frames[L].file.at < frames[k].file.at
    BY <1>1, <1>7, <2>1
  <2>3. frames[k].file.at \in Nat
    BY <1>2, <2>1, LinkedFile
  <2> QED
    BY <1>1, <2>1, <2>2, <2>3
<1>10. Name(Last.file) \in FrameNames /\ Name(Last.file) \notin OutNames
  <2>1. Name(Last.file) \in FrameNames
    BY <1>1, <1>8
  <2> QED
    BY <1>7, <2>1
<1>11. \A k \in 1 .. L - 1 : Name(frames[k].file) # Name(Last.file)
  <2> SUFFICES ASSUME NEW k \in 1 .. L - 1 PROVE Name(frames[k].file) # Name(Last.file)
    OBVIOUS
  <2>1. Linked(frames[k].file) /\ frames[k].file.at # Last.file.at
    BY <1>2, <1>3, <1>9
  <2> QED
    BY <1>3, <1>9, <2>1, CreationOrder
<1>12. \A m \in DOMAIN Deps(Last.file) : Deps(Last.file)[m] \in OutNames
  <2> SUFFICES ASSUME NEW m \in DOMAIN Deps(Last.file)
               PROVE  Deps(Last.file)[m] \in OutNames
    OBVIOUS
  <2>1. Last.next \in Nat /\ Last.next > Len(Deps(Last.file))
    <3>1. Last \in Fr
      BY <1>1, ElementOfSeq
    <3> QED
      BY <3>1 DEF AppendFile
  <2>2. m < Last.next
    BY <1>3, <2>1
  <2>3. Deps(Last.file)[m] \in expanded
    BY <1>1, <1>7, <2>2
  <2>4. ASSUME NEW k \in 1 .. L, Name(frames[k].file) = Deps(Last.file)[m]
        PROVE  FALSE
    <3>1. frames[k].file.origin = Last.file.origin /\ Linked(frames[k].file)
      <4>1. k = L \/ k \in 1 .. L - 1
        BY <1>0
      <4> QED
        BY <1>1, <1>2, <1>9, <4>1
    <3>2. frames[k].file.at < Last.file.at
      BY <1>3, <2>4, <3>1, CreationOrder
    <3>3. k = L \/ k \in 1 .. L - 1
      BY <1>0
    <3>4. ~(Last.file.at < Last.file.at)
      BY <1>3
    <3>5. k \in 1 .. L - 1
      BY <1>1, <3>2, <3>3, <3>4
    <3> QED
      BY <1>3, <1>9, <3>2, <3>5
  <2> QED
    BY <1>7, <1>8, <2>3, <2>4
\* The new sets of names.
<1>13. OutNames' = OutNames \cup {Name(Last.file)}
  <2>1. OutNames' = {Name(out'[i]) : i \in 1 .. N + 1}
    BY <1>5, <1>6, SameDescriptors DEF OutNames
  <2>2. \A i \in 1 .. N + 1 : i \in 1 .. N \/ i = N + 1
    BY <1>1
  <2>3. 1 .. N \subseteq 1 .. N + 1 /\ N + 1 \in 1 .. N + 1
    BY <1>1
  <2> QED
    BY <1>5, <1>8, <2>1, <2>2, <2>3
<1>14. FrameNames' = FrameNames \ {Name(Last.file)}
  <2>1. FrameNames' = {Name(frames'[k].file) : k \in 1 .. L - 1}
    BY <1>4, <1>6, SameDescriptors DEF FrameNames
  <2>2. FrameNames' = {Name(frames[k].file) : k \in 1 .. L - 1}
    BY <1>4, <2>1
  <2> QED
    BY <1>0, <1>1, <1>8, <1>9, <1>11, <2>2
<1>15. FramesInv'
  <2>1. \A k, l \in 1 .. L - 1 : k < l =>
          /\ frames'[k].file.origin = frames'[l].file.origin
          /\ frames'[l].file.at < frames'[k].file.at
    BY <1>4, <1>7, <1>9
  <2>2. \A k \in 1 .. L - 1 : \A m \in DOMAIN Deps(frames[k].file)' :
          m < frames'[k].next => (Deps(frames[k].file)[m])' \in expanded'
    <3>1. \A k \in 1 .. L - 1 : Deps(frames[k].file)' = Deps(frames[k].file)
      BY <1>4, <1>6, SameDescriptors
    <3> QED
      BY <1>4, <1>6, <1>7, <1>9, <3>1
  <2>3. expanded' = OutNames' \cup FrameNames' /\ OutNames' \cap FrameNames' = {}
    BY <1>6, <1>7, <1>10, <1>13, <1>14
  <2> QED
    BY <1>4, <2>1, <2>2, <2>3 DEF FramesInv
<1>16. DependenciesWrittenFirst'
  <2>1. \A i \in 1 .. N + 1 : Name(out[i])' = Name(out'[i]) /\ Deps(out[i])' = Deps(out'[i])
    BY <1>6, SameDescriptors
  <2>2. ASSUME NEW i \in 1 .. N + 1, NEW k \in DOMAIN Deps(out'[i])
        PROVE  \E j \in 1 .. i - 1 : j \in 1 .. N /\ Name(out[j]) = Deps(out'[i])[k]
    <3>1. CASE i \in 1 .. N
      <4>1. out'[i] = out[i] /\ i \in Nat
        BY <1>5, <3>1
      <4>2. PICK j \in 1 .. i - 1 : Name(out[j]) = Deps(out[i])[k]
        BY <1>1, <2>2, <3>1, <4>1 DEF Visited, DependenciesWrittenFirst
      <4>3. j \in 1 .. N
        BY <1>1, <3>1
      <4> QED
        BY <4>1, <4>2, <4>3
    <3>2. CASE i = N + 1
      <4>1. out'[i] = Last.file
        BY <1>5, <3>2
      <4>2. PICK j \in 1 .. N : Name(out[j]) = Deps(Last.file)[k]
        BY <1>8, <1>12, <2>2, <4>1
      <4>3. j \in 1 .. i - 1
        BY <1>1, <3>2
      <4> QED
        BY <4>1, <4>2, <4>3
    <3> QED
      BY <1>1, <3>1, <3>2
  <2>3. ASSUME NEW i \in 1 .. N + 1, NEW k \in DOMAIN Deps(out[i])'
        PROVE  \E j \in 1 .. i - 1 : Name(out[j])' = (Deps(out[i])[k])'
    <3>1. PICK j \in 1 .. i - 1 : j \in 1 .. N /\ Name(out[j]) = Deps(out'[i])[k]
      BY <2>1, <2>2
    <3>2. j \in 1 .. N + 1 /\ out'[j] = out[j]
      BY <1>1, <1>5, <3>1
    <3>3. Name(out[j])' = Name(out[j])
      BY <1>6, <3>2, SameDescriptors
    <3> QED
      BY <2>1, <3>1, <3>3
  <2> QED
    BY <1>5, <2>3 DEF DependenciesWrittenFirst
<1>17. NoNameTwice'
  <2> SUFFICES ASSUME NEW i \in 1 .. N + 1, NEW j \in 1 .. N + 1,
                      Name(out'[i]) = Name(out'[j])
               PROVE  i = j
    BY <1>5, <1>6, SameDescriptors DEF NoNameTwice
  <2>1. \A n \in 1 .. N : out'[n] = out[n] /\ Name(out'[n]) # Name(Last.file)
    BY <1>5, <1>8, <1>10
  <2>2. \A n \in 1 .. N + 1 : n \in 1 .. N \/ n = N + 1
    BY <1>1
  <2>3. CASE i \in 1 .. N /\ j \in 1 .. N
    BY <1>1, <2>1, <2>3 DEF Visited, NoNameTwice
  <2>4. CASE i = N + 1 \/ j = N + 1
    BY <1>5, <2>1, <2>2, <2>4
  <2> QED
    BY <2>2, <2>3, <2>4
<1>18. \A k \in DOMAIN frames' : Linked(frames'[k].file)
  BY <1>2, <1>4, <1>9
<1>19. \A i \in DOMAIN out' : Linked(out'[i])
  <2>1. \A i \in 1 .. N + 1 : i \in 1 .. N \/ i = N + 1
    BY <1>1
  <2> QED
    BY <1>2, <1>3, <1>5, <2>1
<1> QED
  BY <1>4, <1>5, <1>15, <1>16, <1>17, <1>18, <1>19 DEF Visited
-------------------------------------------------------------------------------
(* The inductive invariant. *)

LEMMA Start == Init => IInv
<1> SUFFICES ASSUME Init PROVE IInv
  OBVIOUS
<1>1. LoadInv /\ LoadTypeOK
  BY LoadStart DEF Init, LoadInv
<1>2. server \in Seq(Proto) /\ InOrder(server)
  BY WriteAssumption DEF Init
<1>3. TypeOK
  BY <1>1, <1>2, WriteAssumption DEF Init, TypeOK
<1>4. LinkedInv
  BY <1>2 DEF Init, LinkedInv
<1>5. FramesInv /\ DependenciesWrittenFirst /\ NoNameTwice
  BY DEF Init, FramesInv, OutNames, FrameNames, DependenciesWrittenFirst, NoNameTwice
<1> QED
  BY <1>1, <1>3, <1>4, <1>5 DEF IInv

\* When the source is ready it stays as it is.
LEMMA ReadyStep ==
  ASSUME IInv, UNCHANGED <<loadVars, server>>, TypeOK', Visited',
         phase' = "load" => UNCHANGED <<phase, roots, frames, out>>,
         \A i \in DOMAIN roots' : Linked(roots'[i]),
         \A k \in DOMAIN frames' : Linked(frames'[k].file),
         \A i \in DOMAIN out' : Linked(out'[i])
  PROVE  IInv'
<1>1. LoadInv'
  BY LoadStep DEF IInv
<1>2. UNCHANGED <<server, resolved>>
  BY DEF loadVars
<1>3. InOrder(server)'
  BY DEF IInv, LinkedInv, InOrder
<1>4. LinkedInv'
  BY <1>2, <1>3, SameDescriptors DEF IInv, LinkedInv
<1> QED
  BY <1>1, <1>4 DEF IInv, Visited

\* While the source is loaded nothing has been visited.
LEMMA LoadingStep == IInv /\ Load => IInv'
<1> SUFFICES ASSUME IInv, Load PROVE IInv'
  OBVIOUS
<1>1. LoadInv'
  BY LoadStep DEF IInv, Load
<1>2. /\ phase = "load" /\ UNCHANGED <<server, phase, symbols, found, roots>>
      /\ UNCHANGED <<root, frames, expanded, out>>
      /\ roots = <<>> /\ frames = <<>> /\ out = <<>>
  BY DEF IInv, Load, LinkedInv, writeVars, findVars, expandVars
<1>3. InOrder(server)'
  BY <1>2 DEF IInv, LinkedInv, InOrder
<1>4. LinkedInv'
  BY <1>2, <1>3 DEF LinkedInv
<1>5. expanded = {}
  BY <1>2 DEF IInv, FramesInv, OutNames, FrameNames
<1>6. FramesInv' /\ DependenciesWrittenFirst' /\ NoNameTwice'
  BY <1>2, <1>5 DEF FramesInv, OutNames, FrameNames, DependenciesWrittenFirst, NoNameTwice
<1>7. TypeOK'
  BY <1>1, <1>2 DEF IInv, TypeOK, LoadInv
<1> QED
  BY <1>1, <1>4, <1>6, <1>7 DEF IInv

\* Steps that only go from one phase to the next, or look up a symbol.
LEMMA FindStep ==
  ASSUME IInv, UNCHANGED <<loadVars, server, frames, expanded, out>>, TypeOK',
         phase' = "load" => UNCHANGED <<phase, roots>>,
         \A i \in DOMAIN roots' : Linked(roots'[i])
  PROVE  IInv'
<1>1. Visited'
  BY SameVisited DEF IInv, Visited, loadVars
<1>2. /\ \A k \in DOMAIN frames : Linked(frames[k].file)
      /\ \A i \in DOMAIN out : Linked(out[i])
  BY DEF IInv, LinkedInv
<1> QED
  BY <1>1, <1>2, ReadyStep

\* What a visit or an appended file has to show.
LEMMA ExpandStep ==
  ASSUME IInv, UNCHANGED <<loadVars, server, findVars, phase>>, phase = "expand",
         root' \in Nat \ {0}, expanded' \subseteq Names, out' \in Seq(Descriptor),
         frames' \in Seq([file : Descriptor, next : Nat \ {0}]), Visited',
         \A k \in DOMAIN frames' : Linked(frames'[k].file),
         \A i \in DOMAIN out' : Linked(out'[i])
  PROVE  IInv'
<1>1. TypeOK'
  BY DEF IInv, TypeOK, LoadTypeOK, loadVars, findVars
<1>2. \A i \in DOMAIN roots' : Linked(roots'[i])
  BY DEF IInv, LinkedInv, findVars
<1> QED
  BY <1>1, <1>2, ReadyStep

\* The next import of the last frame is a call for a file of the same origin.
LEMMA DependencyCalls ==
  ASSUME TypeOK, LinkedInv, ExpandDependency
  PROVE  \E d, below :
            Visit(d, below) /\ Calling(d, below) /\ d.origin = Last.file.origin
<1> DEFINE below == [frames EXCEPT ![Len(frames)].next = @ + 1]
           Fr == [file : Descriptor, next : Nat \ {0}]
<1>1. PICK i \in DOMAIN FilesOf(Last.file.origin) :
         /\ FilesOf(Last.file.origin)[i].name = Deps(Last.file)[Last.next]
         /\ Visit([origin |-> Last.file.origin, at |-> i], below)
  BY DEF ExpandDependency
<1> DEFINE d == [origin |-> Last.file.origin, at |-> i]
<1>2. frames \in Seq(Fr) /\ frames # <<>> /\ Len(frames) \in 1 .. Len(frames)
  BY DEF TypeOK, ExpandDependency
<1>3. Last \in Fr
  BY <1>2, ElementOfSeq DEF Last
<1>4. Linked(Last.file) /\ Deps(Last.file) \in Seq(Names)
  BY <1>2, LinkedFile DEF Last, LinkedInv
<1>5. Linked(d) /\ Name(d) = Deps(Last.file)[Last.next]
  <2>1. FilesOf(Last.file.origin) \in Seq(Proto)
    BY DEF FilesOf, TypeOK, LoadTypeOK
  <2> QED
    BY <1>1, <1>3, <2>1 DEF Linked, Name, Descriptor
<1>6. Last.next \in DOMAIN Deps(Last.file)
  BY <1>3, <1>4 DEF ExpandDependency
<1>7. /\ below = [frames EXCEPT ![Len(frames)] = [Last EXCEPT !.next = @ + 1]]
      /\ [Last EXCEPT !.next = @ + 1] \in Fr
  BY <1>3 DEF Last
<1>8. Calling(d, below)
  BY <1>2, <1>3, <1>5, <1>6, <1>7 DEF Calling, Last
<1>9. d.origin = Last.file.origin
  OBVIOUS
<1> QED
  BY <1>1, <1>8, <1>9

LEMMA Inductive == IInv /\ [Next]_vars => IInv'
<1> SUFFICES ASSUME IInv, [Next]_vars PROVE IInv'
  OBVIOUS
<1>1. /\ TypeOK /\ InOrder(server) /\ InOrder(resolved) /\ LinkedInv /\ Visited
      /\ \A i \in DOMAIN roots : Linked(roots[i])
      /\ \A k \in DOMAIN frames : Linked(frames[k].file)
      /\ \A i \in DOMAIN out : Linked(out[i])
  BY DEF IInv, LoadInv, DependenciesFirst, LinkedInv, Visited
<1>2. CASE Load
  BY <1>2, LoadingStep
<1>3. CASE SourceReady
  <2>1. TypeOK'
    BY <1>1, <1>3 DEF SourceReady, TypeOK, LoadTypeOK, loadVars, findVars, expandVars
  <2> QED
    BY <1>1, <1>3, <2>1, FindStep DEF SourceReady, findVars, expandVars
<1>4. CASE LoadFailed
  <2>1. TypeOK'
    BY <1>1, <1>4 DEF LoadFailed, TypeOK, LoadTypeOK, loadVars, findVars, expandVars
  <2> QED
    BY <1>1, <1>4, <2>1, FindStep DEF LoadFailed, findVars, expandVars
<1>5. ASSUME NEW d, Linked(d), Found(d) PROVE IInv'
  <2>1. TypeOK'
    BY <1>1, <1>5, WriteAssumption
       DEF Found, TypeOK, LoadTypeOK, loadVars, expandVars, Linked
  <2>2. \A i \in DOMAIN roots' : Linked(roots'[i])
    <3>1. CASE roots' = roots
      BY <1>1, <3>1
    <3>2. CASE roots' = Append(roots, d)
      <4>1. roots \in Seq(Descriptor) /\ d \in Descriptor
        BY <1>1, <1>5 DEF TypeOK, Linked
      <4>2. /\ DOMAIN roots' = 1 .. Len(roots) + 1 /\ DOMAIN roots = 1 .. Len(roots)
            /\ \A i \in 1 .. Len(roots) : roots'[i] = roots[i]
            /\ roots'[Len(roots) + 1] = d
            /\ Len(roots) \in Nat
        BY <3>2, <4>1, AppendIs
      <4> QED
        BY <1>1, <1>5, <4>2
    <3> QED
      BY <1>5, <3>1, <3>2 DEF Found
  <2> QED
    BY <1>5, <2>1, <2>2, FindStep DEF Found, expandVars
<1>6. CASE FindOnServer
  <2>1. PICK i \in DOMAIN server : Found([origin |-> "server", at |-> i])
    BY <1>6 DEF FindOnServer
  <2>2. Linked([origin |-> "server", at |-> i])
    BY <1>1, <2>1 DEF Linked, Descriptor, FilesOf, TypeOK
  <2> QED
    BY <1>5, <2>1, <2>2
<1>7. CASE FindInProtosets
  <2>1. PICK i \in DOMAIN resolved : Found([origin |-> "protosets", at |-> i])
    BY <1>7 DEF FindInProtosets
  <2>2. Linked([origin |-> "protosets", at |-> i])
    BY <1>1, <2>1 DEF Linked, Descriptor, FilesOf, TypeOK, LoadTypeOK
  <2> QED
    BY <1>5, <2>1, <2>2
<1>8. CASE SymbolNotFound
  <2>1. TypeOK'
    BY <1>1, <1>8 DEF SymbolNotFound, TypeOK, LoadTypeOK, loadVars, findVars, expandVars
  <2> QED
    BY <1>1, <1>8, <2>1, FindStep DEF SymbolNotFound, findVars, expandVars
<1>9. CASE AllFound
  <2>1. TypeOK'
    BY <1>1, <1>9 DEF AllFound, TypeOK, LoadTypeOK, loadVars, findVars, expandVars
  <2> QED
    BY <1>1, <1>9, <2>1, FindStep DEF AllFound, findVars, expandVars
<1>10. CASE ExpandRoot
  <2>1. root \in DOMAIN roots
    BY <1>1, <1>10 DEF ExpandRoot, TypeOK
  <2>2. Calling(roots[root], frames)
    BY <1>1, <1>10, <2>1 DEF ExpandRoot, Calling, TypeOK
  <2>3. UNCHANGED <<server, resolved, out>> /\ root' \in Nat \ {0}
    BY <1>1, <1>10 DEF ExpandRoot, loadVars, TypeOK
  <2>4. out' \in Seq(Descriptor) /\ \A i \in DOMAIN out' : Linked(out'[i])
    BY <1>1, <2>3 DEF TypeOK
  <2> QED
    BY <1>1, <1>10, <2>2, <2>3, <2>4, VisitStep, ExpandStep DEF ExpandRoot
<1>11. CASE ExpandDependency
  <2>1. PICK d, below : Visit(d, below) /\ Calling(d, below)
    BY <1>1, <1>11, DependencyCalls
  <2>2. UNCHANGED <<server, resolved, out>> /\ root' \in Nat \ {0}
    BY <1>1, <1>11 DEF ExpandDependency, loadVars, TypeOK
  <2>3. out' \in Seq(Descriptor) /\ \A j \in DOMAIN out' : Linked(out'[j])
    BY <1>1, <2>2 DEF TypeOK
  <2>4. /\ frames' \in Seq([file : Descriptor, next : Nat \ {0}])
        /\ expanded' \subseteq Names
        /\ \A k \in DOMAIN frames' : Linked(frames'[k].file)
        /\ Visited'
    BY <1>1, <2>1, <2>2, VisitStep
  <2> QED
    BY <1>11, <2>2, <2>3, <2>4, ExpandStep DEF ExpandDependency
<1>12. CASE AppendFile
  <2>1. /\ frames' \in Seq([file : Descriptor, next : Nat \ {0}])
        /\ out' \in Seq(Descriptor)
        /\ \A k \in DOMAIN frames' : Linked(frames'[k].file)
        /\ \A i \in DOMAIN out' : Linked(out'[i])
        /\ Visited'
    BY <1>1, <1>12, AppendStep
  <2>2. root' \in Nat \ {0} /\ expanded' \subseteq Names
    BY <1>1, <1>12 DEF AppendFile, TypeOK
  <2> QED
    BY <1>12, <2>1, <2>2, ExpandStep DEF AppendFile
<1>13. CASE Write
  <2>1. TypeOK'
    BY <1>1, <1>13 DEF Write, TypeOK, LoadTypeOK, loadVars, findVars, expandVars
  <2> QED
    BY <1>1, <1>13, <2>1, FindStep DEF Write, findVars, expandVars
<1>14. CASE UNCHANGED vars
  <2>1. TypeOK'
    BY <1>1, <1>14
       DEF vars, writeVars, TypeOK, LoadTypeOK, loadVars, findVars, expandVars
  <2> QED
    BY <1>1, <1>14, <2>1, FindStep DEF vars, writeVars, findVars, expandVars
<1> QED
  BY <1>2, <1>3, <1>4, <1>6, <1>7, <1>8, <1>9, <1>10, <1>11, <1>12, <1>13, <1>14
     DEF Next, Terminated

LEMMA Invariant == Spec => []IInv
  BY Start, Inductive, PTL DEF Spec

\* The state that loading, looking up and writing keep stays in its types, and
\* symbols are looked up only in a source that was loaded (WriteProtoset).
THEOREM TypeCorrect == Spec => []TypeOK
  BY Invariant, PTL DEF IInv

\* What is written is in topological order and has no name twice, for every
\* import graph and any mixture of a server's files with those of protosets, two
\* files of one name included (addFilesToSet, getFileDescriptors).
THEOREM WrittenInOrder == Spec => []TopologicalOrder
<1>1. IInv => TopologicalOrder
  BY DEF IInv, TopologicalOrder
<1> QED
  BY Invariant, <1>1, PTL

\* With a frame for every name that the protosets may use, loading ends with every
\* given file in the source and no circle of imports, and only such a circle
\* exhausts the stack (DescriptorSourceFromFileDescriptorSet).
THEOREM LoadedComplete ==
  ASSUME IsFiniteSet(Names), Cardinality(Names) <= MaxDepth
  PROVE  Spec => []LoadedIsComplete
<1>1. Init => LoadInv /\ CompleteInv
  BY LoadStart, CompleteStart DEF Init
<1>2. LoadInv /\ CompleteInv /\ [Next]_vars => LoadInv' /\ CompleteInv'
  <2> SUFFICES ASSUME LoadInv, CompleteInv, [Next]_vars
               PROVE  LoadInv' /\ CompleteInv'
    OBVIOUS
  <2>1. [LoadNext]_loadVars
    BY DEF Next, vars, Load, SourceReady, LoadFailed, FindOnServer, FindInProtosets,
           Found, SymbolNotFound, AllFound, ExpandRoot, ExpandDependency, AppendFile,
           Write, Terminated
  <2> QED
    BY <2>1, LoadStep, CompleteStep
<1>3. LoadInv /\ CompleteInv => LoadedIsComplete
  BY LoadedHasNoCircle DEF CompleteInv, OverflowInv, LoadedIsComplete
<1> QED
  BY <1>1, <1>2, <1>3, PTL DEF Spec
-------------------------------------------------------------------------------
(* Every symbol has its file. *)

\* A visit of a descriptor from an origin that symbols come from.
LEMMA SymbolVisit ==
  ASSUME SymbolInv, TypeOK, phase = "expand",
         UNCHANGED <<server, resolved, findVars, phase, out>>,
         NEW STATE d, NEW STATE below, Visit(d, below), Calling(d, below),
         \E e \in found : e.origin = d.origin,
         UNCHANGED root \/ (root' = root + 1 /\ roots[root] = d)
  PROVE  SymbolInv'
<1> DEFINE Fr == [file : Descriptor, next : Nat \ {0}]
<1>1. /\ below \in Seq(Fr) /\ Len(below) = Len(frames) /\ d \in Descriptor
      /\ frames \in Seq(Fr) /\ Len(frames) \in Nat
      /\ DOMAIN frames = 1 .. Len(frames) /\ DOMAIN below = 1 .. Len(frames)
      /\ \A k \in 1 .. Len(frames) : below[k].file = frames[k].file
      /\ root \in Nat /\ DOMAIN roots \subseteq Nat
  BY DEF Calling, TypeOK, Linked
<1>2. expanded' = expanded \cup {Name(d)}
  BY DEF Visit
<1>3. \A k \in DOMAIN frames' : \E e \in found : e.origin = frames'[k].file.origin
  <2>1. \A k \in 1 .. Len(frames) : \E e \in found : e.origin = below[k].file.origin
    BY <1>1 DEF SymbolInv
  <2>2. CASE frames' = below
    BY <1>1, <2>1, <2>2
  <2>3. CASE frames' = Append(below, [file |-> d, next |-> 1])
    <3>1. [file |-> d, next |-> 1] \in Fr
      BY <1>1
    <3>2. /\ DOMAIN frames' = 1 .. Len(frames) + 1
          /\ \A k \in 1 .. Len(frames) : frames'[k] = below[k]
          /\ frames'[Len(frames) + 1].file = d
      BY <1>1, <2>3, <3>1, AppendIs
    <3>3. \A k \in 1 .. Len(frames) + 1 : k \in 1 .. Len(frames) \/ k = Len(frames) + 1
      BY <1>1
    <3> QED
      BY <2>1, <3>2, <3>3
  <2> QED
    BY <2>2, <2>3 DEF Visit
<1>4. \A i \in DOMAIN roots : i < root' => Name(roots[i]) \in expanded'
  <2> SUFFICES ASSUME NEW i \in DOMAIN roots, i < root'
               PROVE  Name(roots[i]) \in expanded'
    OBVIOUS
  <2>1. i < root \/ (i = root /\ roots[root] = d)
    BY <1>1
  <2> QED
    BY <1>2, <2>1 DEF SymbolInv
<1> QED
  BY <1>3, <1>4, SameDescriptors DEF SymbolInv, findVars

\* A symbol that is found gets a root, unless a root has its name.
LEMMA SymbolFound ==
  ASSUME SymbolInv, TypeOK, NEW STATE d, Linked(d), Found(d)
  PROVE  SymbolInv'
<1> DEFINE N == Len(roots)
<1>1. /\ roots \in Seq(Descriptor) /\ N \in Nat /\ DOMAIN roots = 1 .. N
      /\ d \in Descriptor
  BY DEF TypeOK, Linked
<1>2. /\ UNCHANGED <<server, resolved, phase, root, frames, expanded, out>>
      /\ phase = "find" /\ root = 1 /\ found' = found \cup {d}
  BY DEF Found, loadVars, expandVars, SymbolInv
<1>3. /\ DOMAIN roots \subseteq DOMAIN roots' /\ DOMAIN roots' \subseteq 1 .. N + 1
      /\ \A i \in DOMAIN roots : roots'[i] = roots[i]
      /\ \A i \in DOMAIN roots' : roots'[i] \in found'
      /\ \E i \in DOMAIN roots' : Name(roots'[i]) = Name(d)
  <2>1. CASE roots' = roots /\ \E i \in DOMAIN roots : Name(roots[i]) = Name(d)
    BY <1>1, <1>2, <2>1 DEF SymbolInv
  <2>2. CASE roots' = Append(roots, d)
    <3>1. /\ DOMAIN roots' = 1 .. N + 1 /\ roots'[N + 1] = d
          /\ \A i \in 1 .. N : roots'[i] = roots[i]
      BY <1>1, <2>2, AppendIs
    <3>2. 1 .. N \subseteq 1 .. N + 1 /\ N + 1 \in 1 .. N + 1
          /\ \A i \in 1 .. N + 1 : i \in 1 .. N \/ i = N + 1
      BY <1>1
    <3> QED
      BY <1>1, <1>2, <3>1, <3>2 DEF SymbolInv
  <2> QED
    BY <2>1, <2>2 DEF Found
<1>4. \A e \in found' :
         Linked(e) /\ \E i \in DOMAIN roots' : Name(roots'[i]) = Name(e)
  <2>1. ASSUME NEW e \in found
        PROVE  Linked(e) /\ \E i \in DOMAIN roots' : Name(roots'[i]) = Name(e)
    <3>1. Linked(e) /\ \E i \in DOMAIN roots : Name(roots[i]) = Name(e)
      BY DEF SymbolInv
    <3> QED
      BY <1>3, <3>1
  <2> QED
    BY <1>2, <1>3, <2>1
<1>5. \A i \in DOMAIN roots' : ~(i < root')
  BY <1>1, <1>2, <1>3
<1>6. /\ \A k \in DOMAIN frames' : \E e \in found' : e.origin = frames'[k].file.origin
      /\ \A j \in DOMAIN out' : \E e \in found' : e.origin = out'[j].origin
  BY <1>2 DEF SymbolInv
<1> QED
  BY <1>2, <1>3, <1>4, <1>5, <1>6, SameDescriptors DEF SymbolInv

LEMMA SymbolStep == IInv /\ SymbolInv /\ [Next]_vars => SymbolInv'
<1> SUFFICES ASSUME IInv, SymbolInv, [Next]_vars PROVE SymbolInv'
  OBVIOUS
<1>1. TypeOK /\ LinkedInv
  BY DEF IInv
<1>2. ASSUME UNCHANGED <<server, resolved, findVars, root, frames, expanded, out>>,
             phase' = "load" => phase = "load",
             phase' = "find" => phase \in {"load", "find"},
             phase' = "written" => frames = <<>> /\ root > Len(roots)
      PROVE  SymbolInv'
  BY <1>2, SameDescriptors DEF SymbolInv, findVars
<1>3. CASE Load
  <2>1. /\ found = {} /\ roots = <<>> /\ frames = <<>> /\ out = <<>> /\ root = 1
        /\ UNCHANGED <<phase, found, roots, frames, out, root>> /\ phase = "load"
    BY <1>1, <1>3 DEF Load, LinkedInv, SymbolInv, writeVars, findVars, expandVars
  <2> QED
    BY <2>1 DEF SymbolInv
<1>4. CASE SourceReady \/ LoadFailed \/ SymbolNotFound \/ AllFound
  BY <1>2, <1>4 DEF SourceReady, LoadFailed, SymbolNotFound, AllFound, loadVars,
                    expandVars
<1>5. CASE FindOnServer
  <2>1. PICK i \in DOMAIN server : Found([origin |-> "server", at |-> i])
    BY <1>5 DEF FindOnServer
  <2>2. Linked([origin |-> "server", at |-> i])
    BY <1>1, <2>1 DEF Linked, Descriptor, FilesOf, TypeOK
  <2> QED
    BY <1>1, <2>1, <2>2, SymbolFound
<1>6. CASE FindInProtosets
  <2>1. PICK i \in DOMAIN resolved : Found([origin |-> "protosets", at |-> i])
    BY <1>6 DEF FindInProtosets
  <2>2. Linked([origin |-> "protosets", at |-> i])
    BY <1>1, <2>1 DEF Linked, Descriptor, FilesOf, TypeOK, LoadTypeOK
  <2> QED
    BY <1>1, <2>1, <2>2, SymbolFound
<1>7. CASE ExpandRoot
  <2>1. root \in DOMAIN roots
    BY <1>1, <1>7 DEF ExpandRoot, TypeOK
  <2>2. Calling(roots[root], frames)
    BY <1>1, <1>7, <2>1 DEF ExpandRoot, Calling, TypeOK, LinkedInv
  <2>3. \E e \in found : e.origin = roots[root].origin
    BY <2>1 DEF SymbolInv
  <2>4. /\ UNCHANGED <<server, resolved, findVars, phase, out>>
        /\ Visit(roots[root], frames) /\ phase = "expand" /\ root' = root + 1
    BY <1>7 DEF ExpandRoot, loadVars
  <2> QED
    BY <1>1, <2>2, <2>3, <2>4, SymbolVisit
<1>8. CASE ExpandDependency
  <2>1. PICK d, below :
          /\ Visit(d, below) /\ Calling(d, below) /\ d.origin = Last.file.origin
    BY <1>1, <1>8, DependencyCalls
  <2>2. Len(frames) \in DOMAIN frames
    BY <1>1, <1>8 DEF ExpandDependency, TypeOK
  <2>3. \E e \in found : e.origin = d.origin
    BY <2>1, <2>2 DEF SymbolInv, Last
  <2>4. /\ UNCHANGED <<server, resolved, findVars, phase, out, root>>
        /\ phase = "expand"
    BY <1>8 DEF ExpandDependency, loadVars
  <2> QED
    BY <1>1, <2>1, <2>3, <2>4, SymbolVisit
<1>9. CASE AppendFile
  <2> DEFINE Fr == [file : Descriptor, next : Nat \ {0}]
             N == Len(out)
  <2>1. /\ frames \in Seq(Fr) /\ frames # <<>> /\ out \in Seq(Descriptor)
        /\ N \in Nat /\ DOMAIN out = 1 .. N
        /\ out' = Append(out, Last.file)
        /\ UNCHANGED <<server, resolved, findVars, phase, root, expanded>>
        /\ phase = "expand"
    BY <1>1, <1>9 DEF AppendFile, TypeOK, loadVars
  <2>2. /\ Len(frames) \in DOMAIN frames /\ Last \in Fr
        /\ DOMAIN frames' \subseteq DOMAIN frames
        /\ \A k \in DOMAIN frames' : frames'[k] = frames[k]
    <3>1. /\ Len(frames) \in Nat \ {0} /\ frames[Len(frames)] \in Fr
          /\ DOMAIN frames' = 1 .. Len(frames) - 1 /\ DOMAIN frames = 1 .. Len(frames)
          /\ \A k \in 1 .. Len(frames) - 1 : frames'[k] = frames[k]
      BY <1>9, <2>1, PopIs DEF AppendFile
    <3> QED
      BY <3>1 DEF Last
  <2>3. \A k \in DOMAIN frames' : \E e \in found : e.origin = frames'[k].file.origin
    BY <2>2 DEF SymbolInv
  <2>4. \A j \in DOMAIN out' : \E e \in found : e.origin = out'[j].origin
    <3>1. /\ DOMAIN out' = 1 .. N + 1 /\ out'[N + 1] = Last.file
          /\ \A j \in 1 .. N : out'[j] = out[j]
      BY <2>1, <2>2, AppendIs
    <3>2. \A j \in 1 .. N + 1 : j \in 1 .. N \/ j = N + 1
      BY <2>1
    <3>3. \E e \in found : e.origin = Last.file.origin
      BY <2>2 DEF SymbolInv, Last
    <3> QED
      BY <2>1, <3>1, <3>2, <3>3 DEF SymbolInv
  <2> QED
    BY <2>1, <2>3, <2>4, SameDescriptors DEF SymbolInv, findVars
<1>10. CASE Write
  BY <1>2, <1>10 DEF Write, loadVars, expandVars
<1>11. CASE UNCHANGED vars
  BY <1>2, <1>11 DEF vars, writeVars, loadVars, findVars, expandVars, SymbolInv
<1> QED
  BY <1>3, <1>4, <1>5, <1>6, <1>7, <1>8, <1>9, <1>10, <1>11 DEF Next, Terminated

\* The file of every symbol is written, whatever the import graph and however many
\* symbols share a file, as long as all files come from one origin: then no other
\* file has its name (getFileDescriptors, addFilesToSet).
THEOREM EverySymbolWritten == Spec => []SymbolsWritten
<1>1. Init => SymbolInv
  BY DEF Init, SymbolInv
<1>2. IInv /\ SymbolInv => SymbolsWritten
  <2> SUFFICES ASSUME IInv, SymbolInv, phase = "written",
                      \A d, e \in found : d.origin = e.origin, NEW d \in found
               PROVE  \E i \in DOMAIN out : out[i] = d
    BY DEF SymbolsWritten
  <2>1. Linked(d) /\ d \in Descriptor
    BY DEF SymbolInv, Linked
  <2>2. PICK r \in DOMAIN roots : Name(roots[r]) = Name(d)
    BY DEF SymbolInv
  <2>3. frames = <<>> /\ r < root
    BY DEF SymbolInv, IInv, TypeOK
  <2>4. Name(d) \in OutNames
    BY <2>2, <2>3 DEF SymbolInv, IInv, FramesInv, FrameNames
  <2>5. PICK j \in DOMAIN out : Name(out[j]) = Name(d)
    BY <2>4 DEF OutNames
  <2>6. out[j].origin = d.origin
    BY DEF SymbolInv
  <2>7. Linked(out[j]) /\ out[j] \in Descriptor
    BY DEF IInv, LinkedInv, Linked
  <2>8. out[j].at = d.at
    BY <2>1, <2>5, <2>6, <2>7, CreationOrder
       DEF IInv, LinkedInv, LoadInv, DependenciesFirst
  <2> QED
    BY <2>1, <2>6, <2>7, <2>8 DEF Descriptor
<1> QED
  BY <1>1, <1>2, SymbolStep, Start, Inductive, PTL DEF Spec
-------------------------------------------------------------------------------
(* Listings. *)

\* Listing the files and making a source of them leaves the source that is listed
\* as it is (GetAllFiles, DescriptorSourceFromFileDescriptors): the theorems
\* about Spec are theorems about ListingSpec.
THEOREM ListingOnlyReads == ListingSpec => Spec
<1>1. ListingInit => Init
  BY DEF ListingInit
<1>2. [ListingNext]_<<vars, listingVars>> => [Next]_vars
  BY DEF ListingNext, ListFileSource, ListServices, FindService, FindServiceFails,
         AllLocated, AddFile, SourceMade, ListingTerminated
<1> QED
  BY <1>1, <1>2, PTL DEF ListingSpec, Spec

\* What listing relies on: descriptors are typed, and in the order of creation.
Ready == TypeOK /\ InOrder(server) /\ InOrder(resolved)

LEMMA ReadyIs == IInv => Ready
  BY DEF IInv, LinkedInv, LoadInv, DependenciesFirst, Ready

\* The files of the source, and those of one origin.
LEMMA FilesAre ==
  ASSUME Ready
  PROVE  /\ \A d \in Files : /\ Linked(d) /\ d \in Offered(d.origin)
                             /\ d = [origin |-> d.origin, at |-> d.at]
                             /\ d.at \in Nat /\ d.at \in DOMAIN FilesOf(d.origin)
                             /\ Offered(d.origin) \subseteq Files
         /\ \A o : \A d \in Offered(o) : d.origin = o
         /\ \A o : \A i \in DOMAIN FilesOf(o) :
               [origin |-> o, at |-> i] \in Offered(o) /\ i \in Nat
         /\ Conflict \cap Files = {}
<1>1. \A o : FilesOf(o) \in Seq(Proto) /\ DOMAIN FilesOf(o) \subseteq Nat \ {0}
  BY DEF Ready, TypeOK, LoadTypeOK, FilesOf
<1>2. \A d \in Files : d.origin \in {"server", "protosets"}
  BY DEF Files, Offered
<1>3. \A d \in Files : Linked(d) /\ d \in Offered(d.origin)
                       /\ d = [origin |-> d.origin, at |-> d.at]
  BY <1>1 DEF Files, Offered, Linked, Descriptor
<1>4. \A d \in Files : d.at \in Nat /\ d.at \in DOMAIN FilesOf(d.origin)
  BY <1>1, <1>3 DEF Offered
<1>5. \A d \in Files : Offered(d.origin) \subseteq Files
  BY <1>2 DEF Files
<1>6. /\ \A o : \A d \in Offered(o) : d.origin = o
      /\ \A o : \A i \in DOMAIN FilesOf(o) : [origin |-> o, at |-> i] \in Offered(o)
  BY DEF Offered
<1>7. Conflict \cap Files = {}
  BY <1>2 DEF Conflict
<1> QED
  BY <1>1, <1>3, <1>4, <1>5, <1>6, <1>7

\* A file's imports are files of its origin, created before it, and there is one
\* for each name that it imports; a name stands for one file of an origin.
LEMMA ImportsAre ==
  ASSUME Ready, NEW d \in Files
  PROVE  /\ \A e \in Imports(d) : e \in Files /\ e.origin = d.origin /\ e.at < d.at
         /\ \A k \in DOMAIN Deps(d) : \E e \in Imports(d) : Name(e) = Deps(d)[k]
         /\ \A e \in Files : e.origin = d.origin /\ Name(e) = Name(d) => e = d
         /\ \A e \in Files : e.origin = d.origin
               /\ (\E k \in DOMAIN Deps(d) : Name(e) = Deps(d)[k]) => e \in Imports(d)
<1> DEFINE files == FilesOf(d.origin)
<1>1. Linked(d) /\ d.at \in DOMAIN files /\ Offered(d.origin) \subseteq Files
  BY FilesAre
<1>2. \A e \in Files : Linked(e) /\ e \in Offered(e.origin) /\ e.at \in Nat
                       /\ e = [origin |-> e.origin, at |-> e.at]
  BY FilesAre
<1>3. ASSUME NEW e \in Imports(d)
      PROVE  e \in Files /\ e.origin = d.origin /\ e.at < d.at
  <2>1. PICK k \in DOMAIN Deps(d) : Name(e) = Deps(d)[k]
    BY DEF Imports
  <2>2. e \in Offered(d.origin)
    BY DEF Imports
  <2>3. e \in Files /\ e.origin = d.origin
    BY <1>1, <2>2, FilesAre
  <2> QED
    BY <1>1, <1>2, <2>1, <2>3, CreationOrder DEF Ready
<1>4. ASSUME NEW k \in DOMAIN Deps(d)
      PROVE  \E e \in Imports(d) : Name(e) = Deps(d)[k]
  <2>1. files \in Seq(Proto) /\ InOrder(files)
    BY DEF Ready, TypeOK, LoadTypeOK, FilesOf
  <2>2. Deps(d) = files[d.at].deps
    BY DEF Deps
  <2> HIDE DEF files
  <2>3. PICK j \in 1 .. d.at - 1 : files[j].name = Deps(d)[k]
    BY <1>1, <2>1, <2>2 DEF InOrder
  <2>4. j \in DOMAIN files
    BY <1>1, <2>1
  <2> DEFINE e == [origin |-> d.origin, at |-> j]
  <2>5. e \in Offered(d.origin) /\ Name(e) = Deps(d)[k]
    BY <2>3, <2>4 DEF Offered, Name, files
  <2> QED
    BY <2>5 DEF Imports
<1>5. ASSUME NEW e \in Files, e.origin = d.origin, Name(e) = Name(d) PROVE e = d
  <2>1. e.at = d.at
    BY <1>1, <1>2, <1>5, CreationOrder DEF Ready
  <2> QED
    BY <1>2, <1>5, <2>1
<1>6. \A e \in Files : e.origin = d.origin
         /\ (\E k \in DOMAIN Deps(d) : Name(e) = Deps(d)[k]) => e \in Imports(d)
  BY <1>2 DEF Imports
<1> QED
  BY <1>3, <1>4, <1>5, <1>6

\* What a walk from d reaches, given as the smallest set that has d and is closed
\* under the imports of what is not skipped.
Onward(S, skip) == \A e \in S : e \notin skip => Imports(e) \subseteq S
Reach(d, skip) ==
    {e \in Offered(d.origin) :
        \A S \in SUBSET Offered(d.origin) : d \in S /\ Onward(S, skip) => e \in S}

LEMMA ReachIs ==
  ASSUME Ready, NEW d \in Files, NEW skip
  PROVE  /\ d \in Reach(d, skip) /\ Onward(Reach(d, skip), skip)
         /\ \A S : d \in S /\ Onward(S, skip) => Reach(d, skip) \subseteq S
         /\ d \in skip => Reach(d, skip) \ skip = {}
         /\ d \notin skip => Reach(d, skip) \ skip
               = {d} \cup UNION {Reach(f, skip) \ skip : f \in Imports(d)}
<1> DEFINE O == Offered(d.origin)
           R == Reach(d, skip)
<1>1. d \in O /\ O \subseteq Files /\ \A e \in O : e \in Files /\ e.origin = d.origin
  BY FilesAre
<1>2. \A e \in O : Imports(e) \subseteq O
  BY <1>1 DEF Imports
<1>3. d \in R /\ R \subseteq O
  BY <1>1 DEF Reach
<1>4. \A S \in SUBSET O : d \in S /\ Onward(S, skip) => R \subseteq S
  BY DEF Reach
<1>5. Onward(R, skip)
  <2> SUFFICES ASSUME NEW e \in R, e \notin skip, NEW f \in Imports(e) PROVE f \in R
    BY DEF Onward
  <2>1. f \in O
    BY <1>2, <1>3
  <2>2. ASSUME NEW S \in SUBSET O, d \in S, Onward(S, skip) PROVE f \in S
    BY <1>4, <2>2 DEF Onward
  <2> QED
    BY <2>1, <2>2 DEF Reach
<1>6. ASSUME NEW S, d \in S, Onward(S, skip) PROVE R \subseteq S
  <2>1. Onward(S \cap O, skip)
    BY <1>2, <1>6 DEF Onward
  <2> QED
    BY <1>1, <1>4, <1>6, <2>1
<1>7. ASSUME d \in skip PROVE R \ skip = {}
  <2>1. Onward({d}, skip)
    BY <1>7 DEF Onward
  <2> QED
    BY <1>6, <1>7, <2>1
<1>8. ASSUME d \notin skip
      PROVE  R \ skip = {d} \cup UNION {Reach(f, skip) \ skip : f \in Imports(d)}
  <2>1. \A f \in Imports(d) : f \in Files /\ f.origin = d.origin
    BY <1>1, <1>2
  <2>2. ASSUME NEW f \in Imports(d) PROVE Reach(f, skip) \subseteq R
    <3>1. f \in R
      BY <1>3, <1>5, <1>8 DEF Onward
    <3>2. Reach(f, skip) = {e \in O : \A S \in SUBSET O :
                               f \in S /\ Onward(S, skip) => e \in S}
      BY <2>1 DEF Reach
    <3> QED
      BY <1>3, <1>5, <3>1, <3>2
  <2> DEFINE S == {d} \cup UNION {Reach(f, skip) : f \in Imports(d)}
  <2>3. \A f \in Imports(d) : f \in Reach(f, skip) /\ Onward(Reach(f, skip), skip)
    <3> SUFFICES ASSUME NEW f \in Imports(d)
                 PROVE  f \in Reach(f, skip) /\ Onward(Reach(f, skip), skip)
      OBVIOUS
    <3>1. Reach(f, skip) = {e \in O : \A T \in SUBSET O :
                               f \in T /\ Onward(T, skip) => e \in T}
      BY <2>1 DEF Reach
    <3>2. f \in O
      BY <1>1, <1>2
    <3> HIDE DEF O
    <3> QED
      BY <1>2, <3>1, <3>2 DEF Onward
  <2>4. Onward(S, skip)
    BY <2>3 DEF Onward
  <2>5. R \subseteq S
    BY <1>6, <2>4
  <2> QED
    BY <1>3, <1>8, <2>2, <2>5
<1> QED
  BY <1>3, <1>5, <1>6, <1>7, <1>8

\* The recursion of a walk has just that as its solution: files below have it.
LEMMA WalkReaches ==
  ASSUME Ready, NEW d \in Files, NEW skip
  PROVE  Walk(d, skip) = Reach(d, skip) \ skip
<1> DEFINE I == DOMAIN FilesOf(d.origin)
           At(i) == [origin |-> d.origin, at |-> i]
           Body(g, i) == IF At(i) \in skip THEN {}
                         ELSE {At(i)} \cup UNION {g[f.at] : f \in Imports(At(i))}
           IsWalk(g) == g = [i \in I |-> Body(g, i)]
           Reached == [i \in I |-> Reach(At(i), skip) \ skip]
           walk[i \in I] == LET e == At(i) IN
                            IF e \in skip THEN {}
                            ELSE {e} \cup UNION {walk[f.at] : f \in Imports(e)}
<1>1. Walk(d, skip) = walk[d.at]
  BY DEF Walk
<1>2. walk = CHOOSE g : IsWalk(g)
  OBVIOUS
<1>3. d.at \in I /\ At(d.at) = d /\ I \subseteq Nat
      /\ \A i \in I : At(i) \in Files /\ At(i).at = i /\ At(i).origin = d.origin
  BY FilesAre
<1> HIDE DEF walk, I
<1>4. \A i \in I : \A f \in Imports(At(i)) : f.at \in I /\ At(f.at) = f /\ f.at < i
  <2> SUFFICES ASSUME NEW i \in I, NEW f \in Imports(At(i))
               PROVE  f.at \in I /\ At(f.at) = f /\ f.at < i
    OBVIOUS
  <2>1. f \in Files /\ f.origin = d.origin /\ f.at < i
    BY <1>3, ImportsAre
  <2> QED
    BY <2>1, FilesAre DEF I
<1> HIDE DEF At
<1>5. \A i \in I : Reached[i] = Body(Reached, i)
  <2> SUFFICES ASSUME NEW i \in I PROVE Reached[i] = Body(Reached, i)
    OBVIOUS
  <2>1. \A f \in Imports(At(i)) : Reached[f.at] = Reach(f, skip) \ skip
    BY <1>4
  <2>2. Reached[i] = Reach(At(i), skip) \ skip
    OBVIOUS
  <2> HIDE DEF Reached
  <2>3. CASE At(i) \in skip
    BY <1>3, <2>2, <2>3, ReachIs
  <2>4. CASE At(i) \notin skip
    <3>1. Reached[i] = {At(i)} \cup UNION {Reach(f, skip) \ skip : f \in Imports(At(i))}
      BY <1>3, <2>2, <2>4, ReachIs
    <3>2. {Reach(f, skip) \ skip : f \in Imports(At(i))}
            = {Reached[f.at] : f \in Imports(At(i))}
      BY <2>1
    <3> QED
      BY <2>4, <3>1, <3>2
  <2> QED
    BY <2>3, <2>4
<1>6. IsWalk(Reached)
  BY <1>5
<1>7. IsWalk(walk)
  <2> HIDE DEF Reached, IsWalk
  <2> QED
    BY <1>2, <1>6
<1>8. \A i \in I : walk[i] = Body(walk, i)
  BY <1>7
<1>9. \A i \in I : walk[i] = Reached[i]
  <2> DEFINE T == {i \in I : walk[i] # Reached[i]}
  <2> HIDE DEF Reached
  <2> SUFFICES ASSUME T # {} PROVE FALSE
    OBVIOUS
  <2>1. PICK i \in T : \A j \in T : i <= j
    BY <1>3, LeastOf
  <2>2. \A f \in Imports(At(i)) : walk[f.at] = Reached[f.at]
    <3> SUFFICES ASSUME NEW f \in Imports(At(i)), walk[f.at] # Reached[f.at]
                 PROVE  FALSE
      OBVIOUS
    <3>1. f.at \in T /\ f.at < i /\ f.at \in Nat /\ i \in Nat
      BY <1>3, <1>4
    <3>2. i <= f.at
      BY <2>1, <3>1
    <3> QED
      BY <3>1, <3>2
  <2>3. {walk[f.at] : f \in Imports(At(i))} = {Reached[f.at] : f \in Imports(At(i))}
    BY <2>2
  <2>4. Body(walk, i) = Body(Reached, i)
    BY <2>3
  <2> QED
    BY <1>5, <1>8, <2>1, <2>4
<1> QED
  BY <1>1, <1>3, <1>9

\* What a walk from d adds: d unless it is skipped, and what is added is new, of
\* d's origin, needed for d, and has its imports added or skipped.
LEMMA WalkIs ==
  ASSUME Ready, NEW d \in Files, NEW skip
  PROVE  /\ Walk(d, skip) \subseteq Offered(d.origin) \ skip
         /\ d \in skip \cup Walk(d, skip)
         /\ \A e \in Walk(d, skip) : Imports(e) \subseteq skip \cup Walk(d, skip)
         /\ \A S : d \in S /\ (\A e \in S : Imports(e) \subseteq S)
                => Walk(d, skip) \subseteq S
<1> DEFINE W == Walk(d, skip)
           R == Reach(d, skip)
<1>1. W = R \ skip
  BY WalkReaches
<1>2. d \in R /\ Onward(R, skip)
  BY ReachIs
<1>3. \A S : d \in S /\ Onward(S, skip) => R \subseteq S
  BY ReachIs
<1>4. R \subseteq Offered(d.origin)
  BY DEF Reach
<1>5. \A S : (\A e \in S : Imports(e) \subseteq S) => Onward(S, skip)
  BY DEF Onward
<1> HIDE DEF W, R
<1>6. \A e \in W : Imports(e) \subseteq skip \cup W
  BY <1>1, <1>2 DEF Onward
<1>7. \A S : d \in S /\ (\A e \in S : Imports(e) \subseteq S) => W \subseteq S
  BY <1>1, <1>3, <1>5
<1> QED
  BY <1>1, <1>2, <1>4, <1>6, <1>7 DEF W

\* The closure of a set of files has them and their imports, and no set that does
\* lacks any of it.
LEMMA ClosureIs ==
  ASSUME Ready, NEW ds \in SUBSET Files
  PROVE  /\ ds \subseteq Closure(ds) /\ Closure(ds) \subseteq Files
         /\ \A d \in Closure(ds) : Imports(d) \subseteq Closure(ds)
         /\ \A S \in SUBSET Files :
               ds \subseteq S /\ (\A d \in S : Imports(d) \subseteq S)
                  => Closure(ds) \subseteq S
<1>1. /\ ds \subseteq Closure(ds) /\ Closure(ds) \subseteq Files
      /\ \A S \in SUBSET Files :
               ds \subseteq S /\ (\A d \in S : Imports(d) \subseteq S)
                  => Closure(ds) \subseteq S
  BY DEF Closure
<1>2. ASSUME NEW d \in Closure(ds), NEW e \in Imports(d) PROVE e \in Closure(ds)
  <2>1. e \in Files
    BY <1>1, ImportsAre
  <2>2. ASSUME NEW S \in SUBSET Files, ds \subseteq S,
               \A f \in S : Imports(f) \subseteq S
        PROVE  e \in S
    BY <1>1, <2>2
  <2> QED
    BY <2>1, <2>2 DEF Closure
<1> QED
  BY <1>1, <1>2

\* The file of a set that sorts first is one of it.
LEMMA FirstIs ==
  ASSUME Ready, NEW ds \in SUBSET Files, ds # {}
  PROVE  First(ds) \in ds
<1>1. \A d \in Files : Name(d) \in Names
  BY FilesAre, LinkedFile DEF Ready
<1>2. \A n \in Names : Place(n) \in Nat
  <2>1. \A n \in Names : \E i \in DOMAIN NameOrder : NameOrder[i] = n
    BY ListingsAssumption
  <2>2. DOMAIN NameOrder \subseteq Nat
    BY ListingsAssumption
  <2> QED
    BY <2>1, <2>2 DEF Place
<1> DEFINE T == {Place(Name(d)) : d \in ds}
<1>3. T \in SUBSET Nat /\ T # {}
  BY <1>1, <1>2
<1>4. PICK p \in T : \A q \in T : p <= q
  BY <1>3, LeastOf
<1>5. \E d \in ds : \A e \in ds : Place(Name(d)) <= Place(Name(e))
  BY <1>4
<1> QED
  BY <1>5 DEF First

\* Files, names and imports do not change any more once files are listed.
LEMMA SameListing ==
  ASSUME UNCHANGED <<server, resolved>>
  PROVE  /\ Files' = Files
         /\ \A d : /\ Name(d)' = Name(d) /\ Deps(d)' = Deps(d)
                   /\ Imports(d)' = Imports(d)
  BY SameDescriptors DEF Files, Offered, Imports, FilesOf, Name, Deps

\* What holds of sets of files, in the next state too.
LEMMA ListInvNext ==
  ASSUME UNCHANGED <<server, resolved>>
  PROVE  /\ ListInv' <=>
              /\ IF listing' = "no" THEN all' = {} /\ located' = {}
                 ELSE phase' = "find"
              /\ origins' \subseteq {"server", "protosets"}
              /\ all' \subseteq Files /\ located' \subseteq Files
              /\ NamesDiffer(all')
              /\ \A d \in all' : \A k \in DOMAIN Deps(d) : Deps(d)[k] \in NamesOf(all')
              /\ NamesOf(located') \subseteq NamesOf(all')
         /\ SourceInv' <=>
              /\ listing' \in {"no", "find"} => added' = {} /\ source' = {}
              /\ added' \subseteq all'
              /\ source' # Conflict =>
                    /\ added' \subseteq source' /\ source' \subseteq Closure(all')
                    /\ \A d \in source' : Imports(d) \subseteq source'
                    /\ NamesDiffer(source')
              /\ source' = Conflict => ~NamesDiffer(Closure(all'))
              /\ listing' = "sourced" => added' = all' \/ source' = Conflict
<1>1. /\ Files' = Files
      /\ \A d : Name(d)' = Name(d) /\ Deps(d)' = Deps(d) /\ Imports(d)' = Imports(d)
  BY SameListing
<1>2. /\ (NamesOf(all))' = NamesOf(all') /\ (NamesOf(located))' = NamesOf(located')
      /\ (NamesDiffer(all))' = NamesDiffer(all')
      /\ (NamesDiffer(source))' = NamesDiffer(source')
  BY <1>1 DEF NamesOf, NamesDiffer
<1>3. (Closure(all))' = Closure(all')
  BY <1>1 DEF Closure
<1>4. (NamesDiffer(Closure(all)))' = NamesDiffer(Closure(all'))
  BY <1>1, <1>3 DEF NamesDiffer
<1>5. Conflict' = Conflict
  BY DEF Conflict
<1> QED
  BY <1>1, <1>2, <1>3, <1>4, <1>5 DEF ListInv, SourceInv

\* A walk adds files of names that are not there yet, each with its imports.
LEMMA WalkDiffers ==
  ASSUME Ready, NEW ds \in SUBSET Files, NamesDiffer(ds), NEW d \in Files, NEW skip,
         Walk(d, skip) \cap OfNames(ds) = {}
  PROVE  NamesDiffer(ds \cup Walk(d, skip))
<1> DEFINE W == Walk(d, skip)
<1>1. \A e \in W : e \in Files /\ e.origin = d.origin
  BY WalkIs, FilesAre
<1>2. \A e \in W : e \notin OfNames(ds)
  OBVIOUS
<1> HIDE DEF W
<1>3. \A x, y \in W : Name(x) = Name(y) => x = y
  BY <1>1, ImportsAre
<1>4. \A x \in ds, y \in W : Name(x) # Name(y)
  BY <1>1, <1>2 DEF OfNames, NamesOf
<1>5. \A x, y \in ds : Name(x) = Name(y) => x = y
  BY DEF NamesDiffer
<1>6. \A x, y \in ds \cup W : Name(x) = Name(y) => x = y
  BY <1>3, <1>4, <1>5
<1> QED
  BY <1>6 DEF NamesDiffer, W

\* A source that offers all its files has them in order.
LEMMA AllOffered ==
  ASSUME Ready
  PROVE  LET ds == Offered("protosets") IN
         /\ ds \subseteq Files /\ NamesDiffer(ds)
         /\ \A d \in ds : \A k \in DOMAIN Deps(d) : Deps(d)[k] \in NamesOf(ds)
<1> DEFINE ds == Offered("protosets")
<1>1. ds \subseteq Files /\ \A d \in ds : d.origin = "protosets"
  BY FilesAre DEF Files
<1>2. NamesDiffer(ds)
  BY <1>1, ImportsAre DEF NamesDiffer
<1>3. ASSUME NEW d \in ds, NEW k \in DOMAIN Deps(d) PROVE Deps(d)[k] \in NamesOf(ds)
  <2>1. PICK e \in Imports(d) : Name(e) = Deps(d)[k]
    BY <1>1, ImportsAre
  <2>2. e \in ds
    BY <1>1 DEF Imports
  <2> QED
    BY <2>1, <2>2 DEF NamesOf
<1> QED
  BY <1>1, <1>2, <1>3

\* The walk from the file of a service that was found (addAllFilesToSet).
LEMMA FindServiceSafe ==
  ASSUME Ready, ListInv, SourceInv, FindService
  PROVE  ListInv' /\ SourceInv'
<1>1. /\ UNCHANGED <<server, resolved, phase, listing, origins, added, source>>
      /\ listing = "find" /\ added = {} /\ source = {} /\ phase = "find"
      /\ origins \subseteq {"server", "protosets"} /\ all \subseteq Files
      /\ located \subseteq Files /\ NamesDiffer(all)
      /\ NamesOf(located) \subseteq NamesOf(all)
      /\ \A d \in all : \A k \in DOMAIN Deps(d) : Deps(d)[k] \in NamesOf(all)
  BY DEF FindService, ListInv, SourceInv, vars, loadVars, writeVars, sourceVars
<1>2. PICK d \in UNION {Offered(o) : o \in origins} :
         located' = located \cup {d} /\ all' = all \cup Walk(d, OfNames(all))
  BY DEF FindService
<1> DEFINE skip == OfNames(all)
           W == Walk(d, skip)
<1>3. d \in Files
  BY <1>1 DEF Files
<1>4. /\ W \subseteq Offered(d.origin) /\ W \cap skip = {} /\ d \in skip \cup W
      /\ \A e \in W : Imports(e) \subseteq skip \cup W
  BY <1>3, WalkIs
<1>5. W \subseteq Files
  BY <1>3, <1>4, FilesAre
<1>6. NamesDiffer(all')
  BY <1>1, <1>2, <1>3, <1>4, WalkDiffers
<1> HIDE DEF W
<1>7. \A e \in skip \cup W : Name(e) \in NamesOf(all')
  BY <1>2 DEF OfNames, NamesOf, W
<1>8. ASSUME NEW e \in all', NEW k \in DOMAIN Deps(e)
      PROVE  Deps(e)[k] \in NamesOf(all')
  <2>1. CASE e \in all
    BY <1>1, <1>2, <2>1 DEF NamesOf
  <2>2. CASE e \in W
    <3>1. PICK f \in Imports(e) : Name(f) = Deps(e)[k]
      BY <1>5, <2>2, ImportsAre
    <3>2. f \in skip \cup W
      BY <1>4, <2>2
    <3> QED
      BY <1>7, <3>1, <3>2
  <2> QED
    BY <1>2, <2>1, <2>2 DEF W
<1>9. NamesOf(located') \subseteq NamesOf(all')
  <2>1. Name(d) \in NamesOf(all')
    BY <1>4, <1>7
  <2>2. NamesOf(all) \subseteq NamesOf(all')
    BY <1>2 DEF NamesOf
  <2>3. NamesOf(located') = NamesOf(located) \cup {Name(d)}
    BY <1>2 DEF NamesOf
  <2> QED
    BY <1>1, <2>1, <2>2, <2>3
<1>10. all' \subseteq Files /\ located' \subseteq Files
  BY <1>1, <1>2, <1>3, <1>5 DEF W
<1>11. ListInv'
  BY <1>1, <1>6, <1>8, <1>9, <1>10, ListInvNext
<1>12. source' # Conflict /\ NamesDiffer({})
  BY <1>1 DEF Conflict, NamesDiffer
<1>13. SourceInv'
  BY <1>1, <1>12, ListInvNext
<1> QED
  BY <1>11, <1>13

\* A file is added with what it imports, or collides with one that is needed too
\* (addFile).
LEMMA AddFileSafe ==
  ASSUME Ready, ListInv, SourceInv, AddFile
  PROVE  ListInv' /\ SourceInv'
<1> DEFINE d == First(all \ added)
           W == Walk(d, source)
           C == Closure(all)
<1>1. /\ UNCHANGED <<server, resolved, phase, listing, origins, located, all>>
      /\ listing = "listed" /\ source # Conflict /\ added # all
      /\ added' = added \cup {d}
      /\ source' = IF W \cap OfNames(source) # {} THEN Conflict ELSE source \cup W
  BY DEF AddFile, vars, loadVars, writeVars, lookupVars
<1>2. /\ all \subseteq Files /\ added \subseteq all /\ added \subseteq source
      /\ source \subseteq C /\ NamesDiffer(source)
      /\ \A e \in source : Imports(e) \subseteq source
  BY <1>1 DEF ListInv, SourceInv
<1>3. d \in all
  <2>1. all \ added \in SUBSET Files /\ all \ added # {}
    BY <1>1, <1>2
  <2> QED
    BY <2>1, FirstIs
<1>4. /\ all \subseteq C /\ C \subseteq Files
      /\ \A e \in C : Imports(e) \subseteq C
  BY <1>2, ClosureIs
<1> HIDE DEF d, C
<1>5. d \in Files
  BY <1>2, <1>3
<1>6. /\ W \cap source = {} /\ d \in source \cup W /\ W \subseteq C
      /\ \A e \in W : Imports(e) \subseteq source \cup W
  <2>1. W \subseteq C
    BY <1>3, <1>4, <1>5, WalkIs
  <2> QED
    BY <1>5, <2>1, WalkIs
<1>7. ListInv'
  BY <1>1, ListInvNext DEF ListInv
<1>8. CASE W \cap OfNames(source) # {}
  <2>1. PICK x \in W, y \in source : Name(x) = Name(y)
    BY <1>8 DEF OfNames, NamesOf
  <2>2. x \in C /\ y \in C /\ x # y
    BY <1>2, <1>6, <2>1
  <2>3. ~NamesDiffer(C)
    BY <2>1, <2>2 DEF NamesDiffer
  <2>4. source' = Conflict
    BY <1>1, <1>8
  <2>5. added' \subseteq all'
    BY <1>1, <1>2, <1>3
  <2> QED
    BY <1>1, <1>7, <2>3, <2>4, <2>5, ListInvNext DEF C
<1>9. CASE W \cap OfNames(source) = {}
  <2>1. NamesDiffer(source \cup W)
    BY <1>2, <1>4, <1>5, <1>9, WalkDiffers
  <2> HIDE DEF W
  <2>2. source' = source \cup W
    BY <1>1, <1>9
  <2>3. source' \subseteq C /\ \A e \in source' : Imports(e) \subseteq source'
    BY <1>2, <1>6, <2>2
  <2>4. source' # Conflict
    <3>1. Conflict # {} /\ Conflict \cap Files = {}
      BY FilesAre DEF Conflict
    <3> QED
      BY <1>4, <2>3, <3>1
  <2>5. added' \subseteq all' /\ added' \subseteq source'
    BY <1>1, <1>2, <1>3, <1>6, <2>2
  <2>6. NamesDiffer(source')
    BY <2>1, <2>2
  <2> QED
    BY <1>1, <1>7, <2>3, <2>4, <2>5, <2>6, ListInvNext DEF C
<1> QED
  BY <1>8, <1>9

Listed == ListInv /\ ErrorInv /\ SourceInv

\* Nothing is listed before the source is ready.
LEMMA NotListed ==
  ASSUME listing = "no", all = {}, located = {}, asked = 0, missing = {},
         firstError = 0, origins = {}, added = {}, source = {}
  PROVE  Listed
<1>1. source # Conflict
  BY DEF Conflict
<1> QED
  BY <1>1 DEF Listed, ListInv, ErrorInv, SourceInv, NamesOf, NamesDiffer

LEMMA ListingStep ==
  IInv /\ Listed /\ [ListingNext]_<<vars, listingVars>> => Listed'
<1> SUFFICES ASSUME IInv, Listed, [ListingNext]_<<vars, listingVars>> PROVE Listed'
  OBVIOUS
<1>1. Ready /\ ListInv /\ ErrorInv /\ SourceInv
  BY ReadyIs DEF Listed
<1>2. CASE listing = "no" /\ UNCHANGED listingVars
  <2>1. /\ all = {} /\ located = {} /\ asked = 0 /\ missing = {} /\ firstError = 0
        /\ added = {} /\ source = {}
    BY <1>1, <1>2 DEF ListInv, ErrorInv, SourceInv
  <2>2. ErrorInv'
    BY <1>1, <1>2 DEF ErrorInv, listingVars, lookupVars
  <2>3. ListInv' /\ SourceInv'
    <3>1. /\ UNCHANGED <<listing, origins, all, located, added, source>>
          /\ source' # Conflict'
      BY <1>2, <2>1 DEF listingVars, lookupVars, sourceVars, Conflict
    <3> QED
      BY <1>1, <1>2, <2>1, <3>1
         DEF ListInv, SourceInv, NamesOf, NamesDiffer
  <2> QED
    BY <2>2, <2>3 DEF Listed
<1>3. ASSUME UNCHANGED <<vars, all, located, origins, added, source>>,
             listing' \in {"find", "listed"} \/ listing' = listing,
             listing # "no", listing' = "find" => listing = "find"
      PROVE  ListInv' /\ SourceInv'
  <2>1. /\ UNCHANGED <<server, resolved, phase>>
        /\ (listing' # "no" /\ phase = "find")
    BY <1>1, <1>3 DEF ListInv, vars, loadVars, writeVars
  <2>2. listing' \in {"no", "find"} => listing \in {"no", "find"}
    BY <1>3
  <2>3. listing' = "sourced" => listing = "sourced"
    BY <1>3
  <2> QED
    BY <1>1, <1>3, <2>1, <2>2, <2>3, ListInvNext DEF ListInv, SourceInv
<1>4. CASE ListFileSource
  <2>1. /\ UNCHANGED <<server, resolved, phase, located, added, source>>
        /\ UNCHANGED <<asked, missing, firstError>>
        /\ listing = "no" /\ phase = "find" /\ listing' = "listed"
        /\ origins' = {"protosets"} /\ all' = Offered("protosets")
        /\ located = {} /\ added = {} /\ source = {}
    BY <1>1, <1>4 DEF ListFileSource, Listable, ListInv, SourceInv, vars, loadVars,
                      writeVars, sourceVars
  <2>2. /\ all' \subseteq Files /\ NamesDiffer(all')
        /\ \A d \in all' : \A k \in DOMAIN Deps(d) : Deps(d)[k] \in NamesOf(all')
    BY <1>1, <2>1, AllOffered
  <2>3. ListInv'
    BY <2>1, <2>2, ListInvNext DEF NamesOf
  <2>4. source' # Conflict /\ NamesDiffer({})
    BY <2>1 DEF Conflict, NamesDiffer
  <2>5. SourceInv'
    BY <2>1, <2>4, ListInvNext
  <2> QED
    BY <1>1, <2>1, <2>3, <2>5 DEF Listed, ErrorInv
<1>5. CASE ListServices
  <2>1. /\ UNCHANGED <<server, resolved, phase, located, all, added, source>>
        /\ listing = "no" /\ phase = "find" /\ listing' \in {"find", "listed"}
        /\ origins' \subseteq {"server", "protosets"} /\ asked' = 1
        /\ all = {} /\ located = {} /\ added = {} /\ source = {}
    BY <1>1, <1>5 DEF ListServices, Listable, ListInv, SourceInv, vars, loadVars,
                      writeVars, sourceVars
  <2>2. source' # Conflict /\ NamesDiffer({})
    BY <2>1 DEF Conflict, NamesDiffer
  <2>3. ListInv' /\ SourceInv'
    BY <2>1, <2>2, ListInvNext DEF NamesOf
  <2>4. missing = {} /\ firstError = 0
    BY <1>1, <2>1 DEF ErrorInv
  <2>5. \/ missing' = {} /\ firstError' = 0
        \/ missing' = {1} /\ firstError' = 1
    BY <1>5, <2>4 DEF ListServices
  <2>6. ErrorInv'
    BY <2>1, <2>5 DEF ErrorInv
  <2> QED
    BY <2>3, <2>6 DEF Listed
<1>6. CASE FindService
  <2>1. asked' = asked + 1 /\ UNCHANGED <<missing, firstError>>
        /\ listing = "find" /\ listing' = "find"
    BY <1>6 DEF FindService
  <2>2. asked \in Nat /\ \A i \in 1 .. asked : i \in 1 .. asked + 1
    BY <1>1 DEF ErrorInv
  <2>3. ErrorInv'
    BY <1>1, <2>1, <2>2 DEF ErrorInv
  <2> QED
    BY <1>1, <1>6, <2>3, FindServiceSafe DEF Listed
<1>7. CASE FindServiceFails
  <2>1. /\ UNCHANGED <<vars, listing, origins, located, all, added, source>>
        /\ listing = "find" /\ asked' = asked + 1
        /\ missing' = missing \cup {asked + 1}
        /\ firstError' = IF firstError = 0 THEN asked + 1 ELSE firstError
    BY <1>7 DEF FindServiceFails, sourceVars
  <2>2. ListInv' /\ SourceInv'
    BY <1>3, <2>1
  <2>3. /\ asked \in Nat /\ \A i \in 1 .. asked : i \in 1 .. asked + 1 /\ i < asked + 1
        /\ asked + 1 \in 1 .. asked + 1
        /\ missing \subseteq 1 .. asked
    BY <1>1 DEF ErrorInv
  <2>4. CASE missing = {}
    <3>1. missing' = {asked + 1} /\ firstError' = asked + 1
      BY <1>1, <2>1, <2>4 DEF ErrorInv
    <3> QED
      BY <2>1, <2>2, <2>3, <3>1 DEF Listed, ErrorInv
  <2>5. CASE missing # {}
    <3>1. firstError \in missing /\ \A i \in missing : firstError <= i
      BY <1>1, <2>5 DEF ErrorInv
    <3>2. firstError' = firstError /\ firstError <= asked + 1
      BY <2>1, <2>3, <3>1
    <3> QED
      BY <2>1, <2>2, <2>3, <3>1, <3>2 DEF Listed, ErrorInv
  <2> QED
    BY <2>4, <2>5
<1>8. CASE AllLocated
  <2>1. /\ UNCHANGED <<vars, all, located, origins, added, source>>
        /\ UNCHANGED <<asked, missing, firstError>>
        /\ listing = "find" /\ listing' = "listed"
    BY <1>8 DEF AllLocated, lookupVars, sourceVars
  <2>2. ListInv' /\ SourceInv'
    BY <1>3, <2>1
  <2> QED
    BY <1>1, <2>1, <2>2 DEF Listed, ErrorInv
<1>9. CASE AddFile
  <2>1. UNCHANGED <<asked, missing, firstError, listing>>
    BY <1>9 DEF AddFile, lookupVars
  <2> QED
    BY <1>1, <1>9, <2>1, AddFileSafe DEF Listed, ErrorInv
<1>10. CASE SourceMade
  <2>1. /\ UNCHANGED <<server, resolved, phase, all, located, origins, added, source>>
        /\ UNCHANGED <<asked, missing, firstError>>
        /\ listing = "listed" /\ listing' = "sourced"
        /\ added = all \/ source = Conflict
    BY <1>10 DEF SourceMade, lookupVars, sourceVars, vars, loadVars, writeVars
  <2>2. ListInv' /\ SourceInv'
    BY <1>1, <2>1, ListInvNext DEF ListInv, SourceInv
  <2> QED
    BY <1>1, <2>1, <2>2 DEF Listed, ErrorInv
<1>11. CASE UNCHANGED <<vars, listingVars>>
  <2>1. /\ UNCHANGED <<vars, all, located, origins, added, source, listing>>
        /\ UNCHANGED <<asked, missing, firstError>>
    BY <1>11 DEF listingVars, lookupVars, sourceVars
  <2>2. CASE listing # "no"
    <3>1. ListInv' /\ SourceInv'
      BY <1>3, <2>1, <2>2
    <3> QED
      BY <1>1, <2>1, <3>1 DEF Listed, ErrorInv
  <2> QED
    BY <1>2, <1>11, <2>2
<1> QED
  BY <1>2, <1>4, <1>5, <1>6, <1>7, <1>8, <1>9, <1>10, <1>11
     DEF ListingNext, ListingTerminated

\* Listing returns one file for each name that the services need, and the first of
\* the errors; a source made of these has just what they are linked to, or is
\* refused because two needed files have one name: for every import graph, any
\* number of services, and any mixture of two origins (GetAllFiles,
\* DescriptorSourceFromFileDescriptors).
THEOREM ListingIsComplete == ListingSpec => []AllFilesListed
<1>1. ListingInit => Init /\ Listed
  BY NotListed DEF ListingInit
<1>2. IInv /\ Listed => AllFilesListed
  <2> SUFFICES ASSUME IInv, Listed, listing \in {"listed", "sourced"}
               PROVE  AllFilesListed
    BY DEF AllFilesListed
  <2> DEFINE C == Closure(all)
  <2>1. Ready /\ ListInv /\ ErrorInv /\ SourceInv
    BY ReadyIs DEF Listed
  <2>2. /\ all \subseteq Files /\ NamesDiffer(all)
        /\ \A d \in all : \A k \in DOMAIN Deps(d) : Deps(d)[k] \in NamesOf(all)
    BY <2>1 DEF ListInv
  <2>3. /\ all \subseteq C /\ C \subseteq Files
        /\ \A S \in SUBSET Files :
              all \subseteq S /\ (\A d \in S : Imports(d) \subseteq S) => C \subseteq S
    BY <2>1, <2>2, ClosureIs
  <2>4. ASSUME \A d, e \in all : d.origin = e.origin PROVE C = all
    <3>1. ASSUME NEW d \in all, NEW e \in Imports(d) PROVE e \in all
      <4>1. e \in Files /\ e.origin = d.origin
        BY <2>1, <2>2, ImportsAre
      <4>2. PICK f \in all : Name(f) = Name(e)
        BY <2>2 DEF Imports, NamesOf
      <4>3. f \in Files /\ f.origin = e.origin
        BY <2>2, <2>4, <4>1
      <4> QED
        BY <2>1, <4>1, <4>2, <4>3, ImportsAre
    <3> QED
      BY <2>2, <2>3, <3>1
  <2>5. ASSUME listing = "sourced"
        PROVE  /\ source = IF NamesDiffer(C) THEN C ELSE Conflict
               /\ (\A d, e \in all : d.origin = e.origin) => source = all
    <3>1. CASE source = Conflict
      <4>1. ~NamesDiffer(C)
        BY <2>1, <3>1 DEF SourceInv
      <4> QED
        BY <2>2, <2>4, <3>1, <4>1
    <3>2. CASE source # Conflict
      <4>1. /\ all \subseteq source /\ source \subseteq C /\ NamesDiffer(source)
            /\ \A d \in source : Imports(d) \subseteq source
        BY <2>1, <2>5, <3>2 DEF SourceInv
      <4>2. source = C
        BY <2>3, <4>1
      <4> QED
        BY <2>4, <4>1, <4>2
    <3> QED
      BY <3>1, <3>2
  <2> HIDE DEF C
  <2> QED
    BY <2>1, <2>2, <2>5 DEF AllFilesListed, ListInv, ErrorInv, C
<1> QED
  BY <1>1, <1>2, ListingStep, ListingOnlyReads, Invariant, PTL DEF ListingSpec
===============================================================================
