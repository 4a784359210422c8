----------------------------- MODULE FormatsProofs -----------------------------
(***************************************************************************)
(* Theorems about Formats and what it is made of, for every set of message *)
(* types and fields, every graph of types, every input and every number of *)
(* responses.                                                              *)
(***************************************************************************)
EXTENDS Formats, SequenceTheorems, FiniteSetTheorems, TLAPS

\* What Append does to the positions of a sequence.
LEMMA AppendIs ==
  ASSUME NEW S, NEW s \in Seq(S), NEW e \in S
  PROVE  /\ Append(s, e) \in Seq(S)
         /\ Len(s) \in Nat
         /\ DOMAIN s = 1 .. Len(s)
         /\ DOMAIN Append(s, e) = 1 .. Len(s) + 1
         /\ \A i \in 1 .. Len(s) : i # Len(s) + 1 /\ Append(s, e)[i] = s[i]
         /\ Append(s, e)[Len(s) + 1] = e
         /\ \A i \in 1 .. Len(s) + 1 : i \in 1 .. Len(s) \/ i = Len(s) + 1
         /\ 1 .. Len(s) \subseteq 1 .. Len(s) + 1
         /\ Len(s) + 1 \in 1 .. Len(s) + 1
  OBVIOUS

\* What is left when the last element is taken away.
LEMMA PopIs ==
  ASSUME NEW S, NEW s \in Seq(S), s # <<>>
  PROVE  LET t == SubSeq(s, 1, Len(s) - 1)
         IN  /\ Len(s) \in Nat \ {0}
             /\ s[Len(s)] \in S
             /\ t \in Seq(S)
             /\ Len(t) = Len(s) - 1
             /\ DOMAIN t = 1 .. Len(s) - 1
             /\ DOMAIN s = 1 .. Len(s)
             /\ \A i \in 1 .. Len(s) - 1 : t[i] = s[i]
<1> DEFINE n == Len(s) - 1
<1>1. /\ Len(s) \in Nat \ {0} /\ s[Len(s)] \in S
      /\ DOMAIN s = 1 .. Len(s) /\ n \in Int
      /\ \A i \in 1 .. n : s[i] \in S
  OBVIOUS
<1>2. /\ SubSeq(s, 1, n) \in Seq(S)
      /\ Len(SubSeq(s, 1, n)) = IF 1 <= n THEN n - 1 + 1 ELSE 0
      /\ \A i \in 1 .. n - 1 + 1 : SubSeq(s, 1, n)[i] = s[1 + i - 1]
  BY <1>1, SubSeqProperties
<1> QED
  BY <1>1, <1>2

\* A sequence without repetition stays one when something new is appended.
LEMMA AppendNew ==
  ASSUME NEW S, NEW s \in Seq(S), NEW e \in S, NEW F, e \notin F,
         \A i \in DOMAIN s : s[i] \in F,
         \A i, j \in DOMAIN s : s[i] = s[j] => i = j
  PROVE  /\ Append(s, e) \in Seq(S)
         /\ \A i \in DOMAIN Append(s, e) : Append(s, e)[i] \in F \cup {e}
         /\ \A i, j \in DOMAIN Append(s, e) :
               Append(s, e)[i] = Append(s, e)[j] => i = j
<1> DEFINE t == Append(s, e)
           N == Len(s)
<1>1. /\ t \in Seq(S) /\ DOMAIN s = 1 .. N /\ DOMAIN t = 1 .. N + 1
      /\ \A i \in 1 .. N : t[i] = s[i]
      /\ t[N + 1] = e
      /\ \A i \in 1 .. N + 1 : i \in 1 .. N \/ i = N + 1
  BY AppendIs
<1> HIDE DEF t, N
<1>2. \A i \in DOMAIN t : t[i] \in F \cup {e}
  BY <1>1
<1>3. \A i, j \in DOMAIN t : t[i] = t[j] => i = j
  BY <1>1
<1> QED
  BY <1>1, <1>2, <1>3 DEF t

\* A new frame on a stack.
LEMMA PushIs ==
  ASSUME NEW S, NEW s \in Seq([type : S, next : Nat \ {0}]), NEW t \in S,
         NEW c, c = Append(s, [type |-> t, next |-> 1])
  PROVE  /\ c \in Seq([type : S, next : Nat \ {0}])
         /\ \A k \in DOMAIN s : k \in DOMAIN c /\ c[k] = s[k]
         /\ \A k \in DOMAIN c : k \in DOMAIN s \/ (c[k].type = t /\ c[k].next = 1)
         /\ \E k \in DOMAIN c : c[k].type = t
<1> DEFINE f == [type |-> t, next |-> 1]
           N == Len(s)
<1>1. /\ f \in [type : S, next : Nat \ {0}] /\ f.type = t /\ f.next = 1
      /\ c = Append(s, f)
  OBVIOUS
<1> HIDE DEF f
<1>2. /\ Append(s, f) \in Seq([type : S, next : Nat \ {0}])
      /\ DOMAIN s = 1 .. N /\ DOMAIN Append(s, f) = 1 .. N + 1
      /\ \A i \in 1 .. N : Append(s, f)[i] = s[i]
      /\ Append(s, f)[N + 1] = f
      /\ \A i \in 1 .. N + 1 : i \in 1 .. N \/ i = N + 1
      /\ 1 .. N \subseteq 1 .. N + 1 /\ N + 1 \in 1 .. N + 1
  BY <1>1, AppendIs
<1>3. /\ c \in Seq([type : S, next : Nat \ {0}])
      /\ DOMAIN s = 1 .. N /\ DOMAIN c = 1 .. N + 1
      /\ \A i \in 1 .. N : c[i] = s[i]
      /\ c[N + 1] = f
      /\ \A i \in 1 .. N + 1 : i \in 1 .. N \/ i = N + 1
      /\ 1 .. N \subseteq 1 .. N + 1 /\ N + 1 \in 1 .. N + 1
  BY <1>1, <1>2
<1> HIDE DEF N
<1> QED
  BY ONLY <1>1, <1>3
-------------------------------------------------------------------------------
(* Registries of extensions. *)

\* What Answered and ExtensionsFetched promise of a registry, for one type.
Complete(registry, t) ==
    /\ Answered(registry, t)
    /\ MayFail => {e[2] : e \in {e \in registry : e[1] = t}} = ServerTags[t]

\* Two registries that hold the same for t are both complete, or neither is.
LEMMA SameAnswers ==
  ASSUME NEW r, NEW s, NEW t, {e \in r : e[1] = t} = {e \in s : e[1] = t}
  PROVE  /\ Answered(r, t) => Answered(s, t)
         /\ Complete(r, t) => Complete(s, t)
<1>1. \A origin : {e \in r : e[1] = t /\ e[3] = origin}
                = {e \in s : e[1] = t /\ e[3] = origin}
  OBVIOUS
<1>2. Answered(r, t) => Answered(s, t)
  BY <1>1 DEF Answered
<1> QED
  BY <1>2 DEF Complete

\* An answer for a type that was not there makes the registry complete for it,
\* whichever origin the answer is from.
LEMMA RegisterOwn ==
  ASSUME origins \in (SUBSET {"server", "files"}) \ {{}},
         NEW registry, NEW t, NEW exts \in Answers(t),
         \A e \in registry : e[1] # t
  PROVE  Complete(Register(registry, t, exts), t)
<1> DEFINE r == Register(registry, t, exts)
           Tags(origin) == {e[2] : e \in {e \in r : e[1] = t /\ e[3] = origin}}
<1>1. r = registry \cup {<<t, x[1], x[2]>> : x \in exts}
  BY DEF Register
<1>2. \A e \in r : e[1] = t => \E x \in exts : e[2] = x[1] /\ e[3] = x[2]
  <2> SUFFICES ASSUME NEW e \in r, e[1] = t
               PROVE  \E x \in exts : e[2] = x[1] /\ e[3] = x[2]
    OBVIOUS
  <2>1. PICK x \in exts : e = <<t, x[1], x[2]>>
    BY <1>1
  <2> QED
    BY <2>1
<1>3. \A x \in exts : \E e \in r : e[1] = t /\ e[2] = x[1] /\ e[3] = x[2]
  <2>1. \A x \in exts : <<t, x[1], x[2]>> \in r
    BY <1>1
  <2> HIDE DEF r
  <2> QED
    BY <2>1
<1> HIDE DEF r
<1>4. \A n, origin : n \in Tags(origin) <=> \E x \in exts : x[1] = n /\ x[2] = origin
  <2> SUFFICES ASSUME NEW n, NEW origin
               PROVE  n \in Tags(origin) <=> \E x \in exts : x[1] = n /\ x[2] = origin
    OBVIOUS
  <2>1. ASSUME n \in Tags(origin) PROVE \E x \in exts : x[1] = n /\ x[2] = origin
    BY <1>2, <2>1
  <2>2. ASSUME NEW x \in exts, x[1] = n, x[2] = origin PROVE n \in Tags(origin)
    BY <1>3, <2>2
  <2> QED
    BY <2>1, <2>2
<1>a. \A n, origin : <<n, origin>> \in exts => n \in Tags(origin)
  BY <1>4
<1>5. exts = Merged(t) \/ (exts = FromFiles(t) /\ "files" \in origins)
  BY DEF Answers
<1>6. /\ "files" \in origins => FileTags[t] \subseteq Tags("server") \cup Tags("files")
      /\ Tags("server") \cap Tags("files") = {}
      /\ Tags("server") \in {{}, ServerTags[t]}
      /\ MayFail => Tags("server") = ServerTags[t]
  <2> HIDE DEF Tags
  <2>1. CASE exts = Merged(t)
    <3>1. \A x \in exts :
             \/ x[2] = "server" /\ x[1] \in ServerTags[t]
             \/ x[2] = "files" /\ x[1] \in FileTags[t] /\ x[1] \notin ServerTags[t]
                /\ "files" \in origins
      BY <2>1 DEF Merged, FromServer, FromFiles
    <3>2. \A n \in ServerTags[t] : <<n, "server">> \in exts
      BY <2>1 DEF Merged, FromServer
    <3>3. "files" \in origins =>
             \A n \in FileTags[t] : n \in ServerTags[t] \/ <<n, "files">> \in exts
      BY <2>1 DEF Merged, FromFiles
    <3>4. \A n \in ServerTags[t] : n \in Tags("server")
      BY <1>a, <3>2
    <3>5. "files" \in origins =>
             \A n \in FileTags[t] : n \in ServerTags[t] \/ n \in Tags("files")
      BY <1>a, <3>3
    <3>6. \A n \in Tags("server") : n \in ServerTags[t]
      BY <1>4, <3>1
    <3>7. \A n \in Tags("files") : "files" \in origins /\ n \in FileTags[t]
                                   /\ n \notin ServerTags[t]
      BY <1>4, <3>1
    <3> QED
      BY <3>4, <3>5, <3>6, <3>7
  <2>2. CASE exts = FromFiles(t) /\ "files" \in origins
    <3>1. /\ \A x \in exts : x[2] = "files" /\ x[1] \in FileTags[t]
          /\ \A n \in FileTags[t] : <<n, "files">> \in exts
      BY <2>2 DEF FromFiles
    <3>2. \A n : n \notin Tags("server")
      BY <1>4, <3>1
    <3>3. \A n \in Tags("files") : n \in FileTags[t]
      BY <1>4, <3>1
    <3>4. \A n \in FileTags[t] : n \in Tags("files")
      BY <1>a, <3>1
    <3> QED
      BY <2>2, <3>2, <3>3, <3>4 DEF MayFail
  <2> QED
    BY <1>5, <2>1, <2>2
<1>7. Answered(r, t)
  BY <1>6 DEF Answered
<1>8. ASSUME MayFail PROVE {e[2] : e \in {e \in r : e[1] = t}} = ServerTags[t]
  <2>1. exts = FromServer(t)
    BY <1>5, <1>8 DEF MayFail, Merged, FromFiles
  <2>2. \A e \in r : e[1] = t => e[2] \in ServerTags[t]
    BY <1>2, <2>1 DEF FromServer
  <2>3. \A n \in ServerTags[t] : <<n, "server">> \in exts
    BY <2>1 DEF FromServer
  <2>4. \A n \in ServerTags[t] : \E e \in r : e[1] = t /\ e[2] = n
    BY <1>3, <2>3
  <2> QED
    BY <2>2, <2>4
<1> QED
  BY <1>7, <1>8 DEF Complete, r
-------------------------------------------------------------------------------
(* fetchAllExtensions. *)

\* A call for t marks it, asks for its extensions and has a frame for its fields,
\* or finds it marked.
LEMMA EnterStep ==
  ASSUME WalkInv, RegistryInv, graph \in [Types -> Seq(Types)],
         origins \in (SUBSET {"server", "files"}) \ {{}}, fetch = "walking",
         UNCHANGED <<origins, graph, roots>>,
         NEW STATE t, t \in Types, NEW STATE below, Enter(t, below),
         below \in Seq([type : Types, next : Nat \ {0}]),
         DOMAIN below = DOMAIN calls,
         \A k \in DOMAIN calls : below[k].type = calls[k].type,
         \A k \in DOMAIN calls : \A i \in DOMAIN graph[calls[k].type] :
            i < below[k].next => graph[calls[k].type][i] \in fetched \cup {t},
         walked' \in Nat,
         \A i \in DOMAIN roots : i <= walked' => roots[i] \in fetched \cup {t}
  PROVE  WalkInv' /\ RegistryInv'
<1> DEFINE Fr == [type : Types, next : Nat \ {0}]
<1>1. /\ fetched \subseteq Types /\ asked \in Seq(Types) /\ roots \in Seq(Types)
      /\ \A i \in DOMAIN asked : asked[i] \in fetched
      /\ \A i, j \in DOMAIN asked : asked[i] = asked[j] => i = j
      /\ \A u \in fetched : \/ \E k \in DOMAIN calls : calls[k].type = u
                            \/ \A i \in DOMAIN graph[u] : graph[u][i] \in fetched
  BY DEF WalkInv
<1>2. CASE /\ t \in fetched /\ calls' = below
           /\ UNCHANGED <<fetched, asked, ext, fetch>>
  <2>1. WalkInv'
    <3>1. \A k \in DOMAIN below : \A i \in DOMAIN graph[below[k].type] :
             i < below[k].next => graph[below[k].type][i] \in fetched
      BY <1>2
    <3>2. \A u \in fetched : \/ \E k \in DOMAIN below : below[k].type = u
                            \/ \A i \in DOMAIN graph[u] : graph[u][i] \in fetched
      BY <1>1
    <3>3. \A i \in DOMAIN roots : i <= walked' => roots[i] \in fetched
      BY <1>2
    <3> QED
      BY <1>1, <1>2, <3>1, <3>2, <3>3 DEF WalkInv
  <2>2. \A u : Answered(ext, u)' <=> Answered(ext, u)
    BY <1>2 DEF Answered
  <2> QED
    BY <1>2, <2>1, <2>2 DEF RegistryInv, MayFail
<1>3. CASE /\ t \notin fetched /\ fetched' = fetched \cup {t}
           /\ calls' = Append(below, [type |-> t, next |-> 1])
           /\ asked' = IF t \in Extendable THEN Append(asked, t) ELSE asked
           /\ fetch' \in {"walking", "failed"}
           /\ IF t \in Extendable
              THEN \/ \E exts \in Answers(t) : ext' = Register(ext, t, exts)
                   \/ fetch' = "failed" /\ UNCHANGED ext
              ELSE UNCHANGED ext
  <2>1. /\ calls' \in Seq(Fr)
        /\ \A k \in DOMAIN calls : k \in DOMAIN calls' /\ calls'[k] = below[k]
        /\ \A k \in DOMAIN calls' :
              k \in DOMAIN calls \/ (calls'[k].type = t /\ calls'[k].next = 1)
        /\ \E k \in DOMAIN calls' : calls'[k].type = t
    <3> DEFINE c == Append(below, [type |-> t, next |-> 1])
    <3>1. below \in Seq([type : Types, next : Nat \ {0}]) /\ t \in Types
      OBVIOUS
    <3>2. calls' = c
      BY <1>3
    <3> HIDE DEF c
    <3>3. c = Append(below, [type |-> t, next |-> 1])
      BY DEF c
    <3>4. /\ c \in Seq([type : Types, next : Nat \ {0}])
          /\ \A k \in DOMAIN below : k \in DOMAIN c /\ c[k] = below[k]
          /\ \A k \in DOMAIN c :
                k \in DOMAIN below \/ (c[k].type = t /\ c[k].next = 1)
          /\ \E k \in DOMAIN c : c[k].type = t
      BY ONLY <3>1, <3>3, PushIs
    <3> QED
      BY <3>2, <3>4
  <2>2. /\ asked' \in Seq(Types) /\ \A i \in DOMAIN asked' : asked'[i] \in fetched'
        /\ \A i, j \in DOMAIN asked' : asked'[i] = asked'[j] => i = j
    <3>1. CASE t \in Extendable
      <4>1. asked' = Append(asked, t) /\ fetched' = fetched \cup {t} /\ t \notin fetched
        BY <1>3, <3>1
      <4>2. /\ asked \in Seq(Types) /\ t \in Types
            /\ \A i \in DOMAIN asked : asked[i] \in fetched
            /\ \A i, j \in DOMAIN asked : asked[i] = asked[j] => i = j
        BY <1>1
      <4> QED
        BY ONLY <4>1, <4>2, AppendNew
    <3>2. CASE t \notin Extendable
      BY <1>1, <1>3, <3>2
    <3> QED
      BY <3>1, <3>2
  <2>3. \A k \in DOMAIN calls' : \A i \in DOMAIN graph[calls'[k].type] :
           i < calls'[k].next => graph[calls'[k].type][i] \in fetched'
    <3> SUFFICES ASSUME NEW k \in DOMAIN calls', NEW i \in DOMAIN graph[calls'[k].type],
                        i < calls'[k].next
                 PROVE  graph[calls'[k].type][i] \in fetched'
      OBVIOUS
    <3>1. CASE k \in DOMAIN calls
      <4>1. calls'[k].type = calls[k].type /\ calls'[k].next = below[k].next
        BY <2>1, <3>1
      <4> QED
        BY <1>3, <3>1, <4>1
    <3>2. CASE calls'[k].type = t /\ calls'[k].next = 1
      <4>1. DOMAIN graph[t] \subseteq Nat \ {0}
        <5>1. graph[t] \in Seq(Types)
          OBVIOUS
        <5> QED
          BY <5>1
      <4>2. ~(i < 1)
        BY <3>2, <4>1
      <4> QED
        BY <3>2, <4>2
    <3> QED
      BY <2>1, <3>1, <3>2
  <2>4. \A u \in fetched' : \/ \E k \in DOMAIN calls' : calls'[k].type = u
                            \/ \A i \in DOMAIN graph[u] : graph[u][i] \in fetched'
    <3> SUFFICES ASSUME NEW u \in fetched'
                 PROVE  \/ \E k \in DOMAIN calls' : calls'[k].type = u
                        \/ \A i \in DOMAIN graph[u] : graph[u][i] \in fetched'
      OBVIOUS
    <3>1. CASE u = t
      BY <2>1, <3>1
    <3>2. ASSUME NEW k \in DOMAIN calls, calls[k].type = u
          PROVE  \E l \in DOMAIN calls' : calls'[l].type = u
      BY <2>1, <3>2
    <3>3. CASE \A i \in DOMAIN graph[u] : graph[u][i] \in fetched
      BY <1>3, <3>3
    <3> QED
      BY <1>1, <1>3, <3>1, <3>2, <3>3
  <2>5. /\ UNCHANGED <<roots, graph>> /\ fetched' \subseteq Types /\ fetch' # "done"
        /\ \A i \in DOMAIN roots : i <= walked' => roots[i] \in fetched'
    BY <1>1, <1>3
  <2>6. WalkInv'
    BY <1>1, <2>1, <2>2, <2>3, <2>4, <2>5 DEF WalkInv
  <2>7. \A e \in ext' : e[1] \in fetched'
    <3>1. \A e \in ext : e[1] \in fetched
      BY DEF RegistryInv
    <3>2. ASSUME NEW exts, ext' = Register(ext, t, exts)
          PROVE  \A e \in ext' : e[1] \in fetched \cup {t}
      BY <3>1, <3>2 DEF Register
    <3> QED
      BY <1>3, <3>1, <3>2
  <2>8. \A r, u : Complete(r, u)' <=> Complete(r', u)
    BY DEF Complete, Answered, MayFail
  <2>9. fetch' # "failed" => \A u \in fetched' \cap Extendable : Complete(ext', u)
    <3> SUFFICES ASSUME fetch' # "failed", NEW u \in fetched' \cap Extendable
                 PROVE  Complete(ext', u)
      OBVIOUS
    <3>1. CASE u = t
      <4>1. PICK exts \in Answers(t) : ext' = Register(ext, t, exts)
        BY <1>3, <3>1
      <4>2. \A e \in ext : e[1] # t
        BY <1>3 DEF RegistryInv
      <4> QED
        BY <3>1, <4>1, <4>2, RegisterOwn
    <3>2. CASE u # t
      <4>1. Complete(ext, u)
        BY <1>3, <3>2 DEF RegistryInv, Complete
      <4>2. {e \in ext : e[1] = u} = {e \in ext' : e[1] = u}
        <5>1. ASSUME NEW exts, ext' = Register(ext, t, exts)
              PROVE  {e \in ext : e[1] = u} = {e \in ext' : e[1] = u}
          <6>1. {e \in ext : e[1] = u} = {e \in Register(ext, t, exts) : e[1] = u}
            BY <3>2 DEF Register
          <6> QED
            BY <5>1, <6>1
        <5> QED
          BY <1>3, <5>1
      <4> QED
        BY <4>1, <4>2, SameAnswers
    <3> QED
      BY <3>1, <3>2
  <2> QED
    BY <2>6, <2>7, <2>8, <2>9 DEF RegistryInv, Complete
<1> QED
  BY <1>2, <1>3 DEF Enter

\* Marked types are closed under their fields when the walk is done.
LEMMA WalkStep ==
  ASSUME WalkInv, RegistryInv, graph \in [Types -> Seq(Types)],
         origins \in (SUBSET {"server", "files"}) \ {{}},
         UNCHANGED <<origins, graph>>, FetchNext \/ UNCHANGED fetchVars
  PROVE  WalkInv' /\ RegistryInv'
<1> DEFINE Fr == [type : Types, next : Nat \ {0}]
<1>1. /\ calls \in Seq(Fr) /\ roots \in Seq(Types) /\ walked \in Nat
      /\ fetched \subseteq Types
      /\ \A k \in DOMAIN calls : \A i \in DOMAIN graph[calls[k].type] :
            i < calls[k].next => graph[calls[k].type][i] \in fetched
      /\ \A i \in DOMAIN roots : i <= walked => roots[i] \in fetched
  BY DEF WalkInv
<1>2. ASSUME UNCHANGED <<ext, fetched>>, fetch' = "failed" <=> fetch = "failed"
      PROVE  RegistryInv'
  <2>1. \A u : Answered(ext, u)' <=> Answered(ext, u)
    BY <1>2 DEF Answered
  <2> QED
    BY <1>2, <2>1 DEF RegistryInv, MayFail
<1>3. CASE FetchRoot
  <2>1. walked + 1 \in DOMAIN roots /\ roots[walked + 1] \in Types /\ walked' \in Nat
    BY <1>1, <1>3 DEF FetchRoot
  <2>2. \A i \in DOMAIN roots :
           i <= walked' => roots[i] \in fetched \cup {roots[walked + 1]}
    <3>1. \A i \in DOMAIN roots : i <= walked' => i <= walked \/ i = walked + 1
      BY <1>1, <1>3 DEF FetchRoot
    <3> QED
      BY <1>1, <3>1
  <2>3. \A k \in DOMAIN calls : \A i \in DOMAIN graph[calls[k].type] :
          i < calls[k].next =>
             graph[calls[k].type][i] \in fetched \cup {roots[walked + 1]}
    BY <1>1
  <2>4. Enter(roots[walked + 1], calls) /\ fetch = "walking" /\ UNCHANGED roots
    BY <1>3 DEF FetchRoot
  <2> QED
    BY <1>1, <2>1, <2>2, <2>3, <2>4, EnterStep
<1>4. CASE FetchField
  <2> DEFINE L == Len(calls)
             f == calls[L]
             t == graph[f.type][f.next]
             below == [calls EXCEPT ![L].next = @ + 1]
  <2>1. /\ L \in 1 .. L /\ f \in Fr /\ f.type \in Types /\ DOMAIN calls = 1 .. L
        /\ f.next \in DOMAIN graph[f.type] /\ t \in Types
        /\ Enter(t, below) /\ fetch = "walking" /\ UNCHANGED <<roots, walked>>
    <3>a. calls # <<>>
      BY <1>4 DEF FetchField
    <3>b. L \in Nat \ {0} /\ f \in Fr /\ DOMAIN calls = 1 .. L
      BY <1>1, <3>a, PopIs
    <3>c. L \in 1 .. L
      BY <3>b
    <3>1. L \in 1 .. L /\ f \in Fr /\ f.type \in Types /\ DOMAIN calls = 1 .. L
      BY <3>b, <3>c
    <3>2. graph[f.type] \in Seq(Types) /\ f.next \in Nat \ {0}
      BY <3>1
    <3>3. f.next <= Len(graph[f.type])
      BY <1>4 DEF FetchField, Calling
    <3>4. Enter(t, below) /\ fetch = "walking" /\ UNCHANGED <<roots, walked>>
      BY <1>4 DEF FetchField, Calling
    <3> QED
      BY <3>1, <3>2, <3>3, <3>4
  <2>2. /\ below \in Seq(Fr) /\ DOMAIN below = 1 .. L
        /\ \A k \in 1 .. L : k # L => below[k] = calls[k]
        /\ below[L].type = f.type /\ below[L].next = f.next + 1
    <3>a. \A n \in Nat \ {0} : n + 1 \in Nat \ {0}
      OBVIOUS
    <3>b. f.next + 1 \in Nat \ {0}
      BY <2>1, <3>a
    <3>1. [f EXCEPT !.next = @ + 1] \in Fr
      BY <2>1, <3>b
    <3>2. below = [calls EXCEPT ![L] = [f EXCEPT !.next = @ + 1]]
      OBVIOUS
    <3> QED
      BY <1>1, <2>1, <3>1, <3>2
  <2>3. \A k \in 1 .. L : below[k].type = calls[k].type
    BY <2>1, <2>2
  <2> HIDE DEF below
  <2>4. ASSUME NEW k \in 1 .. L, NEW i \in DOMAIN graph[calls[k].type],
               i < below[k].next
        PROVE  graph[calls[k].type][i] \in fetched \cup {t}
    <3>1. CASE k = L
      <4>1. f.next \in Nat /\ graph[f.type] \in Seq(Types)
        BY <2>1
      <4>2. i \in Nat
        BY <3>1, <4>1, <2>4
      <4>3. i < f.next \/ i = f.next
        BY <2>2, <2>4, <3>1, <4>1, <4>2
      <4> QED
        BY <1>1, <2>1, <3>1, <4>3
    <3>2. CASE k # L
      BY <1>1, <2>1, <2>2, <2>4, <3>2
    <3> QED
      BY <3>1, <3>2
  <2>5. walked' \in Nat /\ \A i \in DOMAIN roots : i <= walked' => roots[i] \in fetched \cup {t}
    BY <1>1, <2>1
  <2> HIDE DEF t
  <2> QED
    BY <2>1, <2>2, <2>3, <2>4, <2>5, EnterStep
<1>5. CASE FetchReturns
  <2> DEFINE L == Len(calls)
             f == calls[L]
  <2>1. /\ L \in Nat \ {0} /\ f \in Fr /\ calls' \in Seq(Fr)
        /\ DOMAIN calls' = 1 .. L - 1 /\ DOMAIN calls = 1 .. L
        /\ \A k \in 1 .. L - 1 : calls'[k] = calls[k]
    BY <1>1, <1>5, PopIs DEF FetchReturns
  <2>2. /\ \A k \in 1 .. L : k \in 1 .. L - 1 \/ k = L
        /\ 1 .. L - 1 \subseteq 1 .. L /\ L \in 1 .. L
    <3>1. L \in Nat \ {0}
      BY <2>1
    <3> HIDE DEF L
    <3> QED
      BY <3>1
  <2>3. \A i \in DOMAIN graph[f.type] : graph[f.type][i] \in fetched
    <3>1. graph[f.type] \in Seq(Types) /\ f.next \in Nat /\ f.next > Len(graph[f.type])
      BY <1>5, <2>1 DEF FetchReturns, Calling
    <3>2. \A i \in DOMAIN graph[f.type] : i < f.next
      BY <3>1
    <3> QED
      BY <1>1, <2>1, <2>2, <3>2
  <2>4. \A u \in fetched : \/ \E k \in 1 .. L - 1 : calls'[k].type = u
                           \/ \A i \in DOMAIN graph[u] : graph[u][i] \in fetched
    BY <2>1, <2>2, <2>3 DEF WalkInv
  <2>5. UNCHANGED <<roots, walked, fetched, asked, ext, fetch>> /\ fetch # "done"
    BY <1>5 DEF FetchReturns
  <2>6. WalkInv'
    BY <2>1, <2>2, <2>4, <2>5 DEF WalkInv
  <2> QED
    BY <1>2, <2>5, <2>6
<1>6. CASE FetchEnds
  BY <1>2, <1>6 DEF FetchEnds, WalkInv
<1>7. CASE UNCHANGED fetchVars
  BY <1>2, <1>7 DEF fetchVars, WalkInv
<1> QED
  BY <1>3, <1>4, <1>5, <1>6, <1>7 DEF FetchNext

\* All that the roots can hold is marked, and nothing was asked for twice.
LEMMA WalkedAll ==
  ASSUME WalkInv, RegistryInv
  PROVE  ExtensionsFetched
<1>1. \A i, j \in DOMAIN asked : asked[i] = asked[j] => i = j
  BY DEF WalkInv
<1>2. ASSUME fetch = "done", NEW t \in Reachable \cap Extendable PROVE Complete(ext, t)
  <2>1. /\ fetched \in SUBSET Types /\ calls = <<>> /\ walked = Len(roots)
        /\ roots \in Seq(Types)
    BY <1>2 DEF WalkInv
  <2>2. \A i \in DOMAIN roots : roots[i] \in fetched
    BY <2>1 DEF WalkInv
  <2>3. \A u \in fetched : \A i \in DOMAIN graph[u] : graph[u][i] \in fetched
    BY <2>1 DEF WalkInv
  <2>4. t \in fetched
    BY <1>2, <2>1, <2>2, <2>3 DEF Reachable
  <2> QED
    BY <1>2, <2>4 DEF RegistryInv, Complete
<1> QED
  BY <1>1, <1>2 DEF ExtensionsFetched, Complete
-------------------------------------------------------------------------------
(* anyResolver. *)

\* What the steps of the resolver keep, and what the types of its state need.
ResolverSafe == ResolverTypeOK /\ LockInv /\ FoundInv /\ found \in Seq(Types)

\* Answers count for a registry, whenever they are looked at.
LEMMA AnsweredIs ==
  ASSUME UNCHANGED origins
  PROVE  \A r, t : /\ Answered(known, t)' <=> Answered(known', t)
                   /\ (known' = known => (Answered(known, t)' <=> Answered(known, t)))
  BY DEF Answered

\* A step that leaves the cache and what was found alone.
LEMMA CacheKept ==
  ASSUME FoundInv, UNCHANGED <<origins, resolved, known, found>>,
         \A g \in Goroutines : at[g] = "extensions" =>
            at'[g] = "extensions" /\ want'[g] = want[g]
  PROVE  FoundInv'
<1>1. \A i \in DOMAIN found :
         \/ found[i] \in resolved
         \/ \E g \in Goroutines : at'[g] = "extensions" /\ found[i] = want'[g]
  BY DEF FoundInv
<1>2. \A t : Answered(known, t)' <=> Answered(known, t)
  BY AnsweredIs
<1> QED
  BY <1>1, <1>2 DEF FoundInv, ResolvedOnce

\* The lock keeps the other goroutine out while the source is asked.
LEMMA ResolverStepSafe ==
  ASSUME ResolverSafe, DOMAIN want = Goroutines, UNCHANGED origins,
         origins \in (SUBSET {"server", "files"}) \ {{}},
         NEW g \in Goroutines, ResolverStep(g), want[g] \in Types
  PROVE  ResolverSafe'
<1> DEFINE At == {"out", "read", "lock", "find", "extensions", "message", "error"}
<1>1. /\ lock \in Goroutines \cup {"nobody"} /\ at \in [Goroutines -> At]
      /\ resolved \subseteq Types /\ found \in Seq(Types)
      /\ "nobody" \notin Goroutines /\ LockInv /\ FoundInv
  BY FormatsAssumption DEF ResolverSafe, ResolverTypeOK
<1>2. \A s \in At : [at EXCEPT ![g] = s] \in [Goroutines -> At]
  BY <1>1
<1>3. CASE ReadCache(g)
  <2>1. \E s \in {"message", "lock"} : at' = [at EXCEPT ![g] = s]
    BY <1>3 DEF ReadCache
  <2>2. /\ at[g] = "read" /\ lock = "nobody"
        /\ UNCHANGED <<lock, want, resolved, known, found>>
    BY <1>3 DEF ReadCache
  <2>3. at' \in [Goroutines -> At] /\ at'[g] \in {"message", "lock"}
        /\ \A h \in Goroutines : h # g => at'[h] = at[h]
    BY <1>1, <1>2, <2>1
  <2>4. LockInv'
    BY <1>1, <2>2, <2>3 DEF LockInv
  <2>5. FoundInv'
    BY <1>1, <2>2, <2>3, CacheKept
  <2> QED
    BY <1>1, <2>2, <2>3, <2>4, <2>5 DEF ResolverSafe, ResolverTypeOK
<1>4. CASE LockAndCheck(g)
  <2>1. /\ at[g] = "lock" /\ lock = "nobody"
        /\ UNCHANGED <<want, resolved, known, found>>
        /\ \/ /\ at' = [at EXCEPT ![g] = "message"] /\ lock' = "nobody"
           \/ /\ at' = [at EXCEPT ![g] = "find"] /\ lock' = g
              /\ want[g] \notin resolved
    BY <1>1, <1>4 DEF LockAndCheck, Leave
  <2>2. /\ at' \in [Goroutines -> At]
        /\ \/ at'[g] = "message" /\ lock' = "nobody"
           \/ at'[g] = "find" /\ lock' = g /\ want[g] \notin resolved
        /\ \A h \in Goroutines : h # g => at'[h] = at[h]
    BY <1>1, <1>2, <2>1
  <2>3. LockInv'
    BY <1>1, <2>1, <2>2 DEF LockInv
  <2>4. FoundInv'
    BY <1>1, <2>1, <2>2, CacheKept
  <2> QED
    BY <1>1, <2>1, <2>2, <2>3, <2>4 DEF ResolverSafe, ResolverTypeOK
<1>5. CASE FindType(g)
  <2>1. /\ at[g] = "find" /\ lock = g /\ want[g] \notin resolved
        /\ UNCHANGED <<want, resolved, known>>
    BY <1>1, <1>5 DEF FindType, LockInv
  <2>2. CASE at' = [at EXCEPT ![g] = "error"] /\ lock' = "nobody" /\ UNCHANGED found
    <3>1. /\ at' \in [Goroutines -> At] /\ at'[g] = "error"
          /\ \A h \in Goroutines : h # g => at'[h] = at[h]
      BY <1>1, <1>2, <2>2
    <3>2. LockInv'
      BY <1>1, <2>1, <2>2, <3>1 DEF LockInv
    <3>3. FoundInv'
      BY <1>1, <2>1, <2>2, <3>1, CacheKept
    <3> QED
      BY <1>1, <2>1, <2>2, <3>1, <3>2, <3>3 DEF ResolverSafe, ResolverTypeOK
  <2>3. CASE /\ at' = [at EXCEPT ![g] = "extensions"] /\ UNCHANGED lock
             /\ found' = Append(found, want[g])
    <3>1. /\ at' \in [Goroutines -> At] /\ at'[g] = "extensions"
          /\ \A h \in Goroutines : h # g => at'[h] = at[h]
      BY <1>1, <1>2, <2>3
    <3>2. LockInv'
      BY <1>1, <2>1, <2>3, <3>1 DEF LockInv
    <3>3. \A i \in DOMAIN found : found[i] \in resolved
      BY <1>1, <2>1 DEF FoundInv, LockInv
    <3>4. \A i, j \in DOMAIN found : found[i] = found[j] => i = j
      BY <1>1 DEF FoundInv, ResolvedOnce
    <3>5. /\ found' \in Seq(Types)
          /\ \A i \in DOMAIN found' : found'[i] \in resolved \cup {want[g]}
          /\ \A i, j \in DOMAIN found' : found'[i] = found'[j] => i = j
      BY <1>1, <2>1, <2>3, <3>3, <3>4, AppendNew
    <3>6. \A t : Answered(known, t)' <=> Answered(known, t)
      BY <2>1, AnsweredIs
    <3>7. FoundInv'
      BY <1>1, <2>1, <3>1, <3>5, <3>6 DEF FoundInv, ResolvedOnce
    <3> QED
      BY <1>1, <2>1, <2>3, <3>1, <3>2, <3>5, <3>7 DEF ResolverSafe, ResolverTypeOK
  <2> QED
    BY <1>5, <2>1, <2>2, <2>3 DEF FindType, Leave
<1>6. CASE AddExtensions(g)
  <2>1. /\ at[g] = "extensions" /\ lock = g /\ want[g] \notin resolved
        /\ lock' = "nobody" /\ at' = [at EXCEPT ![g] = "message"]
        /\ resolved' = resolved \cup {want[g]} /\ UNCHANGED <<want, found>>
    BY <1>1, <1>6 DEF AddExtensions, LockInv, Leave
  <2>2. /\ at' \in [Goroutines -> At] /\ at'[g] = "message"
        /\ \A h \in Goroutines : h # g => at'[h] = at[h]
    BY <1>1, <1>2, <2>1
  <2>3. LockInv'
    BY <1>1, <2>1, <2>2 DEF LockInv
  <2>4. \A i \in DOMAIN found : found[i] \in resolved \cup {want[g]}
    BY <1>1, <2>1 DEF FoundInv, LockInv
  <2>5. \A e \in known : e[1] \in resolved
    BY <1>1 DEF FoundInv
  <2>6. \A t \in resolved : Answered(known, t)
    BY <1>1 DEF FoundInv, ResolvedOnce
  <2>7. /\ \A e \in known' : e[1] \in resolved'
        /\ \A t \in resolved' : Answered(known', t)
    <3>1. CASE \E exts \in Answers(want[g]) : known' = Register(known, want[g], exts)
      <4>1. PICK exts \in Answers(want[g]) : known' = Register(known, want[g], exts)
        BY <3>1
      <4>2. \A e \in known' : e[1] \in resolved \cup {want[g]}
        BY <2>5, <4>1 DEF Register
      <4>3. Answered(known', want[g])
        BY <2>1, <2>5, <4>1, RegisterOwn DEF Complete
      <4>4. ASSUME NEW t \in resolved PROVE Answered(known', t)
        <5>1. {e \in known : e[1] = t} = {e \in known' : e[1] = t}
          BY <2>1, <4>1 DEF Register
        <5> QED
          BY <2>6, <5>1, SameAnswers
      <4> QED
        BY <2>1, <4>2, <4>3, <4>4
    <3>2. CASE MayFail /\ UNCHANGED known
      <4>1. \A e \in known : e[1] # want[g]
        BY <2>1, <2>5
      <4>2. Answered(known, want[g])
        BY <3>2, <4>1 DEF Answered, MayFail
      <4> QED
        BY <2>1, <2>5, <2>6, <3>2, <4>2
    <3> QED
      BY <1>6, <3>1, <3>2 DEF AddExtensions
  <2>8. FoundInv'
    <3>1. \A t : Answered(known, t)' <=> Answered(known', t)
      BY AnsweredIs
    <3>2. \A i, j \in DOMAIN found : found[i] = found[j] => i = j
      BY <1>1 DEF FoundInv, ResolvedOnce
    <3> QED
      BY <2>1, <2>4, <2>7, <3>1, <3>2 DEF FoundInv, ResolvedOnce
  <2> QED
    BY <1>1, <2>1, <2>2, <2>3, <2>8 DEF ResolverSafe, ResolverTypeOK
<1> QED
  BY <1>3, <1>4, <1>5, <1>6 DEF ResolverStep
-------------------------------------------------------------------------------
(* TypeOK and MessageInv in parts: what the parser, the messages that are being *)
(* parsed or printed, and the formatter need.                                   *)

SourcePart ==
    /\ origins \in (SUBSET {"server", "files"}) \ {{}}
    /\ graph \in [Types -> Seq(Types)]
    /\ stdin \in Seq(SUBSET (Fields \cup {"bad", "RS"}))

ParserPart ==
    /\ read \in 0 .. Len(stdin)
    /\ parserErr \in {"nil", "EOF", "error"}
    /\ count \in 0 .. Len(stdin) + 1
    /\ count <= IF parserErr = "nil" THEN read ELSE read + 1
    /\ supply \in {"more", "end", "failed"}

MessagePart ==
    /\ busy \subseteq Goroutines
    /\ DOMAIN current = Goroutines /\ DOMAIN unresolved = Goroutines
    /\ DOMAIN want = Goroutines
    /\ \A g \in Goroutines : unresolved[g] \subseteq current[g] \cap Types
    /\ \A g \in Goroutines :
          at[g] # "out" => g \in busy /\ want[g] \in unresolved[g]

PrinterPart ==
    /\ responses \in Seq(Responses)
    /\ raw \subseteq current["receiver"]
    /\ formatted \in Nat /\ failures \in Nat
    /\ formatted + failures =
          IF "receiver" \in busy THEN Len(responses) - 1 ELSE Len(responses)

Parts == SourcePart /\ ParserPart /\ MessagePart /\ PrinterPart

LEMMA PartsAre ==
  IInv <=> Parts /\ ResolverSafe /\ WalkInv /\ RegistryInv
<1>1. ASSUME PrinterPart PROVE formatted + failures <= Len(responses)
  <2>1. Len(responses) \in Nat /\ formatted + failures \in Int
    BY <1>1 DEF PrinterPart
  <2> QED
    BY <1>1, <2>1 DEF PrinterPart
<1> QED
  BY <1>1 DEF IInv, Parts, SourcePart, ParserPart, MessagePart, PrinterPart,
              ResolverSafe, TypeOK, MessageInv

LEMMA SourceKept ==
  ASSUME SourcePart, UNCHANGED sourceVars
  PROVE  SourcePart'
  BY DEF SourcePart, sourceVars

LEMMA ParserKept ==
  ASSUME ParserPart, UNCHANGED sourceVars, UNCHANGED parserVars
  PROVE  ParserPart'
  BY DEF ParserPart, sourceVars, parserVars

LEMMA MessageKept ==
  ASSUME MessagePart, UNCHANGED messageVars, UNCHANGED resolverVars
  PROVE  MessagePart'
  BY DEF MessagePart, messageVars, resolverVars

LEMMA PrinterKept ==
  ASSUME PrinterPart, UNCHANGED printerVars,
         current'["receiver"] = current["receiver"],
         "receiver" \in busy' <=> "receiver" \in busy
  PROVE  PrinterPart'
  BY DEF PrinterPart, printerVars

LEMMA ResolverKept ==
  ASSUME ResolverSafe, UNCHANGED sourceVars, UNCHANGED resolverVars
  PROVE  ResolverSafe'
<1>1. UNCHANGED <<origins, lock, at, want, resolved, known, found>>
  BY DEF sourceVars, resolverVars
<1>2. LockInv'
  BY <1>1 DEF ResolverSafe, LockInv
<1>3. FoundInv'
  BY <1>1, CacheKept DEF ResolverSafe
<1> QED
  BY <1>1, <1>2, <1>3 DEF ResolverSafe, ResolverTypeOK

LEMMA FetchKept ==
  ASSUME SourcePart, WalkInv, RegistryInv, UNCHANGED sourceVars, UNCHANGED fetchVars
  PROVE  WalkInv' /\ RegistryInv'
<1>1. UNCHANGED <<origins, graph>>
  BY DEF sourceVars
<1> QED
  BY <1>1, WalkStep DEF SourcePart

LEMMA SideKept ==
  ASSUME Parts, WalkInv, RegistryInv, UNCHANGED sideVars
  PROVE  SourcePart' /\ WalkInv' /\ RegistryInv' /\ UNCHANGED sourceVars
<1>1. UNCHANGED sourceVars /\ UNCHANGED fetchVars
  BY DEF sideVars
<1> QED
  BY <1>1, SourceKept, FetchKept DEF Parts

\* textRequestParser counts no more than it has read separators for, and one.
LEMMA TextStep ==
  ASSUME Parts, NextText
  PROVE  ParserPart'
<1>1. /\ read \in 0 .. Len(stdin) /\ parserErr \in {"nil", "EOF", "error"}
      /\ count \in 0 .. Len(stdin) + 1
      /\ count <= IF parserErr = "nil" THEN read ELSE read + 1
      /\ stdin \in Seq(SUBSET (Fields \cup {"bad", "RS"}))
      /\ supply \in {"more", "end", "failed"}
  BY DEF Parts, ParserPart, SourcePart
<1>2. Len(stdin) \in Nat
  BY <1>1
<1>3. UNCHANGED stdin
  BY DEF NextText, notParsing, sideVars, sourceVars
<1>4. CASE parserErr # "nil"
  BY <1>1, <1>3, <1>4 DEF NextText, ParserPart
<1>5. CASE parserErr = "nil"
  <2>1. PICK last \in 1 .. Len(stdin) + 1 :
           /\ ReadRecord(last)
           /\ \/ supply' = "failed" /\ count' = count
              \/ supply' \in {"failed", supply} /\ count' = count + 1
    BY <1>5 DEF NextText, ParseRecord, ParsedText
  <2>2. CASE last <= Len(stdin)
    <3>1. last \in read + 1 .. Len(stdin) + 1 /\ read' = last /\ parserErr' = "nil"
      BY <2>1, <2>2 DEF ReadRecord
    <3>2. /\ read' \in 0 .. Len(stdin) /\ count' \in 0 .. Len(stdin) + 1
          /\ count' <= read'
      BY <1>1, <1>2, <1>5, <2>1, <2>2, <3>1
    <3> QED
      BY <1>1, <1>3, <2>1, <3>1, <3>2 DEF ParserPart
  <2>3. CASE last > Len(stdin)
    <3>1. ~(last <= Len(stdin))
      BY <1>2, <2>3
    <3>2. read' = Len(stdin) /\ parserErr' \in {"EOF", "error"}
      BY <2>1, <2>3, <3>1 DEF ReadRecord
    <3>3. /\ read' \in 0 .. Len(stdin) /\ count' \in 0 .. Len(stdin) + 1
          /\ count' <= read' + 1
      BY <1>1, <1>2, <1>5, <2>1, <3>2
    <3> QED
      BY <1>1, <1>3, <2>1, <3>2, <3>3 DEF ParserPart
  <2> QED
    BY <1>2, <2>2, <2>3
<1> QED
  BY <1>4, <1>5

\* jsonRequestParser reads and counts one value.
LEMMA JsonStep ==
  ASSUME Parts, NextJsonFails \/ NextJson
  PROVE  ParserPart'
<1>1. /\ read \in 0 .. Len(stdin) /\ parserErr \in {"nil", "EOF", "error"}
      /\ count \in 0 .. Len(stdin) + 1
      /\ count <= IF parserErr = "nil" THEN read ELSE read + 1
      /\ stdin \in Seq(SUBSET (Fields \cup {"bad", "RS"}))
      /\ supply \in {"more", "end", "failed"}
  BY DEF Parts, ParserPart, SourcePart
<1>2. Len(stdin) \in Nat
  BY <1>1
<1>3. UNCHANGED <<stdin, parserErr>>
  BY DEF NextJson, NextJsonFails, notParsing, sideVars, sourceVars
<1>4. supply' \in {"more", "end", "failed"}
  BY <1>1 DEF NextJson, NextJsonFails
<1>5. \/ read' = read /\ count' = count
      \/ read < Len(stdin) /\ read' = read + 1 /\ count' \in {count, count + 1}
  BY DEF NextJson, NextJsonFails
<1>6. /\ read' \in 0 .. Len(stdin) /\ count' \in 0 .. Len(stdin) + 1
      /\ count' <= IF parserErr = "nil" THEN read' ELSE read' + 1
  BY <1>1, <1>2, <1>5
<1> QED
  BY <1>1, <1>3, <1>4, <1>6 DEF ParserPart

\* A goroutine that is done with an Any value is still at its message.
LEMMA BackStep ==
  ASSUME Parts, ResolverSafe, NEW g \in Goroutines, at[g] \in {"message", "error"},
         BackFromResolver(g), busy' \in {busy, busy \ {g}}
  PROVE  MessagePart' /\ ResolverSafe' /\ UNCHANGED current
<1>1. /\ at \in [Goroutines -> {"out", "read", "lock", "find", "extensions",
                                "message", "error"}]
      /\ LockInv /\ FoundInv /\ MessagePart
  BY DEF Parts, ResolverSafe, ResolverTypeOK
<1>2. /\ UNCHANGED <<origins, lock, want, resolved, known, found, current>>
      /\ at' = [at EXCEPT ![g] = "out"]
      /\ unresolved' = [unresolved EXCEPT ![g] = @ \ {want[g]}]
  BY DEF BackFromResolver, sideVars, sourceVars
<1>3. /\ DOMAIN at' = Goroutines /\ at'[g] = "out"
      /\ \A h \in Goroutines : h # g => at'[h] = at[h]
  BY <1>1, <1>2
<1>4. /\ DOMAIN unresolved' = Goroutines
      /\ unresolved'[g] \subseteq unresolved[g]
      /\ \A h \in Goroutines : h # g => unresolved'[h] = unresolved[h]
  BY <1>1, <1>2 DEF MessagePart
<1>5. MessagePart'
  BY <1>1, <1>2, <1>3, <1>4 DEF MessagePart
<1>6. LockInv'
  BY <1>1, <1>2, <1>3 DEF LockInv
<1>7. FoundInv'
  BY <1>1, <1>2, <1>3, CacheKept
<1>8. at' \in [Goroutines -> {"out", "read", "lock", "find", "extensions",
                              "message", "error"}]
  BY <1>1, <1>2
<1> QED
  BY <1>2, <1>5, <1>6, <1>7, <1>8 DEF ResolverSafe, ResolverTypeOK
-------------------------------------------------------------------------------
(* The inductive invariant. *)

LEMMA InitHolds ==
  ASSUME Init
  PROVE  IInv
<1>1. SourcePart
  <2>1. graph \in [Types -> Seq(Types)]
    BY ExtensionsAssumption DEF Init
  <2>2. stdin \in Seq(SUBSET (Fields \cup {"bad", "RS"}))
    <3>1. CASE job = "messages"
      <4>1. format \in {"json", "text"} /\ stdin \in Inputs[format]
        BY <3>1 DEF Init
      <4> QED
        BY <4>1, FormatsAssumption
    <3>2. CASE job # "messages"
      BY <3>2 DEF Init
    <3> QED
      BY <3>1, <3>2
  <2> QED
    BY <2>1, <2>2 DEF SourcePart, Init
<1>2. ParserPart
  <2>1. read = 0 /\ parserErr = "nil" /\ count = 0 /\ supply = "more"
    BY DEF Init
  <2>2. Len(stdin) \in Nat
    BY <1>1 DEF SourcePart
  <2> QED
    BY <2>1, <2>2 DEF ParserPart
<1>3. /\ busy = {} /\ current = [g \in Goroutines |-> {}]
      /\ unresolved = [g \in Goroutines |-> {}] /\ at = [g \in Goroutines |-> "out"]
      /\ want = [g \in Goroutines |-> "nil"] /\ lock = "nobody" /\ resolved = {}
      /\ known = {} /\ found = <<>>
  BY DEF Init, ResolverInit
<1>4. MessagePart
  BY <1>3 DEF MessagePart
<1>5. PrinterPart
  <2>1. responses = <<>> /\ raw = {} /\ formatted = 0 /\ failures = 0
    BY DEF Init
  <2>2. responses \in Seq(Responses) /\ Len(responses) = 0
    BY <2>1
  <2> QED
    BY <1>3, <2>1, <2>2 DEF PrinterPart
<1>6. ResolverSafe
  <2>1. LockInv
    BY <1>3, FormatsAssumption DEF LockInv
  <2>2. FoundInv
    BY <1>3 DEF FoundInv, ResolvedOnce
  <2>3. found \in Seq(Types)
    BY <1>3
  <2> QED
    BY <1>3, <2>1, <2>2, <2>3 DEF ResolverSafe, ResolverTypeOK
<1>7. /\ walked = 0 /\ calls = <<>> /\ fetched = {} /\ asked = <<>> /\ ext = {}
      /\ roots \in Seq(Types)
      /\ fetch = "walking" \/ (fetch = "done" /\ roots = <<>>)
  <2>1. CASE job = "extensions"
    <3>1. roots \in {<<t>> : t \in Types} \cup (Types \X Types)
      BY <2>1 DEF Init, FetchInit
    <3>2. \A t \in Types : <<t>> \in Seq(Types)
      OBVIOUS
    <3>3. \A t, u \in Types : <<t, u>> \in Seq(Types)
      OBVIOUS
    <3>4. roots \in Seq(Types)
      <4>1. CASE roots \in {<<t>> : t \in Types}
        BY <3>2, <4>1
      <4>2. CASE roots \in Types \X Types
        <5>1. roots[1] \in Types /\ roots[2] \in Types /\ roots = <<roots[1], roots[2]>>
          BY <4>2
        <5> QED
          BY <3>3, <5>1
      <4> QED
        BY <3>1, <4>1, <4>2
    <3> QED
      BY <2>1, <3>4 DEF Init, FetchInit
  <2>2. CASE job # "extensions"
    BY <2>2 DEF Init
  <2> QED
    BY <2>1, <2>2
<1>8. WalkInv
  <2>1. \A i \in DOMAIN roots : ~(i <= walked)
    <3>1. DOMAIN roots = 1 .. Len(roots)
      BY <1>7
    <3> QED
      BY <1>7, <3>1
  <2>2. calls \in Seq([type : Types, next : Nat \ {0}]) /\ asked \in Seq(Types)
        /\ DOMAIN calls = {} /\ DOMAIN asked = {}
    BY <1>7
  <2>3. fetch = "done" => walked = Len(roots)
    BY <1>7
  <2> QED
    BY <1>7, <2>1, <2>2, <2>3 DEF WalkInv
<1>9. RegistryInv
  BY <1>7 DEF RegistryInv
<1> QED
  BY <1>1, <1>2, <1>4, <1>5, <1>6, <1>8, <1>9, PartsAre DEF Parts

LEMMA NextKeeps ==
  ASSUME IInv, [Next]_vars
  PROVE  IInv'
<1>1. /\ Parts /\ ResolverSafe /\ WalkInv /\ RegistryInv
      /\ SourcePart /\ ParserPart /\ MessagePart /\ PrinterPart
  BY PartsAre DEF Parts
<1>a. "sender" \in Goroutines /\ "receiver" \in Goroutines
  BY FormatsAssumption
<1>b. at \in [Goroutines -> {"out", "read", "lock", "find", "extensions",
                             "message", "error"}]
  BY <1>1 DEF ResolverSafe, ResolverTypeOK
<1> DEFINE Holds == /\ SourcePart /\ ParserPart /\ MessagePart /\ PrinterPart
                    /\ ResolverSafe /\ WalkInv /\ RegistryInv
<1> SUFFICES Holds'
  BY PartsAre, PTL DEF Parts
<1>2. ASSUME UNCHANGED sourceVars, UNCHANGED callVars, WalkInv', RegistryInv'
      PROVE  Holds'
  <2>1. /\ UNCHANGED parserVars /\ UNCHANGED messageVars /\ UNCHANGED printerVars
        /\ UNCHANGED resolverVars /\ UNCHANGED <<busy, current>>
    BY <1>2 DEF callVars, messageVars
  <2> QED
    BY <1>1, <1>2, <2>1, SourceKept, ParserKept, MessageKept, PrinterKept, ResolverKept
<1>3. ASSUME UNCHANGED notParsing, ParserPart' PROVE Holds'
  <2>1. /\ UNCHANGED sideVars /\ UNCHANGED messageVars /\ UNCHANGED printerVars
        /\ UNCHANGED resolverVars /\ UNCHANGED <<busy, current>>
    BY <1>3 DEF notParsing, messageVars
  <2> QED
    BY <1>1, <1>3, <2>1, SideKept, MessageKept, PrinterKept, ResolverKept
<1>4. CASE FetchExtensions
  <2>1. FetchNext /\ UNCHANGED sourceVars /\ UNCHANGED callVars
    BY <1>4 DEF FetchExtensions
  <2>2. UNCHANGED <<origins, graph>>
    BY <2>1 DEF sourceVars
  <2> QED
    BY <1>1, <1>2, <2>1, <2>2, WalkStep DEF SourcePart
<1>5. CASE MakeTemplate \/ UNCHANGED vars
  <2>1. UNCHANGED sourceVars /\ UNCHANGED callVars /\ UNCHANGED fetchVars
    BY <1>5 DEF MakeTemplate, vars
  <2> QED
    BY <1>1, <1>2, <2>1, FetchKept
<1>6. CASE NextText
  BY <1>1, <1>3, <1>6, TextStep DEF NextText
<1>7. CASE NextJsonFails
  BY <1>1, <1>3, <1>7, JsonStep DEF NextJsonFails
<1>8. CASE NextJson
  <2>1. /\ UNCHANGED sideVars /\ UNCHANGED printerVars /\ UNCHANGED resolverVars
        /\ UNCHANGED <<at, want>> /\ "sender" \notin busy
        /\ busy' = busy \cup {"sender"}
        /\ current' = [current EXCEPT !["sender"] = stdin[read + 1]]
        /\ unresolved' =
              [unresolved EXCEPT !["sender"] = stdin[read + 1] \cap Types]
    BY <1>8 DEF NextJson, Calls, resolverVars
  <2>2. current'["receiver"] = current["receiver"]
        /\ ("receiver" \in busy' <=> "receiver" \in busy)
    BY <1>a, <1>1, <2>1 DEF MessagePart
  <2>3. MessagePart'
    <3>1. /\ DOMAIN current' = Goroutines /\ DOMAIN unresolved' = Goroutines
          /\ unresolved'["sender"] \subseteq current'["sender"] \cap Types
          /\ \A g \in Goroutines : g # "sender" =>
                unresolved'[g] = unresolved[g] /\ current'[g] = current[g]
      BY <1>a, <1>1, <2>1 DEF MessagePart
    <3>2. at["sender"] = "out"
      BY <1>a, <1>1, <2>1 DEF MessagePart
    <3> QED
      BY <1>a, <1>1, <2>1, <3>1, <3>2 DEF MessagePart
  <2> QED
    BY <1>1, <1>8, <2>1, <2>2, <2>3, JsonStep, SideKept, PrinterKept, ResolverKept
<1>9. CASE ParsedJson
  <2>1. /\ UNCHANGED sideVars /\ UNCHANGED printerVars /\ UNCHANGED resolverVars
        /\ UNCHANGED <<at, want, current, unresolved>> /\ at["sender"] = "out"
        /\ busy' = busy \ {"sender"}
        /\ UNCHANGED <<read, parserErr, count, supply>>
    BY <1>9 DEF ParsedJson, resolverVars
  <2>2. "receiver" \in busy' <=> "receiver" \in busy
    BY <2>1
  <2>3. MessagePart'
    BY <1>1, <2>1 DEF MessagePart
  <2>4. SourcePart' /\ WalkInv' /\ RegistryInv' /\ UNCHANGED sourceVars
    BY <1>1, <2>1, SideKept
  <2>5. ParserPart'
    BY <1>1, <2>1, <2>4 DEF ParserPart, sourceVars
  <2> QED
    BY <1>1, <2>1, <2>2, <2>3, <2>4, <2>5, PrinterKept, ResolverKept
<1>10. CASE \E g \in Goroutines : ResolveAny(g)
  <2>1. PICK g \in Goroutines : ResolveAny(g)
    BY <1>10
  <2>2. PICK t \in unresolved[g] : Resolve(g, t)
    BY <2>1 DEF ResolveAny
  <2>3. /\ UNCHANGED sideVars /\ UNCHANGED parserVars /\ UNCHANGED messageVars
        /\ UNCHANGED printerVars /\ g \in busy /\ at[g] = "out"
        /\ UNCHANGED <<busy, current, unresolved, lock, resolved, known, found>>
        /\ at' = [at EXCEPT ![g] = "read"] /\ want' = [want EXCEPT ![g] = t]
    BY <2>1, <2>2 DEF ResolveAny, Resolve, messageVars
  <2>4. /\ DOMAIN want' = Goroutines /\ want'[g] = t /\ at'[g] = "read"
        /\ \A h \in Goroutines : h # g => at'[h] = at[h] /\ want'[h] = want[h]
    BY <1>1, <1>b, <2>3 DEF MessagePart
  <2>5. at' \in [Goroutines -> {"out", "read", "lock", "find", "extensions",
                                "message", "error"}]
    BY <1>b, <2>3
  <2>6. MessagePart'
    BY <1>1, <2>2, <2>3, <2>4 DEF MessagePart
  <2>7. SourcePart' /\ WalkInv' /\ RegistryInv' /\ UNCHANGED sourceVars
    BY <1>1, <2>3, SideKept
  <2>8. LockInv'
    BY <1>1, <2>3, <2>4, FormatsAssumption DEF ResolverSafe, LockInv
  <2>9. FoundInv'
    BY <1>1, <2>3, <2>4, <2>7, CacheKept DEF ResolverSafe, sourceVars
  <2>10. ResolverSafe'
    BY <1>1, <2>3, <2>5, <2>8, <2>9 DEF ResolverSafe, ResolverTypeOK
  <2> QED
    BY <1>1, <2>3, <2>6, <2>7, <2>10, ParserKept, PrinterKept
<1>11. CASE \E g \in Goroutines : InResolver(g)
  <2>1. PICK g \in Goroutines : InResolver(g)
    BY <1>11
  <2>2. /\ UNCHANGED sideVars /\ UNCHANGED parserVars /\ UNCHANGED messageVars
        /\ UNCHANGED printerVars /\ UNCHANGED <<busy, current, unresolved>>
        /\ ResolverStep(g)
    BY <2>1 DEF InResolver, messageVars
  <2>3. SourcePart' /\ WalkInv' /\ RegistryInv' /\ UNCHANGED sourceVars
    BY <1>1, <2>2, SideKept
  <2>4. /\ at[g] # "out" /\ UNCHANGED want
        /\ \E s : at' = [at EXCEPT ![g] = s]
    BY <2>2 DEF ResolverStep, ReadCache, LockAndCheck, FindType, AddExtensions, Leave
  <2>5. \A h \in Goroutines : h # g => at'[h] = at[h]
    BY <1>b, <2>4
  <2>6. MessagePart'
    BY <1>1, <2>2, <2>4, <2>5 DEF MessagePart
  <2>7. want[g] \in Types
    BY <1>1, <2>4 DEF MessagePart
  <2>8. ResolverSafe'
    BY <1>1, <2>2, <2>3, <2>7, ResolverStepSafe DEF MessagePart, SourcePart, sourceVars
  <2> QED
    BY <1>1, <2>2, <2>3, <2>6, <2>8, ParserKept, PrinterKept
<1>12. CASE \E g \in Goroutines : AnyResolved(g)
  <2>1. PICK g \in Goroutines : AnyResolved(g)
    BY <1>12
  <2>2. /\ at[g] = "message" /\ BackFromResolver(g) /\ UNCHANGED parserVars
        /\ busy' = busy /\ UNCHANGED printerVars /\ UNCHANGED sideVars
    BY <2>1 DEF AnyResolved, BackFromResolver
  <2>3. MessagePart' /\ ResolverSafe' /\ UNCHANGED current
    BY <1>1, <2>2, BackStep
  <2> QED
    BY <1>1, <2>2, <2>3, SideKept, ParserKept, PrinterKept
<1>13. CASE RequestUnresolved
  <2>1. /\ at["sender"] = "error" /\ BackFromResolver("sender") /\ supply' = "failed"
        /\ busy' = busy \ {"sender"} /\ UNCHANGED <<read, parserErr, count>>
        /\ UNCHANGED printerVars /\ UNCHANGED sideVars
    BY <1>13 DEF RequestUnresolved, BackFromResolver
  <2>2. MessagePart' /\ ResolverSafe' /\ UNCHANGED current
    BY <1>a, <1>1, <2>1, BackStep
  <2>3. "receiver" \in busy' <=> "receiver" \in busy
    BY <2>1
  <2>4. SourcePart' /\ WalkInv' /\ RegistryInv' /\ UNCHANGED sourceVars
    BY <1>1, <2>1, SideKept
  <2>5. ParserPart'
    BY <1>1, <2>1, <2>4 DEF ParserPart, sourceVars
  <2> QED
    BY <1>1, <2>1, <2>2, <2>3, <2>4, <2>5, PrinterKept
<1>14. CASE ResponseUnresolved
  <2>1. /\ at["receiver"] = "error" /\ BackFromResolver("receiver")
        /\ raw' = raw \cup ({want["receiver"]} \ Registered)
        /\ UNCHANGED parserVars /\ UNCHANGED <<busy, responses, formatted, failures>>
        /\ UNCHANGED sideVars
    BY <1>14 DEF ResponseUnresolved, BackFromResolver
  <2>2. MessagePart' /\ ResolverSafe' /\ UNCHANGED current
    BY <1>a, <1>1, <2>1, BackStep
  <2>3. want["receiver"] \in current["receiver"]
    BY <1>a, <1>1, <2>1 DEF MessagePart
  <2>4. PrinterPart'
    BY <1>1, <2>1, <2>2, <2>3 DEF PrinterPart
  <2> QED
    BY <1>1, <2>1, <2>2, <2>4, SideKept, ParserKept
<1>15. CASE OnReceiveResponse
  <2>1. PICK m \in Responses :
          /\ responses' = Append(responses, m)
          /\ current' = [current EXCEPT !["receiver"] = m]
          /\ \E u \in SUBSET (m \cap Types) :
                unresolved' = [unresolved EXCEPT !["receiver"] = u]
    BY <1>15 DEF OnReceiveResponse
  <2>2. /\ UNCHANGED sideVars /\ UNCHANGED parserVars /\ UNCHANGED resolverVars
        /\ UNCHANGED <<at, want, formatted, failures>> /\ "receiver" \notin busy
        /\ busy' = busy \cup {"receiver"} /\ raw' = {}
    BY <1>15 DEF OnReceiveResponse, resolverVars
  <2>3. /\ DOMAIN current' = Goroutines /\ DOMAIN unresolved' = Goroutines
        /\ unresolved'["receiver"] \subseteq current'["receiver"] \cap Types
        /\ \A g \in Goroutines : g # "receiver" =>
              unresolved'[g] = unresolved[g] /\ current'[g] = current[g]
    BY <1>a, <1>1, <2>1 DEF MessagePart
  <2>4. at["receiver"] = "out"
    BY <1>a, <1>1, <2>2 DEF MessagePart
  <2>5. MessagePart'
    BY <1>a, <1>1, <2>2, <2>3, <2>4 DEF MessagePart
  <2>6. PrinterPart'
    <3>1. responses' \in Seq(Responses) /\ Len(responses') = Len(responses) + 1
          /\ Len(responses) \in Nat
      BY <1>1, <2>1 DEF PrinterPart
    <3>2. formatted + failures = Len(responses') - 1
      BY <1>1, <2>2, <3>1 DEF PrinterPart
    <3> QED
      BY <1>1, <2>2, <3>1, <3>2 DEF PrinterPart
  <2> QED
    BY <1>1, <2>2, <2>5, <2>6, SideKept, ParserKept, ResolverKept
<1>16. CASE PrintResponse \/ PrintFails
  <2>1. PICK text : Shown(text)
    BY <1>16 DEF PrintResponse, PrintFails
  <2>2. /\ UNCHANGED sideVars /\ UNCHANGED parserVars /\ UNCHANGED resolverVars
        /\ UNCHANGED <<responses, raw, current, unresolved, at, want>>
        /\ "receiver" \in busy /\ at["receiver"] = "out"
        /\ busy' = busy \ {"receiver"}
    BY <2>1 DEF Shown, resolverVars
  <2>3. \/ formatted' = formatted + 1 /\ failures' = failures
        \/ formatted' = formatted /\ failures' = failures + 1
    BY <1>16 DEF PrintResponse, PrintFails
  <2>4. MessagePart'
    BY <1>1, <2>2 DEF MessagePart
  <2>5. PrinterPart'
    <3>1. /\ formatted \in Nat /\ failures \in Nat /\ Len(responses) \in Nat
          /\ formatted + failures = Len(responses) - 1
      BY <1>1, <2>2 DEF PrinterPart
    <3>2. formatted' \in Nat /\ failures' \in Nat
          /\ formatted' + failures' = Len(responses)
      BY <2>3, <3>1
    <3> QED
      BY <1>1, <2>2, <3>2 DEF PrinterPart
  <2> QED
    BY <1>1, <2>2, <2>4, <2>5, SideKept, ParserKept, ResolverKept
<1>17. CASE Terminated
  BY <1>5, <1>17 DEF Terminated
<1> QED
  BY <1>4, <1>5, <1>6, <1>7, <1>8, <1>9, <1>10, <1>11, <1>12, <1>13, <1>14, <1>15,
     <1>16, <1>17 DEF Next

THEOREM Inductive == Spec => []IInv
  BY InitHolds, NextKeeps, PTL DEF Spec

\* The state is well formed: a parser is never ahead of its input, what is being
\* resolved belongs to the message at hand, and no response is counted twice.
THEOREM TypeCorrect == Spec => []TypeOK
  BY Inductive, PTL DEF IInv

\* Through cycles and diamonds of types fetchAllExtensions asks for each type once,
\* and when it ends it knows the extensions of all types that the call can hold.
THEOREM ExtensionsAreFetched == Spec => []ExtensionsFetched
<1>1. IInv => ExtensionsFetched
  BY WalkedAll DEF IInv
<1> QED
  BY Inductive, <1>1, PTL

\* The two looks at the cache of anyResolver and its lock: each type is found once
\* for both goroutines, and it is not cached before its extensions are known.
THEOREM TypesFoundOnce == Spec => []ResolvedOnce
<1>1. IInv => ResolvedOnce
  BY DEF IInv, FoundInv
<1> QED
  BY Inductive, <1>1, PTL
-------------------------------------------------------------------------------
(* The parsers as request suppliers. *)

LEMMA SeparatorsAre ==
  ASSUME NEW text, NEW k \in Nat
  PROVE  /\ IsFiniteSet({j \in 1 .. k : text[j] = RS})
         /\ SeparatorsIn(text, k) \in Nat
<1>1. IsFiniteSet(1 .. k)
  BY FS_Interval
<1>2. IsFiniteSet({j \in 1 .. k : text[j] = RS})
  BY <1>1, FS_Subset
<1> QED
  BY <1>2, FS_CardinalityType DEF SeparatorsIn

\* The separators up to one place and up to a later one.
LEMMA SeparatorsGrow ==
  ASSUME NEW text, NEW k \in Nat, NEW m \in Nat, k <= m
  PROVE  /\ SeparatorsIn(text, k) <= SeparatorsIn(text, m)
         /\ (\A j \in k + 1 .. m : text[j] # RS)
               => SeparatorsIn(text, m) = SeparatorsIn(text, k)
         /\ (text[m] = RS /\ k < m)
               => SeparatorsIn(text, k) + 1 <= SeparatorsIn(text, m)
         /\ (text[m] = RS /\ k < m /\ \A j \in k + 1 .. m - 1 : text[j] # RS)
               => SeparatorsIn(text, m) = SeparatorsIn(text, k) + 1
<1> DEFINE A == {j \in 1 .. k : text[j] = RS}
           B == {j \in 1 .. m : text[j] = RS}
<1>1. /\ SeparatorsIn(text, k) = Cardinality(A) /\ SeparatorsIn(text, m) = Cardinality(B)
      /\ Cardinality(A) \in Nat /\ Cardinality(B) \in Nat
      /\ IsFiniteSet(A) /\ IsFiniteSet(B)
  BY SeparatorsAre DEF SeparatorsIn
<1>2. A \subseteq B
  OBVIOUS
<1>3. ASSUME \A j \in k + 1 .. m : text[j] # RS PROVE B = A
  <2>1. \A j \in 1 .. m : j \in 1 .. k \/ j \in k + 1 .. m
    OBVIOUS
  <2> QED
    BY <1>2, <1>3, <2>1
<1>4. ASSUME text[m] = RS, k < m PROVE m \in B /\ m \notin A
  BY <1>4
<1>5. ASSUME text[m] = RS, k < m, \A j \in k + 1 .. m - 1 : text[j] # RS
      PROVE  B = A \cup {m}
  <2>1. \A j \in 1 .. m : j \in 1 .. k \/ j \in k + 1 .. m - 1 \/ j = m
    OBVIOUS
  <2> QED
    BY <1>2, <1>4, <1>5, <2>1
<1> HIDE DEF A, B
<1>6. Cardinality(A) <= Cardinality(B)
  BY <1>1, <1>2, FS_Subset
<1>7. ASSUME m \in B, m \notin A
      PROVE  /\ Cardinality(A \cup {m}) = Cardinality(A) + 1
             /\ Cardinality(A) + 1 <= Cardinality(B)
  <2>1. Cardinality(A \cup {m}) = Cardinality(A) + 1
    BY <1>1, <1>7, FS_AddElement
  <2>2. A \cup {m} \subseteq B
    BY <1>2, <1>7
  <2>3. Cardinality(A \cup {m}) <= Cardinality(B)
    BY <1>1, <2>2, FS_Subset
  <2> QED
    BY <2>1, <2>3
<1> QED
  BY <1>1, <1>3, <1>4, <1>5, <1>6, <1>7

\* What textRequestParser takes for a record, from a separator or the beginning to
\* the next separator or the end, is the record that Records has there.
LEMMA RecordIs ==
  ASSUME NEW n \in Nat, NEW text, NEW r \in 0 .. n, r = 0 \/ text[r] = RS,
         NEW last \in r + 1 .. n + 1, last <= n => text[last] = RS,
         \A k \in r + 1 .. last - 1 : text[k] # RS
  PROVE  /\ {k \in 1 .. n : text[k] # RS
                              /\ SeparatorsIn(text, k) = SeparatorsIn(text, r)}
              = r + 1 .. last - 1
         /\ last <= n => /\ SeparatorsIn(text, last) = SeparatorsIn(text, r) + 1
                         /\ SeparatorsIn(text, last) <= SeparatorsIn(text, n)
         /\ last = n + 1 => SeparatorsIn(text, n) = SeparatorsIn(text, r)
<1> DEFINE c == SeparatorsIn(text, r)
<1>0. r \in Nat /\ last \in Nat /\ r < last /\ last <= n + 1 /\ r <= n
  OBVIOUS
<1>1. c \in Nat /\ \A k \in Nat : SeparatorsIn(text, k) \in Nat
  BY <1>0, SeparatorsAre
<1>2. last <= n => /\ SeparatorsIn(text, last) = c + 1
                   /\ SeparatorsIn(text, last) <= SeparatorsIn(text, n)
  BY <1>0, SeparatorsGrow
<1>3. last = n + 1 => SeparatorsIn(text, n) = c
  BY <1>0, SeparatorsGrow
<1>4. \A k \in r + 1 .. last - 1 : SeparatorsIn(text, k) = c /\ k \in 1 .. n
  <2> SUFFICES ASSUME NEW k \in r + 1 .. last - 1
               PROVE  SeparatorsIn(text, k) = c /\ k \in 1 .. n
    OBVIOUS
  <2>1. k \in Nat /\ r <= k /\ k \in 1 .. n
    BY <1>0
  <2>2. \A j \in r + 1 .. k : text[j] # RS
    BY <1>0, <2>1
  <2> QED
    BY <1>0, <2>1, <2>2, SeparatorsGrow
<1>5. \A k \in 1 .. n : k \in r + 1 .. last - 1 \/ k <= r \/ k >= last
  BY <1>0
<1>6. ASSUME NEW k \in 1 .. n, k <= r, text[k] # RS PROVE SeparatorsIn(text, k) # c
  <2>1. k \in Nat /\ k < r /\ text[r] = RS
    BY <1>0, <1>6
  <2>2. SeparatorsIn(text, k) + 1 <= c
    BY <1>0, <2>1, SeparatorsGrow
  <2> QED
    BY <1>1, <2>1, <2>2
<1>7. ASSUME NEW k \in 1 .. n, k >= last PROVE SeparatorsIn(text, k) # c
  <2>1. k \in Nat /\ last <= k /\ last <= n
    BY <1>0, <1>7
  <2>2. SeparatorsIn(text, last) <= SeparatorsIn(text, k)
    BY <1>0, <2>1, SeparatorsGrow
  <2> QED
    BY <1>1, <1>2, <2>1, <2>2
<1> QED
  BY <1>2, <1>3, <1>4, <1>5, <1>6, <1>7

\* The messages of the input, as RequestSupplier sees them.
LEMMA InputIs ==
  ASSUME SourcePart
  PROVE  /\ format = "json" => Input = stdin
         /\ format = "text" =>
              LET n == SeparatorsIn(stdin, Len(stdin)) IN
              /\ n \in Nat
              /\ Len(Input) = IF readable THEN n + 1 ELSE n
              /\ \A i \in 1 .. Len(Input) :
                    Input[i] = UNION {stdin[k] : k \in {k \in 1 .. Len(stdin) :
                        stdin[k] # RS /\ SeparatorsIn(stdin, k) = i - 1}}
<1>1. format = "json" => Input = stdin
  BY DEF Input, Records
<1>2. ASSUME format = "text"
      PROVE  LET n == SeparatorsIn(stdin, Len(stdin)) IN
              /\ n \in Nat
              /\ Len(Input) = IF readable THEN n + 1 ELSE n
              /\ \A i \in 1 .. Len(Input) :
                    Input[i] = UNION {stdin[k] : k \in {k \in 1 .. Len(stdin) :
                        stdin[k] # RS /\ SeparatorsIn(stdin, k) = i - 1}}
  <2> DEFINE N == SeparatorsIn(stdin, Len(stdin))
             M == N + 1
             Rec(i) == UNION {stdin[k] : k \in {k \in 1 .. Len(stdin) :
                              stdin[k] # RS /\ SeparatorsIn(stdin, k) = i - 1}}
             R == [i \in 1 .. M |-> Rec(i)]
             S == {Rec(i) : i \in 1 .. M}
  <2>1. Len(stdin) \in Nat /\ DOMAIN stdin = 1 .. Len(stdin)
    BY DEF SourcePart
  <2>2. N \in Nat
    BY <2>1, SeparatorsAre
  <2>3. Records(stdin) = R
    BY <1>2, <2>1 DEF Records
  <2>4. Input = IF readable THEN R ELSE SubSeq(R, 1, Len(R) - 1)
    BY <1>2, <2>3 DEF Input
  <2> HIDE DEF Rec, N
  <2>5. R \in [1 .. M -> S] /\ M \in Nat /\ \A i \in 1 .. M : R[i] = Rec(i)
    BY <2>2
  <2> HIDE DEF R, S, M
  <2>6. R \in Seq(S) /\ Len(R) = M
    BY <2>5, LenProperties
  <2>7. /\ Len(SubSeq(R, 1, Len(R) - 1)) = M - 1
        /\ \A i \in 1 .. M - 1 : SubSeq(R, 1, Len(R) - 1)[i] = R[i]
    BY <2>2, <2>6 DEF M
  <2>8. Len(Input) = IF readable THEN N + 1 ELSE N
    BY <2>2, <2>4, <2>6, <2>7 DEF M
  <2>9. \A i \in 1 .. Len(Input) : Input[i] = Rec(i)
    <3>1. CASE readable
      BY <2>4, <2>5, <2>6, <3>1
    <3>2. CASE ~readable
      <4>1. M - 1 = N /\ \A i \in 1 .. M - 1 : i \in 1 .. M
        BY <2>2 DEF M
      <4> QED
        BY <2>4, <2>5, <2>7, <2>8, <3>2, <4>1
    <3> QED
      BY <3>1, <3>2
  <2> QED
    BY <2>2, <2>8, <2>9 DEF Rec, N
<1> QED
  BY <1>1, <1>2

\* The steps of RequestSupplier, as the parsers take them.
LEMMA InputKept ==
  ASSUME UNCHANGED sourceVars
  PROVE  UNCHANGED <<Input, Certain, readable>>
  BY DEF sourceVars, Input, Certain, Records, MayLack

LEMMA YieldIs ==
  ASSUME UNCHANGED sourceVars, supply = "more", supply' = "more",
         NEW m, Len(requests) < Len(Input), m = Input[Len(requests) + 1],
         "bad" \notin m, requests' = Append(requests, m)
  PROVE  Supplier!Next
  BY InputKept DEF Supplier!Next, Supplier!Yield, Supplier!Left

LEMMA FailIs ==
  ASSUME UNCHANGED sourceVars, supply = "more", supply' = "failed", requests' = requests,
         \/ /\ Len(requests) < Len(Input)
            /\ ~(Input[Len(requests) + 1] \subseteq Certain)
         \/ ~(Len(requests) < Len(Input)) /\ ~readable
  PROVE  Supplier!Next
  BY InputKept DEF Supplier!Next, Supplier!Fail, Supplier!Left

LEMMA EndIs ==
  ASSUME UNCHANGED sourceVars, supply = "more", supply' = "end", requests' = requests,
         ~(Len(requests) < Len(Input)), readable
  PROVE  Supplier!Next
  BY InputKept DEF Supplier!Next, Supplier!End, Supplier!Left

Supplied == SupplyInv' /\ (Supplier!Next \/ UNCHANGED Supplier!vars)

\* The receiver, the resolver and all that is no call leave the parser alone.
LEMMA SupplyKept ==
  ASSUME SupplyInv, UNCHANGED sourceVars,
         UNCHANGED <<requests, supply, read, parserErr>>,
         current'["sender"] = current["sender"],
         "sender" \in busy' <=> "sender" \in busy,
         at'["sender"] = "error" => MayLack(want["sender"])'
  PROVE  Supplied
<1>1. UNCHANGED <<format, stdin, readable, origins>>
  BY DEF sourceVars
<1>2. SupplyInv'
  BY <1>1 DEF SupplyInv
<1> QED
  BY <1>2, InputKept DEF Supplied, Supplier!vars

\* textRequestParser.Next.
LEMMA TextSupply ==
  ASSUME SourcePart, ParserPart, SupplyInv, NextText
  PROVE  Supplied
<1> DEFINE L == Len(stdin)
           k == Len(requests)
           Sep(i) == SeparatorsIn(stdin, i)
<1>1. /\ format = "text" /\ supply = "more" /\ "sender" \notin busy
      /\ UNCHANGED sourceVars /\ UNCHANGED <<origins, format, stdin, readable>>
      /\ UNCHANGED <<busy, current, at, want>>
  BY DEF NextText, Calls, notParsing, sideVars, sourceVars, messageVars, resolverVars
<1>2. /\ L \in Nat /\ read \in 0 .. L /\ k \in Nat
      /\ requests \in Seq(SUBSET (Fields \cup {"bad", "RS"}))
      /\ DOMAIN stdin = 1 .. L
      /\ at["sender"] = "error" => MayLack(want["sender"])
  BY DEF SourcePart, ParserPart, SupplyInv
<1>3. \/ /\ parserErr = "nil" /\ (read = 0 \/ stdin[read] = RS) /\ k = Sep(read)
      \/ parserErr = "EOF" /\ readable /\ k = Sep(L) + 1
  BY <1>1 DEF SupplyInv
<1>4. /\ Sep(L) \in Nat /\ Len(Input) = IF readable THEN Sep(L) + 1 ELSE Sep(L)
      /\ \A i \in 1 .. Len(Input) :
            Input[i] = UNION {stdin[j] : j \in {j \in 1 .. L :
                                   stdin[j] # RS /\ Sep(j) = i - 1}}
  BY <1>1, InputIs
<1>5. Certain = Fields /\ "bad" \notin Fields
  BY <1>1, FormatsAssumption DEF Certain
<1>6. CASE parserErr = "EOF"
  <2>1. supply' = "end" /\ UNCHANGED <<read, parserErr, count, requests>>
    BY <1>6 DEF NextText
  <2>2. ~(k < Len(Input)) /\ readable
    BY <1>2, <1>3, <1>4, <1>6
  <2>3. SupplyInv'
    BY <1>1, <1>2, <2>1 DEF SupplyInv, MayLack
  <2> QED
    BY <1>1, <2>1, <2>2, <2>3, EndIs DEF Supplied
<1>7. CASE parserErr = "nil"
  <2>1. PICK last \in 1 .. L + 1 :
           /\ ReadRecord(last)
           /\ IF parserErr' = "error"
              THEN supply' = "failed" /\ UNCHANGED <<count, requests>>
              ELSE ParsedText(UNION {stdin[j] : j \in read + 1 .. last - 1})
    BY <1>7 DEF NextText, ParseRecord
  <2> DEFINE record == UNION {stdin[j] : j \in read + 1 .. last - 1}
  <2>2. /\ last \in read + 1 .. L + 1 /\ (last <= L => stdin[last] = RS)
        /\ \A j \in read + 1 .. last - 1 : stdin[j] # RS
        /\ read' = IF last <= L THEN last ELSE L
        /\ parserErr' = CASE last <= L -> "nil"
                          [] last > L /\ readable -> "EOF"
                          [] OTHER -> "error"
    BY <2>1 DEF ReadRecord
  <2>3. /\ read = 0 \/ stdin[read] = RS
        /\ k = Sep(read)
    BY <1>3, <1>7
  <2>4. /\ {j \in 1 .. L : stdin[j] # RS /\ Sep(j) = Sep(read)} = read + 1 .. last - 1
        /\ last <= L => Sep(last) = k + 1 /\ Sep(last) <= Sep(L)
        /\ last = L + 1 => Sep(L) = k
    <3>1. /\ L \in Nat /\ read \in 0 .. L /\ (read = 0 \/ stdin[read] = RS)
          /\ last \in read + 1 .. L + 1 /\ (last <= L => stdin[last] = RS)
          /\ \A j \in read + 1 .. last - 1 : stdin[j] # RS
      BY <1>2, <2>2, <2>3
    <3> HIDE DEF L
    <3>2. /\ {j \in 1 .. L : stdin[j] # RS /\ Sep(j) = Sep(read)}
                = read + 1 .. last - 1
          /\ last <= L => Sep(last) = Sep(read) + 1 /\ Sep(last) <= Sep(L)
          /\ last = L + 1 => Sep(L) = Sep(read)
      BY ONLY <3>1, RecordIs
    <3> HIDE DEF Sep, k
    <3> QED
      BY ONLY <2>3, <3>2, <1>2
  <2> HIDE DEF Sep, L, k
  <2>5. ASSUME k < Len(Input) PROVE Input[k + 1] = record
    <3>1. k + 1 \in 1 .. Len(Input) /\ (k + 1) - 1 = k
      BY <1>2, <1>4, <2>5
    <3> QED
      BY <1>4, <2>3, <2>4, <3>1
  <2>6. record \in SUBSET (Fields \cup {"bad", "RS"})
    <3>1. \A j \in read + 1 .. last - 1 : j \in 1 .. L
      BY <1>2, <2>2
    <3>2. \A j \in 1 .. L : stdin[j] \in SUBSET (Fields \cup {"bad", "RS"})
      BY <1>2 DEF SourcePart
    <3> QED
      BY <3>1, <3>2
  <2>7. CASE last = L + 1 /\ ~readable
    <3>1. parserErr' = "error"
      BY <1>2, <2>2, <2>7
    <3>2. supply' = "failed" /\ requests' = requests
      BY <2>1, <3>1
    <3>3. ~(k < Len(Input))
      BY <1>2, <1>4, <2>4, <2>7
    <3>4. SupplyInv'
      BY <1>1, <1>2, <3>2 DEF SupplyInv, MayLack
    <3> QED
      BY <1>1, <2>7, <3>2, <3>3, <3>4, FailIs DEF Supplied, k
  <2>8. CASE last <= L \/ readable
    <3>1. k < Len(Input)
      BY <1>2, <1>4, <2>2, <2>4, <2>8
    <3>2. /\ parserErr' \in {"nil", "EOF"}
          /\ parserErr' = "nil" <=> last <= L
      BY <1>2, <2>2, <2>8
    <3>3. ParsedText(record) /\ Input[k + 1] = record
      BY <2>1, <2>5, <3>1, <3>2
    <3> HIDE DEF record
    <3>4. CASE "bad" \in record
      <4>1. supply' = "failed" /\ requests' = requests
        BY <3>3, <3>4 DEF ParsedText
      <4>2. SupplyInv'
        BY <1>1, <1>2, <4>1 DEF SupplyInv, MayLack
      <4>3. ~(Input[k + 1] \subseteq Certain)
        BY <1>5, <3>3, <3>4
      <4> QED
        BY <1>1, <3>1, <4>1, <4>2, <4>3, FailIs DEF Supplied, k
    <3>5. CASE "bad" \notin record
      <4>1. supply' = "more" /\ requests' = Append(requests, record)
        BY <1>1, <3>3, <3>5 DEF ParsedText
      <4>2. /\ requests' \in Seq(SUBSET (Fields \cup {"bad", "RS"}))
            /\ Len(requests') = k + 1
        BY <1>2, <2>6, <4>1 DEF k
      <4>3. \/ /\ parserErr' = "nil" /\ stdin[read'] = RS
               /\ Len(requests') = Sep(read')
            \/ /\ parserErr' = "EOF" /\ readable /\ Len(requests') = Sep(L) + 1
        <5>1. CASE last <= L
          BY <2>2, <2>4, <3>2, <4>2, <5>1
        <5>2. CASE ~(last <= L)
          <6>1. last = L + 1
            BY <1>2, <2>2, <5>2
          <6> QED
            BY <2>4, <2>8, <3>2, <4>2, <5>2, <6>1
        <5> QED
          BY <5>1, <5>2
      <4>4. SupplyInv'
        BY <1>1, <1>2, <4>1, <4>2, <4>3 DEF SupplyInv, Sep, L, MayLack
      <4>5. Supplier!Next
        BY <1>1, <3>1, <3>3, <3>5, <4>1, YieldIs DEF k
      <4> QED
        BY <4>4, <4>5 DEF Supplied
    <3> QED
      BY <3>4, <3>5
  <2> QED
    BY <1>2, <2>2, <2>7, <2>8
<1> QED
  BY <1>3, <1>6, <1>7

\* jsonRequestParser.Next, from the value read to the message handed out.
LEMMA JsonSupply ==
  ASSUME SourcePart, ParserPart, MessagePart, at["sender"] \in {"out", "error"},
         DOMAIN at = Goroutines, SupplyInv,
         NextJsonFails \/ NextJson \/ ParsedJson \/ RequestUnresolved
  PROVE  Supplied
<1> DEFINE L == Len(stdin)
           k == Len(requests)
           M == SUBSET (Fields \cup {"bad", "RS"})
<1>1. UNCHANGED sourceVars /\ UNCHANGED <<origins, format, stdin, readable>>
  BY DEF NextJsonFails, NextJson, ParsedJson, RequestUnresolved, BackFromResolver,
         notParsing, sideVars, sourceVars
<1>2. /\ L \in Nat /\ DOMAIN stdin = 1 .. L /\ \A i \in 1 .. L : stdin[i] \in M
      /\ read \in 0 .. L /\ requests \in Seq(M) /\ k \in Nat
  BY DEF SourcePart, ParserPart, SupplyInv
<1>3. /\ at["sender"] = "error" => MayLack(want["sender"])
      /\ "sender" \in busy =>
            /\ format = "json" /\ supply = "more" /\ read = k + 1
            /\ current["sender"] = stdin[read] /\ "bad" \notin stdin[read]
  BY DEF SupplyInv
<1>a. "sender" \in Goroutines /\ "bad" \notin Fields
  BY FormatsAssumption
<1>4. CASE NextJsonFails
  <2>1. /\ format = "json" /\ supply = "more" /\ "sender" \notin busy
        /\ requests' = requests /\ UNCHANGED <<busy, current, at, want, parserErr>>
        /\ \/ read = L /\ supply' = IF readable THEN "end" ELSE "failed"
           \/ read < L /\ "bad" \in stdin[read + 1] /\ supply' = "failed"
    BY <1>4 DEF NextJsonFails, Calls, notParsing, messageVars, resolverVars
  <2>2. read = k /\ Input = stdin
    BY <2>1, InputIs DEF SupplyInv
  <2>3. SupplyInv'
    BY <1>1, <1>2, <1>3, <2>1 DEF SupplyInv, MayLack
  <2>4. CASE read = L
    <3>1. ~(k < Len(Input))
      BY <1>2, <2>2, <2>4
    <3>2. supply' = IF readable THEN "end" ELSE "failed"
      BY <1>2, <2>1, <2>4
    <3>3. CASE readable
      BY <1>1, <2>1, <2>3, <3>1, <3>2, <3>3, EndIs DEF Supplied
    <3>4. CASE ~readable
      BY <1>1, <2>1, <2>3, <3>1, <3>2, <3>4, FailIs DEF Supplied
    <3> QED
      BY <3>3, <3>4
  <2>5. CASE read < L
    <3>1. k < Len(Input) /\ "bad" \in Input[k + 1] /\ supply' = "failed"
      <4>0. read # L
        <5>1. read \in Int /\ L \in Int
          BY <1>2
        <5> QED
          BY ONLY <2>5, <5>1
      <4>1. "bad" \in stdin[read + 1] /\ supply' = "failed"
        BY <2>1, <4>0
      <4> HIDE DEF k
      <4> QED
        BY ONLY <2>2, <2>5, <4>1
    <3>2. ~(Input[k + 1] \subseteq Certain)
      BY <1>a, <3>1 DEF Certain
    <3> QED
      BY <1>1, <2>1, <2>3, <3>1, <3>2, FailIs DEF Supplied
  <2> QED
    BY <2>1, <2>4, <2>5
<1>5. CASE NextJson
  <2>1. /\ format = "json" /\ supply = "more" /\ "sender" \notin busy
        /\ read < L /\ "bad" \notin stdin[read + 1] /\ read' = read + 1
        /\ UNCHANGED <<requests, supply, at, want, parserErr>>
        /\ busy' = busy \cup {"sender"}
        /\ current' = [current EXCEPT !["sender"] = stdin[read + 1]]
    BY <1>5 DEF NextJson, Calls, resolverVars
  <2>2. read = k
    BY <2>1 DEF SupplyInv
  <2>3. current'["sender"] = stdin[read']
    BY <1>a, <2>1 DEF MessagePart
  <2>4. SupplyInv'
    BY <1>1, <1>2, <1>3, <2>1, <2>2, <2>3 DEF SupplyInv, MayLack
  <2> QED
    BY <1>1, <2>1, <2>4, InputKept DEF Supplied, Supplier!vars
<1>6. CASE ParsedJson
  <2>1. /\ "sender" \in busy /\ at["sender"] = "out"
        /\ requests' = Append(requests, current["sender"])
        /\ busy' = busy \ {"sender"}
        /\ UNCHANGED <<read, parserErr, supply, current, at, want>>
    BY <1>6 DEF ParsedJson, resolverVars
  <2>2. /\ format = "json" /\ supply = "more" /\ read = k + 1
        /\ current["sender"] = stdin[read] /\ "bad" \notin stdin[read]
        /\ Input = stdin
    BY <1>3, <2>1, InputIs
  <2>3. read \in 1 .. L
    BY <1>2, <2>2
  <2>4. k < Len(Input) /\ current["sender"] = Input[k + 1] /\ current["sender"] \in M
    BY <1>2, <2>2, <2>3
  <2>5. requests' \in Seq(M) /\ Len(requests') = k + 1
    BY <1>2, <2>1, <2>4
  <2>6. SupplyInv'
    BY <1>1, <2>1, <2>2, <2>5 DEF SupplyInv
  <2>7. Supplier!Next
    BY <1>1, <2>1, <2>2, <2>4, YieldIs
  <2> QED
    BY <2>6, <2>7 DEF Supplied
<1>7. CASE RequestUnresolved
  <2>1. /\ at["sender"] = "error" /\ supply' = "failed" /\ busy' = busy \ {"sender"}
        /\ UNCHANGED <<read, parserErr, requests, want>>
        /\ at' = [at EXCEPT !["sender"] = "out"]
    BY <1>7 DEF RequestUnresolved, BackFromResolver
  <2>2. "sender" \in busy /\ want["sender"] \in current["sender"] \cap Types
    BY <1>a, <2>1 DEF MessagePart
  <2>3. /\ format = "json" /\ supply = "more" /\ read = k + 1
        /\ current["sender"] = stdin[read] /\ Input = stdin
    BY <1>3, <2>2, InputIs
  <2>4. k < Len(Input) /\ want["sender"] \in Input[k + 1]
    BY <1>2, <2>2, <2>3
  <2>5. want["sender"] \notin Certain
    BY <1>3, <2>1, <2>2, <2>3 DEF Certain
  <2>6. at'["sender"] = "out"
    BY <1>a, <2>1
  <2>7. SupplyInv'
    BY <1>1, <1>2, <2>1, <2>3, <2>6 DEF SupplyInv
  <2>8. Supplier!Next
    BY <1>1, <2>1, <2>3, <2>4, <2>5, FailIs
  <2> QED
    BY <2>7, <2>8 DEF Supplied
<1> QED
  BY <1>4, <1>5, <1>6, <1>7

LEMMA SupplyStep ==
  ASSUME IInv, SupplyInv, [Next]_vars
  PROVE  Supplied
<1>1. /\ SourcePart /\ ParserPart /\ MessagePart
      /\ at \in [Goroutines -> {"out", "read", "lock", "find", "extensions",
                                "message", "error"}]
  BY PartsAre DEF Parts, ResolverSafe, ResolverTypeOK
<1>2. at["sender"] = "error" => MayLack(want["sender"])
  BY DEF SupplyInv
<1>a. "sender" \in Goroutines
  BY FormatsAssumption
<1> DEFINE Idle == /\ UNCHANGED sourceVars
                   /\ UNCHANGED <<requests, supply, read, parserErr>>
                   /\ current'["sender"] = current["sender"]
                   /\ "sender" \in busy' <=> "sender" \in busy
<1>3. ASSUME Idle, UNCHANGED <<at, want>> PROVE Supplied
  BY <1>2, <1>3, SupplyKept DEF MayLack, sourceVars
<1>4. CASE FetchExtensions \/ MakeTemplate \/ Terminated \/ UNCHANGED vars
  <2>1. UNCHANGED sourceVars /\ UNCHANGED callVars
    BY <1>4 DEF FetchExtensions, MakeTemplate, Terminated, vars
  <2>2. Idle /\ UNCHANGED <<at, want>>
    BY <2>1 DEF callVars, parserVars, messageVars, resolverVars
  <2> QED
    BY <1>3, <2>2
<1>5. CASE NextText
  BY <1>1, <1>5, TextSupply
<1>6. CASE NextJsonFails \/ NextJson \/ ParsedJson \/ RequestUnresolved
  <2>1. at["sender"] \in {"out", "error"}
    BY <1>a, <1>1, <1>6 DEF NextJsonFails, NextJson, ParsedJson, RequestUnresolved,
                            Calls, MessagePart
  <2> QED
    BY <1>1, <1>6, <2>1, JsonSupply
<1>7. CASE \E g \in Goroutines : ResolveAny(g)
  <2>1. PICK g \in Goroutines : ResolveAny(g)
    BY <1>7
  <2>2. PICK t : /\ UNCHANGED sideVars /\ UNCHANGED parserVars /\ UNCHANGED messageVars
                 /\ at' = [at EXCEPT ![g] = "read"] /\ want' = [want EXCEPT ![g] = t]
    BY <2>1 DEF ResolveAny, Resolve
  <2>3. Idle
    BY <2>2 DEF sideVars, parserVars, messageVars
  <2>4. CASE g = "sender"
    <3>1. at'["sender"] = "read"
      BY <1>a, <1>1, <2>2, <2>4
    <3> QED
      BY <2>3, <3>1, SupplyKept
  <2>5. CASE g # "sender"
    <3>1. at'["sender"] = at["sender"] /\ want'["sender"] = want["sender"]
      BY <1>a, <1>1, <2>2, <2>5 DEF MessagePart
    <3>2. origins' = origins
      BY <2>3 DEF sourceVars
    <3> QED
      BY <1>2, <2>3, <3>1, <3>2, SupplyKept DEF MayLack
  <2> QED
    BY <2>4, <2>5
<1>8. CASE \E g \in Goroutines : InResolver(g)
  <2>1. PICK g \in Goroutines : InResolver(g)
    BY <1>8
  <2>2. /\ UNCHANGED sideVars /\ UNCHANGED parserVars /\ UNCHANGED messageVars
        /\ ResolverStep(g)
    BY <2>1 DEF InResolver
  <2>3. Idle
    BY <2>2 DEF sideVars, parserVars, messageVars
  <2>4. /\ UNCHANGED want
        /\ \E s : /\ at' = [at EXCEPT ![g] = s]
                  /\ s = "error" => MayLack(want[g])
    BY <2>2 DEF ResolverStep, ReadCache, LockAndCheck, FindType, AddExtensions, Leave
  <2>5. at'["sender"] = "error" => MayLack(want["sender"])'
    BY <1>a, <1>1, <1>2, <2>3, <2>4 DEF MayLack, sourceVars
  <2> QED
    BY <2>3, <2>5, SupplyKept
<1>9. CASE (\E g \in Goroutines : AnyResolved(g)) \/ ResponseUnresolved
  <2>1. PICK g \in Goroutines :
           /\ UNCHANGED sideVars /\ UNCHANGED parserVars /\ UNCHANGED <<busy, current, want>>
           /\ at' = [at EXCEPT ![g] = "out"]
    BY <1>9, FormatsAssumption DEF AnyResolved, ResponseUnresolved, BackFromResolver,
                                   sideVars
  <2>2. Idle
    BY <2>1 DEF sideVars, parserVars
  <2>3. at'["sender"] \in {"out", at["sender"]}
    BY <1>a, <1>1, <2>1
  <2> QED
    BY <1>2, <2>1, <2>2, <2>3, SupplyKept DEF MayLack, sourceVars
<1>10. CASE OnReceiveResponse
  <2>1. /\ UNCHANGED sideVars /\ UNCHANGED parserVars /\ UNCHANGED resolverVars
        /\ busy' = busy \cup {"receiver"}
        /\ \E m : current' = [current EXCEPT !["receiver"] = m]
    BY <1>10 DEF OnReceiveResponse
  <2>2. current'["sender"] = current["sender"]
    BY <1>a, <1>1, <2>1 DEF MessagePart
  <2>3. Idle /\ UNCHANGED <<at, want>>
    BY <2>1, <2>2 DEF sideVars, parserVars, resolverVars
  <2> QED
    BY <1>3, <2>3
<1>11. CASE PrintResponse \/ PrintFails
  <2>1. PICK text : Shown(text)
    BY <1>11 DEF PrintResponse, PrintFails
  <2>2. /\ UNCHANGED sideVars /\ UNCHANGED parserVars /\ UNCHANGED resolverVars
        /\ busy' = busy \ {"receiver"} /\ UNCHANGED current
    BY <2>1 DEF Shown
  <2>3. Idle /\ UNCHANGED <<at, want>>
    BY <2>2 DEF sideVars, parserVars, resolverVars
  <2> QED
    BY <1>3, <2>3
<1> QED
  BY <1>4, <1>5, <1>6, <1>7, <1>8, <1>9, <1>10, <1>11 DEF Next

\* Both parsers implement RequestSupplier: the records of the input, each once and in
\* order, and then the end for good or a failure where the input is bad, for every
\* input and whatever the goroutine of the responses does meanwhile.
THEOREM ParsersSupply == Spec => RequestsFollowInput
<1>1. Init => SupplyInv /\ Supplier!Init
  <2> SUFFICES ASSUME Init PROVE SupplyInv /\ Supplier!Init
    OBVIOUS
  <2>1. /\ format \in {"json", "text"} /\ read = 0 /\ parserErr = "nil"
        /\ requests = <<>> /\ supply = "more" /\ busy = {}
        /\ at = [g \in Goroutines |-> "out"]
    BY DEF Init, ResolverInit
  <2>2. at["sender"] = "out"
    BY <2>1, FormatsAssumption
  <2>3. requests \in Seq(SUBSET (Fields \cup {"bad", "RS"})) /\ Len(requests) = 0
    BY <2>1
  <2>4. SeparatorsIn(stdin, 0) = 0
    <3>1. {j \in 1 .. 0 : stdin[j] = RS} = {}
      OBVIOUS
    <3> QED
      BY <3>1, FS_EmptySet DEF SeparatorsIn
  <2> QED
    BY <2>1, <2>2, <2>3, <2>4 DEF SupplyInv, Supplier!Init
<1>2. IInv /\ SupplyInv /\ [Next]_vars => SupplyInv' /\ [Supplier!Next]_(Supplier!vars)
  BY SupplyStep DEF Supplied
<1> QED
  BY <1>1, <1>2, Inductive, PTL DEF Spec, RequestsFollowInput, Supplier!Spec
-------------------------------------------------------------------------------
(* Templates. *)

Frames == [type : Types, next : Nat \ {0}, path : [array : Nat, len : Nat]]
PathOf(b, k) == TypesOf(SubSeq(b, 1, k))

LEMMA TypesIs ==
  ASSUME NEW b \in Seq(Frames)
  PROVE  /\ TypesOf(b) \in Seq(Types) /\ Len(TypesOf(b)) = Len(b)
         /\ \A i \in 1 .. Len(b) : TypesOf(b)[i] = b[i].type
<1> DEFINE n == Len(b)
           f == [i \in 1 .. n |-> b[i].type]
<1>0. n \in Nat /\ DOMAIN b = 1 .. n /\ \A i \in 1 .. n : b[i] \in Frames
  OBVIOUS
<1>1. n \in Nat /\ DOMAIN b = 1 .. n /\ \A i \in 1 .. n : b[i].type \in Types
  <2>1. \A e \in Frames : e.type \in Types
    BY DEF Frames
  <2> QED
    BY <1>0, <2>1
<1>2. TypesOf(b) = f
  BY <1>1 DEF TypesOf
<1>3. f \in [1 .. n -> Types] /\ \A i \in 1 .. n : f[i] = b[i].type
  BY <1>1
<1> HIDE DEF n, f
<1>4. f \in Seq(Types) /\ Len(f) = n
  BY <1>1, <1>3, LenProperties
<1> QED
  BY <1>2, <1>3, <1>4 DEF n

LEMMA PathIs ==
  ASSUME NEW b \in Seq(Frames), NEW k \in 0 .. Len(b)
  PROVE  /\ PathOf(b, k) \in Seq(Types) /\ Len(PathOf(b, k)) = k
         /\ \A i \in 1 .. k : PathOf(b, k)[i] = b[i].type
<1> DEFINE f == SubSeq(b, 1, k)
<1>1. k \in Nat /\ Len(b) \in Nat /\ k <= Len(b) /\ \A i \in 1 .. k : b[i] \in Frames
  OBVIOUS
<1>2. /\ f \in Seq(Frames) /\ Len(f) = IF 1 <= k THEN k - 1 + 1 ELSE 0
      /\ \A i \in 1 .. k - 1 + 1 : f[i] = b[1 + i - 1]
  BY <1>1, SubSeqProperties
<1>3. k - 1 + 1 = k /\ \A i \in 1 .. k : 1 + i - 1 = i
  BY <1>1
<1>4. Len(f) = k /\ \A i \in 1 .. k : f[i] = b[i]
  BY <1>1, <1>2, <1>3
<1> HIDE DEF f
<1>5. /\ TypesOf(f) \in Seq(Types) /\ Len(TypesOf(f)) = Len(f)
      /\ \A i \in 1 .. Len(f) : TypesOf(f)[i] = f[i].type
  BY <1>2, TypesIs
<1>6. PathOf(b, k) = TypesOf(f)
  BY DEF PathOf, f
<1> QED
  BY <1>4, <1>5, <1>6

LEMMA SamePath ==
  ASSUME NEW b \in Seq(Frames), NEW c \in Seq(Frames),
         NEW k \in 0 .. Len(b), k \in 0 .. Len(c),
         \A i \in 1 .. k : b[i].type = c[i].type
  PROVE  PathOf(b, k) = PathOf(c, k)
<1>1. /\ PathOf(b, k) \in Seq(Types) /\ Len(PathOf(b, k)) = k
      /\ \A i \in 1 .. k : PathOf(b, k)[i] = b[i].type
  BY PathIs
<1>2. /\ PathOf(c, k) \in Seq(Types) /\ Len(PathOf(c, k)) = k
      /\ \A i \in 1 .. k : PathOf(c, k)[i] = c[i].type
  BY PathIs
<1> QED
  BY <1>1, <1>2, SeqEqual

LEMMA WholePath ==
  ASSUME NEW b \in Seq(Frames), NEW c \in Seq(Frames), Len(b) = Len(c),
         \A i \in 1 .. Len(b) : b[i].type = c[i].type
  PROVE  TypesOf(b) = PathOf(c, Len(c))
<1>0. Len(c) \in 0 .. Len(c)
  OBVIOUS
<1>1. /\ TypesOf(b) \in Seq(Types) /\ Len(TypesOf(b)) = Len(b)
      /\ \A i \in 1 .. Len(b) : TypesOf(b)[i] = b[i].type
  BY TypesIs
<1>2. /\ PathOf(c, Len(c)) \in Seq(Types) /\ Len(PathOf(c, Len(c))) = Len(c)
      /\ \A i \in 1 .. Len(c) : PathOf(c, Len(c))[i] = c[i].type
  BY <1>0, PathIs
<1> QED
  BY <1>1, <1>2, SeqEqual

\* A path becomes a leaf by a type that it has already, or one that is well known.
LEMMA LeafIs ==
  ASSUME NEW Q \in Seq(Types), NEW t \in Types, NEW P, P = Append(Q, t),
         \A i, j \in DOMAIN Q : Q[i] = Q[j] => i = j
  PROVE  Leaf(P) <=> t \in WellKnown \/ \E i \in 1 .. Len(Q) : Q[i] = t
<1> DEFINE N == Len(Q)
<1>1. /\ N \in Nat /\ DOMAIN Q = 1 .. N /\ DOMAIN P = 1 .. N + 1 /\ Len(P) = N + 1
      /\ \A i \in 1 .. N : P[i] = Q[i] /\ i # N + 1
      /\ P[N + 1] = t /\ 1 .. N \subseteq 1 .. N + 1 /\ N + 1 \in 1 .. N + 1
      /\ \A i \in 1 .. N + 1 : i \in 1 .. N \/ i = N + 1
  OBVIOUS
<1> HIDE DEF N
<1>2. ASSUME NEW i \in 1 .. N, Q[i] = t PROVE Repeats(P)
  <2>1. i < N + 1 /\ i \in DOMAIN P /\ N + 1 \in DOMAIN P /\ P[i] = P[N + 1]
    BY <1>1, <1>2
  <2> QED
    BY <2>1 DEF Repeats
<1>3. ASSUME Repeats(P) PROVE \E i \in 1 .. N : Q[i] = t
  <2>1. PICK i \in DOMAIN P, j \in DOMAIN P : i < j /\ P[i] = P[j]
    BY <1>3 DEF Repeats
  <2>2. i \in 1 .. N
    BY <1>1, <2>1
  <2>3. j \notin 1 .. N
    BY <1>1, <2>1, <2>2
  <2> QED
    BY <1>1, <2>1, <2>2, <2>3
<1> QED
  BY <1>1, <1>2, <1>3 DEF Leaf, N

\* A slice that holds a path.
Holds(s, Q) ==
    \/ s = NilSlice /\ Q = <<>>
    \/ /\ s \in [array : Nat, len : Nat]
       /\ s.array \in DOMAIN arrays
       /\ s.len = Len(Q) /\ s.len > 0 /\ s.len <= Len(arrays[s.array])
       /\ \A i \in 1 .. Len(Q) : arrays[s.array][i] = Q[i]

LEMMA SliceHolds ==
  ASSUME arrays \in Seq(Seq(Types \cup {"nil"})), NEW s, NEW Q \in Seq(Types), Holds(s, Q)
  PROVE  Slice(s) = Q
<1>1. CASE s = NilSlice /\ Q = <<>>
  BY <1>1 DEF NilSlice, Slice
<1>2. CASE s # NilSlice \/ Q # <<>>
  <2> DEFINE a == arrays[s.array]
             T == Types \cup {"nil"}
             f == SubSeq(a, 1, s.len)
  <2>1. /\ s.array \in DOMAIN arrays /\ s.len = Len(Q) /\ s.len > 0 /\ s.len <= Len(a)
        /\ \A i \in 1 .. Len(Q) : a[i] = Q[i]
    BY <1>2 DEF Holds
  <2>2. a \in Seq(T) /\ s.array # 0 /\ s.len \in Nat /\ Q \in Seq(T)
    BY <2>1
  <2>3. Slice(s) = f
    BY <2>2 DEF Slice
  <2>4. \A i \in 1 .. s.len : a[i] \in T
    BY <2>1, <2>2
  <2> HIDE DEF a, T
  <2>5. /\ f \in Seq(T) /\ Len(f) = IF 1 <= s.len THEN s.len - 1 + 1 ELSE 0
        /\ \A i \in 1 .. s.len - 1 + 1 : f[i] = a[1 + i - 1]
    BY <2>2, <2>4, SubSeqProperties
  <2>6. Len(f) = s.len /\ \A i \in 1 .. s.len : f[i] = a[i]
    <3>1. s.len - 1 + 1 = s.len /\ \A i \in 1 .. s.len : 1 + i - 1 = i
      BY <2>2
    <3> QED
      BY <2>1, <2>2, <2>5, <3>1
  <2> HIDE DEF f
  <2> QED
    BY <2>1, <2>2, <2>3, <2>5, <2>6, SeqEqual
<1> QED
  BY <1>1, <1>2

\* A slice of more holds Q and then t, and those of some keep what they hold.
Appended(some, more, slice, Q, t) ==
    /\ more \in Seq(Seq(Types \cup {"nil"}))
    /\ slice \in [array : Nat, len : Nat]
    /\ slice.len = Len(Q) + 1
    /\ slice.array \in DOMAIN more
    /\ Len(Q) + 1 <= Len(more[slice.array])
    /\ \A i \in 1 .. Len(Q) : more[slice.array][i] = Q[i]
    /\ more[slice.array][Len(Q) + 1] = t
    /\ \A a \in DOMAIN some :
          /\ a \in DOMAIN more /\ Len(more[a]) = Len(some[a])
          /\ \A i \in 1 .. Len(Q) : more[a][i] = some[a][i]

\* Appending a type to a path: with or without room in the array, the new slice
\* holds the longer path, and all slices that are no longer keep what they hold.
LEMMA AppendSliceIs ==
  ASSUME arrays \in Seq(Seq(Types \cup {"nil"})), NEW s, NEW Q \in Seq(Types), Holds(s, Q),
         NEW t \in Types, NEW r, r = AppendSlice(s, t)
  PROVE  Appended(arrays, r.arrays, r.slice, Q, t)
<1> DEFINE T == Types \cup {"nil"}
           N == Len(arrays)
           K == Len(Q)
<1>1. /\ N \in Nat /\ DOMAIN arrays = 1 .. N /\ K \in Nat /\ s.len = K /\ s.len \in Nat
      /\ arrays \in Seq(Seq(T)) /\ Q \in Seq(T) /\ t \in T
      /\ \A i \in 1 .. K : i # K + 1
  BY DEF Holds, NilSlice
<1>2. CASE s.len < Cap(s)
  <2> DEFINE A == s.array
             old == arrays[A]
             new == [old EXCEPT ![K + 1] = t]
             all == [arrays EXCEPT ![A] = new]
  <2>1. A \in 1 .. N /\ K < Len(old) /\ s \in [array : Nat, len : Nat]
        /\ \A i \in 1 .. K : old[i] = Q[i]
    <3>1. s # NilSlice
      BY <1>2 DEF Cap, NilSlice
    <3>2. A \in 1 .. N /\ s \in [array : Nat, len : Nat]
          /\ \A i \in 1 .. K : old[i] = Q[i]
      BY <1>1, <3>1 DEF Holds
    <3>3. Cap(s) = Len(old)
      BY <3>2 DEF Cap
    <3> QED
      BY <1>1, <1>2, <3>2, <3>3
  <2>2. /\ r.slice = [s EXCEPT !.len = @ + 1]
        /\ r.arrays = [arrays EXCEPT ![A][s.len + 1] = t]
    BY <1>2 DEF AppendSlice
  <2>3. r.slice = [array |-> A, len |-> K + 1]
    <3>1. s = [array |-> A, len |-> K]
      BY <1>1, <2>1
    <3> QED
      BY ONLY <2>2, <3>1
  <2>4. r.arrays = all
    BY <1>1, <2>2
  <2>5. old \in Seq(T) /\ Len(old) \in Nat /\ DOMAIN old = 1 .. Len(old)
    BY <1>1, <2>1
  <2> HIDE DEF old, K, N, T
  <2>6. K + 1 \in 1 .. Len(old) /\ \A i \in 1 .. K : i \in 1 .. Len(old)
    BY <1>1, <2>1, <2>5
  <2>7. /\ new \in Seq(T) /\ Len(new) = Len(old) /\ new[K + 1] = t
        /\ \A i \in 1 .. K : new[i] = old[i]
    BY <1>1, <2>5, <2>6
  <2> HIDE DEF new
  <2>8. /\ all \in Seq(Seq(T)) /\ DOMAIN all = 1 .. N /\ all[A] = new
        /\ \A a \in 1 .. N : a # A => all[a] = arrays[a]
    BY <1>1, <2>1, <2>7
  <2> HIDE DEF all
  <2>9. \A a \in 1 .. N : /\ Len(all[a]) = Len(arrays[a])
                          /\ \A i \in 1 .. K : all[a][i] = arrays[a][i]
    BY <2>7, <2>8 DEF old
  <2>10. /\ r.slice.array = A /\ r.slice.len = K + 1
         /\ r.slice \in [array : Nat, len : Nat]
    BY <1>1, <2>1, <2>3
  <2>11. A \in DOMAIN all /\ K + 1 <= Len(all[A])
         /\ all[A][K + 1] = t /\ \A i \in 1 .. K : all[A][i] = Q[i]
    <3>1. K + 1 <= Len(new)
      BY <2>6, <2>7
    <3> QED
      BY ONLY <2>1, <2>7, <2>8, <3>1
  <2>12. \A a \in DOMAIN arrays :
            /\ a \in DOMAIN all /\ Len(all[a]) = Len(arrays[a])
            /\ \A i \in 1 .. K : all[a][i] = arrays[a][i]
    BY ONLY <1>1, <2>8, <2>9
  <2> QED
    BY ONLY <2>4, <2>8, <2>10, <2>11, <2>12 DEF K, T, Appended
<1>3. CASE ~(s.len < Cap(s))
  <2> DEFINE m == IF K = 0 THEN 0 ELSE K - 1
             z == [i \in 1 .. s.len - 1 |-> "nil"]
             b == Append(Q, t)
             new == b \o z
             all == Append(arrays, new)
  <2>1. r.slice = [array |-> N + 1, len |-> K + 1] /\ r.arrays = all
    BY <1>1, <1>3, SliceHolds DEF AppendSlice
  <2>2. m \in Nat /\ 1 .. s.len - 1 = 1 .. m
    BY <1>1
  <2> HIDE DEF m
  <2>3. z \in [1 .. m -> T]
    BY <2>2
  <2> HIDE DEF z
  <2>5. /\ b \in Seq(T) /\ Len(b) = K + 1
        /\ b[K + 1] = t /\ \A i \in 1 .. K : b[i] = Q[i]
    BY <1>1
  <2> HIDE DEF T, K, b
  <2>4. z \in Seq(T) /\ Len(z) = m
    BY <2>2, <2>3, LenProperties
  <2>6. /\ new \in Seq(T) /\ Len(new) = K + 1 + m
        /\ \A i \in 1 .. K + 1 + m : i <= K + 1 => new[i] = b[i]
    <3>1. /\ new \in Seq(T) /\ Len(new) = Len(b) + Len(z)
          /\ \A i \in 1 .. Len(b) + Len(z) :
                new[i] = IF i <= Len(b) THEN b[i] ELSE z[i - Len(b)]
      BY <2>4, <2>5, ConcatProperties
    <3>2. Len(b) + Len(z) = K + 1 + m
      BY <2>4, <2>5
    <3> HIDE DEF new
    <3> QED
      BY <2>5, <3>1, <3>2
  <2>7. /\ \A i \in 1 .. K : i \in 1 .. K + 1 + m /\ i <= K + 1
        /\ K + 1 \in 1 .. K + 1 + m /\ K + 1 <= K + 1 + m
    BY <1>1, <2>2
  <2>8. new[K + 1] = t /\ K + 1 <= Len(new) /\ \A i \in 1 .. K : new[i] = Q[i]
    BY <2>5, <2>6, <2>7
  <2> HIDE DEF new
  <2>9. /\ all \in Seq(Seq(T)) /\ DOMAIN all = 1 .. N + 1 /\ all[N + 1] = new
        /\ \A a \in 1 .. N : a \in 1 .. N + 1 /\ all[a] = arrays[a]
    BY <1>1, <2>6
  <2> HIDE DEF all
  <2>10. /\ r.slice.array = N + 1 /\ r.slice.len = K + 1
         /\ r.slice \in [array : Nat, len : Nat] /\ N + 1 \in 1 .. N + 1
    BY <1>1, <2>1
  <2> QED
    BY <1>1, <2>1, <2>8, <2>9, <2>10 DEF K, T, Appended
<1> QED
  BY <1>2, <1>3

\* The two invariants of Template, as predicates of a stack of frames.
Alone(b) ==
    /\ b \in Seq(Frames)
    /\ \A k \in DOMAIN b : b[k].type \notin WellKnown
    /\ \A i, j \in DOMAIN b : b[i].type = b[j].type => i = j

PathsKept(b, some) ==
    /\ Alone(b)
    /\ some \in Seq(Seq(Types \cup {"nil"}))
    /\ \A k \in DOMAIN b :
          /\ b[k].path.len = k
          /\ b[k].path.array \in DOMAIN some
          /\ k <= Len(some[b[k].path.array])
          /\ \A i \in 1 .. k : some[b[k].path.array][i] = b[i].type

IsField(g, p, u) == \E i \in DOMAIN g[p[Len(p)]] : u = g[p[Len(p)]][i]
HasFields(g, p, nodes) ==
    \A i \in DOMAIN g[p[Len(p)]] : Append(p, g[p[Len(p)]][i]) \in nodes
HasParent(g, q, nodes) ==
    Len(q) > 1 => /\ SubSeq(q, 1, Len(q) - 1) \in nodes
                  /\ ~Leaf(SubSeq(q, 1, Len(q) - 1))
                  /\ IsField(g, SubSeq(q, 1, Len(q) - 1), q[Len(q)])
IsBuilt(g, b, k, nodes) ==
    /\ PathOf(b, k) \in nodes
    /\ \A i \in DOMAIN g[b[k].type] :
          i < b[k].next => Append(PathOf(b, k), g[b[k].type][i]) \in nodes

TreeKept(g, b, nodes) ==
    /\ \A q \in nodes : q \in Seq(Types) /\ q # <<>>
    /\ \A q \in nodes : HasParent(g, q, nodes)
    /\ \A k \in DOMAIN b : IsBuilt(g, b, k, nodes)
    /\ \A p \in nodes : ~Leaf(p) =>
          (\E k \in DOMAIN b : p = PathOf(b, k)) \/ HasFields(g, p, nodes)

LEMMA KeptIs ==
  /\ PathInv <=> PathsKept(builds, arrays)
  /\ TreeInv <=> /\ build \in {"start", "done"} => builds = <<>>
                 /\ TreeKept(graph, builds, tree)
<1>1. PathInv <=> PathsKept(builds, arrays)
  BY DEF PathInv, PathsKept, Alone, Frames
<1>2. TreeInv <=> /\ build \in {"start", "done"} => builds = <<>>
                  /\ TreeKept(graph, builds, tree)
  BY DEF TreeInv, TreeKept, PathTo, PathOf, HasParent, IsField, HasFields, IsBuilt,
         FieldsOf
<1> QED
  BY <1>1, <1>2

LEMMA KeptNext ==
  /\ PathInv' <=> PathsKept(builds', arrays')
  /\ TreeInv' <=> /\ build' \in {"start", "done"} => builds' = <<>>
                  /\ TreeKept(graph', builds', tree')
<1>1. PathInv' <=> PathsKept(builds', arrays')
  BY DEF PathInv, PathsKept, Alone, Frames
<1>2. TreeInv' <=> /\ build' \in {"start", "done"} => builds' = <<>>
                   /\ TreeKept(graph', builds', tree')
  BY DEF TreeInv, TreeKept, PathTo, PathOf, HasParent, IsField, HasFields, IsBuilt,
         FieldsOf
<1> QED
  BY <1>1, <1>2

\* A type that is being expanded is no leaf.
LEMMA NoLeaf ==
  ASSUME NEW b, Alone(b), NEW k \in DOMAIN b
  PROVE  /\ PathOf(b, k) \in Seq(Types) /\ PathOf(b, k) # <<>> /\ Len(PathOf(b, k)) = k
         /\ PathOf(b, k)[Len(PathOf(b, k))] = b[k].type
         /\ \A i \in 1 .. k : PathOf(b, k)[i] = b[i].type
         /\ ~Leaf(PathOf(b, k))
<1> DEFINE p == PathOf(b, k)
<1>1. /\ b \in Seq(Frames) /\ k \in 0 .. Len(b) /\ k \in Nat \ {0}
      /\ \A i \in 1 .. k : i \in DOMAIN b
  BY DEF Alone
<1>2. p \in Seq(Types) /\ Len(p) = k /\ \A i \in 1 .. k : p[i] = b[i].type
  BY <1>1, PathIs
<1> HIDE DEF p
<1>3. p # <<>> /\ DOMAIN p = 1 .. k /\ k \in 1 .. k
  BY <1>1, <1>2
<1>4. \A i, j \in 1 .. k : p[i] = p[j] => i = j
  BY <1>1, <1>2 DEF Alone
<1>5. ~Repeats(p)
  BY <1>1, <1>3, <1>4 DEF Repeats
<1>6. p[k] \notin WellKnown
  BY <1>2, <1>3 DEF Alone
<1> QED
  BY <1>2, <1>3, <1>5, <1>6 DEF p, Leaf

LEMMA PathsSame ==
  ASSUME NEW b, NEW some, PathsKept(b, some), NEW c \in Seq(Frames), Len(c) <= Len(b),
         \A k \in 1 .. Len(c) : c[k].type = b[k].type /\ c[k].path = b[k].path
  PROVE  PathsKept(c, some)
<1> DEFINE N == Len(c)
<1>1. /\ DOMAIN c = 1 .. N /\ b \in Seq(Frames)
      /\ \A k \in 1 .. N : k \in DOMAIN b /\ \A i \in 1 .. k : i \in 1 .. N
  BY DEF PathsKept, Alone
<1>2. \A k \in 1 .. N : k \in DOMAIN b /\ c[k].type = b[k].type /\ c[k].path = b[k].path
  BY <1>1
<1> HIDE DEF N
<1>3. Alone(c)
  <2>1. \A k \in 1 .. N : c[k].type \notin WellKnown
    BY <1>2 DEF PathsKept, Alone
  <2>2. \A i, j \in 1 .. N : c[i].type = c[j].type => i = j
    BY <1>2 DEF PathsKept, Alone
  <2> QED
    BY <1>1, <2>1, <2>2 DEF Alone
<1>4. ASSUME NEW k \in 1 .. N
      PROVE  /\ c[k].path.len = k
             /\ c[k].path.array \in DOMAIN some
             /\ k <= Len(some[c[k].path.array])
             /\ \A i \in 1 .. k : some[c[k].path.array][i] = c[i].type
  <2>1. /\ b[k].path.len = k /\ b[k].path.array \in DOMAIN some
        /\ k <= Len(some[b[k].path.array])
        /\ \A i \in 1 .. k : some[b[k].path.array][i] = b[i].type
    BY <1>2 DEF PathsKept
  <2>2. \A i \in 1 .. k : c[i].type = b[i].type
    BY <1>1, <1>2
  <2> QED
    BY <1>2, <2>1, <2>2
<1>5. some \in Seq(Seq(Types \cup {"nil"}))
  BY DEF PathsKept
<1> QED
  BY ONLY <1>1, <1>3, <1>4, <1>5 DEF PathsKept

\* The frame f is for a type to expand that the path Q of the frames b has not.
Fresh(b, Q, f) ==
    /\ Len(Q) = Len(b)
    /\ \A i \in 1 .. Len(b) : Q[i] = b[i].type
    /\ f.type \notin WellKnown /\ \A i \in 1 .. Len(b) : Q[i] # f.type

LEMMA PathsPush ==
  ASSUME NEW b, NEW some, PathsKept(b, some), NEW f \in Frames, NEW more,
         NEW c, c = Append(b, f), NEW Q, Fresh(b, Q, f),
         Appended(some, more, f.path, Q, f.type)
  PROVE  PathsKept(c, more)
<1> DEFINE K == Len(b)
<1>0. /\ more \in Seq(Seq(Types \cup {"nil"}))
      /\ f.path.len = K + 1 /\ f.path.array \in DOMAIN more
      /\ K + 1 <= Len(more[f.path.array])
      /\ \A i \in 1 .. K : more[f.path.array][i] = b[i].type
      /\ more[f.path.array][K + 1] = f.type
      /\ \A i \in 1 .. K : b[i].type # f.type
      /\ \A a \in DOMAIN some :
            /\ a \in DOMAIN more /\ Len(more[a]) = Len(some[a])
            /\ \A i \in 1 .. K : more[a][i] = some[a][i]
      /\ f.type \notin WellKnown
  BY DEF Appended, Fresh
<1> USE <1>0
<1>1. b \in Seq(Frames)
  BY DEF PathsKept, Alone
<1>2. /\ K \in Nat /\ DOMAIN b = 1 .. K /\ DOMAIN c = 1 .. K + 1 /\ c \in Seq(Frames)
      /\ \A k \in 1 .. K : c[k] = b[k] /\ k # K + 1
      /\ c[K + 1] = f /\ K + 1 \in 1 .. K + 1
      /\ \A k \in 1 .. K + 1 : k \in 1 .. K \/ k = K + 1
  BY <1>1
<1>3. Alone(c)
  <2>1. \A k \in 1 .. K + 1 : c[k].type \notin WellKnown
    BY <1>2 DEF PathsKept, Alone
  <2>2. \A i, j \in 1 .. K + 1 : c[i].type = c[j].type => i = j
    <3>1. \A i, j \in 1 .. K : b[i].type = b[j].type => i = j
      BY <1>2 DEF PathsKept, Alone
    <3>2. \A i \in 1 .. K : c[i].type # c[K + 1].type
      BY <1>2
    <3>3. \A i, j \in 1 .. K : c[i].type = c[j].type => i = j
      BY <1>2, <3>1
    <3> QED
      BY ONLY <1>2, <3>2, <3>3
  <2> QED
    BY <1>2, <2>1, <2>2 DEF Alone
<1>4. ASSUME NEW k \in 1 .. K
      PROVE  /\ c[k].path.len = k
             /\ c[k].path.array \in DOMAIN more
             /\ k <= Len(more[c[k].path.array])
             /\ \A i \in 1 .. k : more[c[k].path.array][i] = c[i].type
  <2>1. /\ b[k].path.len = k /\ b[k].path.array \in DOMAIN some
        /\ k <= Len(some[b[k].path.array])
        /\ \A i \in 1 .. k : some[b[k].path.array][i] = b[i].type
    BY <1>2 DEF PathsKept
  <2>2. \A i \in 1 .. k : i \in 1 .. K
    BY <1>2
  <2>3. c[k] = b[k] /\ \A i \in 1 .. k : c[i] = b[i]
    BY ONLY <1>2, <2>2, k \in 1 .. K
  <2> HIDE DEF K
  <2> DEFINE a == b[k].path.array
  <2>4. /\ a \in DOMAIN more /\ Len(more[a]) = Len(some[a])
        /\ \A i \in 1 .. K : more[a][i] = some[a][i]
    BY ONLY <1>0, <2>1
  <2>5. c[k].path.len = k /\ c[k].path.array = a /\ k <= Len(more[a])
    BY ONLY <2>1, <2>3, <2>4
  <2>6. \A i \in 1 .. k : more[a][i] = c[i].type
    BY ONLY <2>1, <2>2, <2>3, <2>4
  <2> HIDE DEF a
  <2> QED
    BY ONLY <2>4, <2>5, <2>6
<1>5. \A i \in 1 .. K + 1 : more[f.path.array][i] = c[i].type
  BY <1>2
<1> QED
  <2>1. /\ c[K + 1].path.len = K + 1
        /\ c[K + 1].path.array \in DOMAIN more
        /\ K + 1 <= Len(more[c[K + 1].path.array])
        /\ \A i \in 1 .. K + 1 : more[c[K + 1].path.array][i] = c[i].type
    BY <1>2, <1>5
  <2>2. \A k \in DOMAIN c :
           /\ c[k].path.len = k
           /\ c[k].path.array \in DOMAIN more
           /\ k <= Len(more[c[k].path.array])
           /\ \A i \in 1 .. k : more[c[k].path.array][i] = c[i].type
    BY ONLY <1>2, <1>4, <2>1
  <2>3. more \in Seq(Seq(Types \cup {"nil"}))
    OBVIOUS
  <2> QED
    BY ONLY <1>3, <2>2, <2>3 DEF PathsKept

\* A frame that returns has made all its fields.
LEMMA TreePop ==
  ASSUME NEW g \in [Types -> Seq(Types)], NEW b, Alone(b), NEW nodes, TreeKept(g, b, nodes),
         NEW K, K = Len(b), K \in Nat \ {0}, b[K].next > Len(g[b[K].type]),
         NEW c \in Seq(Frames), Len(c) = K - 1, \A k \in 1 .. K - 1 : c[k] = b[k]
  PROVE  TreeKept(g, c, nodes)
<1>1. /\ b \in Seq(Frames) /\ DOMAIN b = 1 .. K /\ DOMAIN c = 1 .. K - 1 /\ K \in 1 .. K
      /\ \A k \in 1 .. K : k \in 1 .. K - 1 \/ k = K
      /\ \A k \in 1 .. K - 1 : k \in 1 .. K
  BY DEF Alone
<1>2. ASSUME NEW k \in 1 .. K - 1 PROVE PathOf(c, k) = PathOf(b, k)
  <2>1. /\ k \in 0 .. Len(c) /\ k \in 0 .. Len(b)
        /\ \A i \in 1 .. k : c[i].type = b[i].type
    BY <1>1
  <2> QED
    BY <1>1, <2>1, SamePath
<1>3. \A k \in DOMAIN c : IsBuilt(g, c, k, nodes)
  <2>1. \A k \in 1 .. K - 1 : IsBuilt(g, b, k, nodes) /\ c[k] = b[k]
    BY <1>1 DEF TreeKept
  <2> QED
    BY <1>1, <1>2, <2>1 DEF IsBuilt
<1>4. HasFields(g, PathOf(b, K), nodes)
  <2> DEFINE p == PathOf(b, K)
  <2>1. p[Len(p)] = b[K].type /\ b[K].type \in Types /\ b[K].next \in Nat
    <3>1. b[K] \in Frames
      BY <1>1
    <3>2. b[K].type \in Types /\ b[K].next \in Nat
      BY <3>1 DEF Frames
    <3> QED
      BY <1>1, <3>2, NoLeaf
  <2>2. \A i \in DOMAIN g[b[K].type] : i < b[K].next
    <3>1. g[b[K].type] \in Seq(Types)
      BY <2>1
    <3> QED
      BY <2>1, <3>1
  <2>3. \A i \in DOMAIN g[b[K].type] : Append(p, g[b[K].type][i]) \in nodes
    BY <1>1, <2>2 DEF TreeKept, IsBuilt
  <2> HIDE DEF p
  <2> QED
    BY <2>1, <2>3 DEF HasFields, p
<1>5. ASSUME NEW p \in nodes, ~Leaf(p)
      PROVE  (\E k \in DOMAIN c : p = PathOf(c, k)) \/ HasFields(g, p, nodes)
  <2>1. (\E k \in DOMAIN b : p = PathOf(b, k)) \/ HasFields(g, p, nodes)
    BY <1>5 DEF TreeKept
  <2>2. ASSUME NEW k \in 1 .. K, p = PathOf(b, k)
        PROVE  (\E j \in DOMAIN c : p = PathOf(c, j)) \/ HasFields(g, p, nodes)
    BY <1>1, <1>2, <1>4, <2>2
  <2> QED
    BY <1>1, <2>1, <2>2
<1> QED
  BY <1>3, <1>5 DEF TreeKept

\* A path and one type more.
LEMMA LongerPath ==
  ASSUME NEW Q \in Seq(Types), NEW K, K = Len(Q), NEW t \in Types, NEW P, P = Append(Q, t)
  PROVE  /\ P \in Seq(Types) /\ P # <<>> /\ Len(P) = K + 1 /\ Len(P) - 1 = K
         /\ P[K + 1] = t /\ \A i \in 1 .. K : P[i] = Q[i]
         /\ SubSeq(P, 1, K) = Q
<1>1. /\ K \in Nat /\ P \in Seq(Types) /\ P # <<>> /\ Len(P) = K + 1 /\ P[K + 1] = t
      /\ \A i \in 1 .. K : P[i] = Q[i]
  OBVIOUS
<1>2. Len(P) - 1 = K
  BY ONLY <1>1
<1>3. \A i \in 1 .. K : P[i] \in Types
  BY <1>1
<1>4. /\ SubSeq(P, 1, K) \in Seq(Types)
      /\ Len(SubSeq(P, 1, K)) = IF 1 <= K THEN K - 1 + 1 ELSE 0
      /\ \A i \in 1 .. K - 1 + 1 : SubSeq(P, 1, K)[i] = P[1 + i - 1]
  BY <1>1, <1>3, SubSeqProperties
<1>5. /\ (IF 1 <= K THEN K - 1 + 1 ELSE 0) = K /\ K - 1 + 1 = K
      /\ \A i \in 1 .. K : 1 + i - 1 = i
  BY ONLY <1>1
<1>6. /\ Len(SubSeq(P, 1, K)) = K
      /\ \A i \in 1 .. K : SubSeq(P, 1, K)[i] = Q[i]
  BY ONLY <1>1, <1>4, <1>5
<1>7. SubSeq(P, 1, K) = Q
  BY <1>4, <1>6, SeqEqual
<1> QED
  BY ONLY <1>1, <1>2, <1>7

\* A message made for the next field of the top frame, with or without a frame.
Called(g, b, c, K, t, P) ==
    /\ K > 0 => b[K].next \in DOMAIN g[b[K].type] /\ t = g[b[K].type][b[K].next]
    /\ \A k \in 1 .. K : c[k].type = b[k].type
    /\ \A k \in 1 .. K : c[k].next = IF k = K THEN b[k].next + 1 ELSE b[k].next
    /\ \/ Len(c) = K /\ Leaf(P)
       \/ Len(c) = K + 1 /\ c[K + 1].type = t /\ c[K + 1].next = 1

LEMMA TreeMake ==
  ASSUME NEW g \in [Types -> Seq(Types)], NEW b, Alone(b), NEW nodes, TreeKept(g, b, nodes),
         NEW K, K = Len(b), NEW t \in Types, NEW P, P = Append(PathOf(b, K), t),
         NEW c \in Seq(Frames), Called(g, b, c, K, t, P)
  PROVE  TreeKept(g, c, nodes \cup {P})
<1>d. /\ K > 0 => b[K].next \in DOMAIN g[b[K].type] /\ t = g[b[K].type][b[K].next]
      /\ \A k \in 1 .. K : c[k].type = b[k].type
      /\ \A k \in 1 .. K : c[k].next = IF k = K THEN b[k].next + 1 ELSE b[k].next
      /\ \/ Len(c) = K /\ Leaf(P)
         \/ Len(c) = K + 1 /\ c[K + 1].type = t /\ c[K + 1].next = 1
  BY DEF Called
<1> USE <1>d
<1> DEFINE Q == PathOf(b, K)
           all == nodes \cup {P}
<1>0. K \in Nat /\ K \in 0 .. Len(b) /\ b \in Seq(Frames) /\ DOMAIN b = 1 .. K
  BY DEF Alone
<1>1. /\ DOMAIN c = 1 .. Len(c) /\ Len(c) \in {K, K + 1}
      /\ \A k \in 1 .. K + 1 : k \in 1 .. K \/ k = K + 1
      /\ \A k \in 1 .. K : k \in 1 .. K + 1
  BY ONLY <1>0, c \in Seq(Frames), Len(c) = K \/ Len(c) = K + 1
<1>2. /\ Q \in Seq(Types) /\ Len(Q) = K
      /\ \A i \in 1 .. K : Q[i] = b[i].type
  BY <1>0, PathIs
<1>a. P = Append(Q, t)
  OBVIOUS
<1>b. \A k \in 1 .. K : c[k].type = b[k].type
  OBVIOUS
<1>c. \A k \in 1 .. K : k \in DOMAIN c
  <2>1. K <= Len(c)
    <3>1. Len(c) = K \/ Len(c) = K + 1
      BY ONLY <1>1
    <3> HIDE DEF Q
    <3> QED
      BY ONLY <1>0, <3>1
  <2>2. K \in Nat /\ Len(c) \in Nat
    BY <1>0
  <2>3. 1 .. K \subseteq 1 .. Len(c)
    BY ONLY <2>1, <2>2
  <2> QED
    BY ONLY <1>1, <2>3
<1> HIDE DEF Q
<1>3. /\ P \in Seq(Types) /\ P # <<>> /\ Len(P) = K + 1 /\ Len(P) - 1 = K
      /\ P[K + 1] = t /\ \A i \in 1 .. K : P[i] = Q[i]
      /\ SubSeq(P, 1, K) = Q
  BY ONLY <1>2, <1>a, t \in Types, LongerPath
<1>5. \A q \in all : q \in Seq(Types) /\ q # <<>>
  BY <1>3 DEF TreeKept
<1>6. HasParent(g, P, all)
  <2> SUFFICES ASSUME Len(P) > 1 PROVE /\ Q \in all /\ ~Leaf(Q) /\ IsField(g, Q, t)
    <3>1. SubSeq(P, 1, Len(P) - 1) = Q /\ P[Len(P)] = t
      BY ONLY <1>3
    <3> HIDE DEF all
    <3> QED
      BY <3>1 DEF HasParent
  <2>1. K > 0 /\ K \in DOMAIN b
    BY ONLY <1>0, <1>3, Len(P) > 1
  <2>2. Q \in nodes
    BY <2>1 DEF TreeKept, IsBuilt, Q
  <2>3. ~Leaf(Q) /\ Q[Len(Q)] = b[K].type
    BY <2>1, NoLeaf DEF Q
  <2>4. IsField(g, Q, t)
    BY <2>1, <2>3 DEF IsField
  <2> QED
    BY <2>2, <2>3, <2>4
<1>7. \A q \in all : HasParent(g, q, all)
  BY <1>6 DEF TreeKept, HasParent
<1>8. ASSUME NEW k \in 1 .. K PROVE PathOf(c, k) = PathOf(b, k)
  <2>0. k \in DOMAIN c /\ k \in DOMAIN b
    BY <1>0, <1>c
  <2>1. /\ k \in 0 .. Len(c) /\ k \in 0 .. Len(b)
        /\ \A i \in 1 .. k : i \in 1 .. K
    BY ONLY <1>0, <2>0, c \in Seq(Frames)
  <2>2. \A i \in 1 .. k : c[i].type = b[i].type
    BY ONLY <1>b, <2>1
  <2> QED
    BY ONLY <1>0, c \in Seq(Frames), <2>1, <2>2, SamePath
<1>9. ASSUME Len(c) = K + 1, c[K + 1].type = t PROVE PathOf(c, K + 1) = P
  <2>1. K + 1 \in 0 .. Len(c)
    BY ONLY <1>0, <1>9
  <2>2. /\ PathOf(c, K + 1) \in Seq(Types) /\ Len(PathOf(c, K + 1)) = K + 1
        /\ \A i \in 1 .. K + 1 : PathOf(c, K + 1)[i] = c[i].type
    BY ONLY <2>1, c \in Seq(Frames), PathIs
  <2>3. \A i \in 1 .. K + 1 : c[i].type = P[i]
    BY ONLY <1>1, <1>2, <1>3, <1>9, <1>b
  <2>4. \A i \in 1 .. K + 1 : PathOf(c, K + 1)[i] = P[i]
    BY ONLY <2>2, <2>3
  <2> QED
    BY ONLY <1>3, <2>2, <2>4, SeqEqual
<1>10. ASSUME NEW k \in 1 .. K PROVE IsBuilt(g, c, k, all)
  <2>1. IsBuilt(g, b, k, nodes) /\ PathOf(c, k) = PathOf(b, k) /\ c[k].type = b[k].type
    BY <1>0, <1>8 DEF TreeKept
  <2>2. CASE k # K
    <3>1. c[k].next = b[k].next
      BY <2>2
    <3> QED
      BY ONLY <2>1, <3>1 DEF IsBuilt
  <2>3. CASE k = K
    <3>1. K > 0 /\ c[K].next = b[K].next + 1
      BY <1>0, <2>3
    <3>2. b[K].type \in Types /\ b[K].next \in Nat
      <4>1. b[K] \in Frames
        BY ONLY <1>0, <2>3, k \in 1 .. K
      <4> QED
        BY <4>1 DEF Frames
    <3>3. DOMAIN g[b[K].type] \subseteq Nat
      <4>1. g[b[K].type] \in Seq(Types)
        BY <3>2
      <4> QED
        BY <4>1
    <3>4. \A i \in DOMAIN g[b[K].type] :
             i < b[K].next + 1 => i < b[K].next \/ i = b[K].next
      BY ONLY <3>2, <3>3
    <3>5. Append(PathOf(b, K), g[b[K].type][b[K].next]) \in all
      BY <3>1
    <3> QED
      BY ONLY <2>1, <2>3, <3>1, <3>4, <3>5 DEF IsBuilt
  <2> QED
    BY <2>2, <2>3
<1>11. ASSUME Len(c) = K + 1, c[K + 1].type = t, c[K + 1].next = 1
       PROVE  IsBuilt(g, c, K + 1, all)
  <2>1. DOMAIN g[t] \subseteq Nat \ {0}
    <3>1. g[t] \in Seq(Types)
      OBVIOUS
    <3> QED
      BY <3>1
  <2>2. \A i \in DOMAIN g[t] : ~(i < 1)
    BY <2>1
  <2> QED
    BY <1>9, <1>11, <2>2 DEF IsBuilt
<1>12. \A k \in DOMAIN c : IsBuilt(g, c, k, all)
  <2>1. CASE Len(c) = K
    BY ONLY <1>1, <1>10, <2>1
  <2>2. CASE Len(c) = K + 1 /\ c[K + 1].type = t /\ c[K + 1].next = 1
    BY ONLY <1>1, <1>10, <1>11, <2>2
  <2> QED
    BY <2>1, <2>2
<1>13. ASSUME NEW p \in all, ~Leaf(p)
       PROVE  (\E k \in DOMAIN c : p = PathOf(c, k)) \/ HasFields(g, p, all)
  <2>1. CASE p = P
    <3>1. Len(c) = K + 1 /\ c[K + 1].type = t
      BY <1>13, <2>1
    <3>2. K + 1 \in DOMAIN c
      BY ONLY <1>0, <1>1, <3>1
    <3> QED
      BY <1>9, <2>1, <3>1, <3>2
  <2>2. CASE p \in nodes
    <3>1. (\E k \in DOMAIN b : p = PathOf(b, k)) \/ HasFields(g, p, nodes)
      BY <1>13, <2>2 DEF TreeKept
    <3>2. HasFields(g, p, nodes) => HasFields(g, p, all)
      BY DEF HasFields
    <3>3. \A k \in DOMAIN b : k \in DOMAIN c /\ PathOf(c, k) = PathOf(b, k)
      BY ONLY <1>0, <1>c, <1>8
    <3> QED
      BY ONLY <3>1, <3>2, <3>3
  <2> QED
    BY <2>1, <2>2
<1> QED
  BY <1>5, <1>7, <1>12, <1>13 DEF TreeKept

\* A call of makeTemplate: a leaf, or a frame whose path is one type longer.
LEMMA MakeStep ==
  ASSUME NEW g \in [Types -> Seq(Types)],
         PathsKept(builds, arrays), TreeKept(g, builds, tree),
         NEW K, K = Len(builds), NEW t \in Types, NEW s, Holds(s, PathOf(builds, K)),
         K > 0 => /\ builds[K].next \in DOMAIN g[builds[K].type]
                  /\ t = g[builds[K].type][builds[K].next],
         NEW below \in Seq(Frames), Len(below) = K,
         \A k \in 1 .. K : /\ below[k].type = builds[k].type
                           /\ below[k].path = builds[k].path,
         \A k \in 1 .. K :
            below[k].next = IF k = K THEN builds[k].next + 1 ELSE builds[k].next,
         Make(t, s, below)
  PROVE  PathsKept(builds', arrays') /\ TreeKept(g, builds', tree')
<1> DEFINE Q == PathOf(builds, K)
           P == Append(Q, t)
           r == AppendSlice(s, t)
           f == [type |-> t, next |-> 1, path |-> r.slice]
<1>0. /\ K \in Nat /\ K \in 0 .. K /\ K <= K
      /\ Alone(builds) /\ builds \in Seq(Frames) /\ DOMAIN builds = 1 .. K
      /\ arrays \in Seq(Seq(Types \cup {"nil"}))
  BY DEF PathsKept, Alone
<1>1. /\ \A k \in 1 .. K : below[k].type = builds[k].type
      /\ \A k \in 1 .. K : below[k].path = builds[k].path
      /\ \A k \in 1 .. K :
            below[k].next = IF k = K THEN builds[k].next + 1 ELSE builds[k].next
  OBVIOUS
<1>2. /\ Q \in Seq(Types) /\ Len(Q) = K /\ DOMAIN Q = 1 .. K
      /\ \A i \in 1 .. K : Q[i] = builds[i].type
  <2>1. K \in 0 .. Len(builds)
    BY ONLY <1>0, K = Len(builds)
  <2>2. /\ Q \in Seq(Types) /\ Len(Q) = K
        /\ \A i \in 1 .. K : Q[i] = builds[i].type
    BY ONLY <1>0, <2>1, PathIs
  <2> HIDE DEF Q
  <2> QED
    BY ONLY <2>2
<1>3. TypesOf(below) = Q
  BY ONLY <1>0, <1>1, below \in Seq(Frames), Len(below) = K, K = Len(builds), WholePath
<1>4. Slice(s) = Q
  BY ONLY <1>0, <1>2, Holds(s, PathOf(builds, K)), SliceHolds
<1>5. \A i, j \in DOMAIN Q : Q[i] = Q[j] => i = j
  <2> HIDE DEF Q
  <2>1. \A i, j \in 1 .. K : builds[i].type = builds[j].type => i = j
    BY ONLY <1>0 DEF Alone
  <2> QED
    BY ONLY <1>2, <2>1
<1> HIDE DEF Q
<1>6. P \in Seq(Types) /\ P = Append(Q, t)
  BY ONLY <1>2, t \in Types
<1>7. /\ tree' = tree \cup {P}
      /\ IF t \in WellKnown \/ \E i \in 1 .. K : Q[i] = t
         THEN builds' = below /\ UNCHANGED arrays
         ELSE builds' = Append(below, f) /\ arrays' = r.arrays
  BY ONLY <1>2, <1>3, <1>4, Make(t, s, below) DEF Make
<1> HIDE DEF P, r
<1>8. Leaf(P) <=> t \in WellKnown \/ \E i \in 1 .. K : Q[i] = t
  BY ONLY <1>2, <1>5, <1>6, t \in Types, LeafIs
<1>a. Alone(builds) /\ Holds(s, Q) /\ r = AppendSlice(s, t)
  BY <1>0 DEF Q, r
<1>b. arrays \in Seq(Seq(Types \cup {"nil"}))
  BY <1>0
<1>9. K > 0 => /\ builds[K].next \in DOMAIN g[builds[K].type]
               /\ t = g[builds[K].type][builds[K].next]
  OBVIOUS
<1>10. P = Append(PathOf(builds, K), t)
  BY ONLY <1>6 DEF Q
<1>11. PathsKept(below, arrays)
  <2>1. Len(below) <= Len(builds)
    BY ONLY <1>0, Len(below) = K, K = Len(builds)
  <2>2. \A k \in 1 .. Len(below) :
           below[k].type = builds[k].type /\ below[k].path = builds[k].path
    BY ONLY <1>1, Len(below) = K
  <2> QED
    BY ONLY PathsKept(builds, arrays), below \in Seq(Frames), <2>1, <2>2, PathsSame
<1>c. /\ g \in [Types -> Seq(Types)] /\ TreeKept(g, builds, tree) /\ K = Len(builds)
      /\ t \in Types
  OBVIOUS
<1>12. CASE Leaf(P)
  <2>1. builds' = below /\ arrays' = arrays
    BY ONLY <1>7, <1>8, <1>12
  <2>2. Called(g, builds, below, K, t, P)
    BY ONLY <1>1, <1>9, <1>12, Len(below) = K DEF Called
  <2>3. TreeKept(g, below, tree \cup {P})
    BY ONLY <1>a, <1>c, <1>10, below \in Seq(Frames), <2>2, TreeMake
  <2> QED
    BY ONLY <1>7, <1>11, <2>1, <2>3
<1>13. CASE ~Leaf(P)
  <2>1. /\ builds' = Append(below, f) /\ arrays' = r.arrays
        /\ t \notin WellKnown /\ \A i \in 1 .. K : Q[i] # t
    BY ONLY <1>7, <1>8, <1>13
  <2>2. Appended(arrays, r.arrays, r.slice, Q, t)
    <3>1. Q \in Seq(Types)
      BY <1>2
    <3> QED
      BY ONLY <1>a, <1>b, <3>1, t \in Types, AppendSliceIs
  <2>3. /\ f \in Frames /\ f.type = t /\ f.next = 1 /\ f.path = r.slice
    <3>1. r.slice \in [array : Nat, len : Nat]
      BY ONLY <2>2 DEF Appended
    <3> QED
      BY ONLY <3>1, t \in Types DEF Frames
  <2> HIDE DEF f
  <2>4. PathsKept(builds', r.arrays)
    <3>1. \A i \in 1 .. K : Q[i] = below[i].type
      BY ONLY <1>1, <1>2
    <3>2. Fresh(below, Q, f)
      BY ONLY <1>2, <2>1, <2>3, <3>1, Len(below) = K DEF Fresh
    <3>3. Appended(arrays, r.arrays, f.path, Q, f.type)
      BY ONLY <2>2, <2>3
    <3>4. builds' = Append(below, f)
      BY <2>1
    <3> QED
      BY ONLY <1>11, <2>3, <3>2, <3>3, <3>4, PathsPush
  <2> DEFINE c == Append(below, f)
  <2>5. /\ c \in Seq(Frames) /\ Len(c) = K + 1 /\ c[K + 1] = f
        /\ \A k \in 1 .. K : c[k] = below[k]
    BY ONLY <1>0, <2>3, below \in Seq(Frames), Len(below) = K
  <2>6. builds' = c
    BY <2>1
  <2> HIDE DEF c
  <2>7. Called(g, builds, c, K, t, P)
    <3>1. /\ \A k \in 1 .. K : c[k].type = builds[k].type
          /\ \A k \in 1 .. K :
                c[k].next = IF k = K THEN builds[k].next + 1 ELSE builds[k].next
          /\ Len(c) = K + 1 /\ c[K + 1].type = t /\ c[K + 1].next = 1
      BY ONLY <1>1, <2>3, <2>5
    <3> QED
      BY ONLY <1>9, <3>1 DEF Called
  <2>8. TreeKept(g, c, tree \cup {P})
    BY ONLY <1>a, <1>c, <1>10, <2>5, <2>7, TreeMake
  <2> QED
    BY ONLY <1>7, <2>1, <2>4, <2>6, <2>8
<1> QED
  BY <1>12, <1>13

LEMMA BuildStep ==
  ASSUME PathInv, TreeInv, graph \in [Types -> Seq(Types)], UNCHANGED graph,
         BuildNext \/ UNCHANGED templateVars
  PROVE  PathInv' /\ TreeInv'
<1> DEFINE K == Len(builds)
<1>1. /\ PathsKept(builds, arrays) /\ TreeKept(graph, builds, tree)
      /\ build \in {"start", "done"} => builds = <<>>
  BY KeptIs
<1>2. Alone(builds) /\ builds \in Seq(Frames) /\ K \in Nat /\ DOMAIN builds = 1 .. K
  BY <1>1 DEF PathsKept, Alone
<1>3. builds # <<>> => K \in Nat \ {0} /\ K \in DOMAIN builds
  BY <1>2
<1>4. SUFFICES /\ PathsKept(builds', arrays') /\ TreeKept(graph, builds', tree')
               /\ build' \in {"start", "done"} => builds' = <<>>
  BY KeptNext
<1>5. CASE UNCHANGED templateVars
  BY <1>1, <1>5 DEF templateVars
<1>6. CASE BuildRoot
  <2>1. PICK t \in Types : Make(t, NilSlice, <<>>)
    BY <1>6 DEF BuildRoot
  <2>2. build = "start" /\ build' = "building" /\ builds = <<>> /\ K = 0
    BY <1>1, <1>6 DEF BuildRoot
  <2>3. PathOf(builds, K) = <<>>
    <3>1. K \in 0 .. Len(builds)
      BY <1>2
    <3>2. PathOf(builds, K) \in Seq(Types) /\ Len(PathOf(builds, K)) = K
      BY <1>2, <3>1, PathIs
    <3> QED
      BY <2>2, <3>2
  <2>4. Holds(NilSlice, PathOf(builds, K))
    BY <2>3 DEF Holds
  <2> DEFINE below == <<>>
  <2>5. /\ below \in Seq(Frames) /\ Len(below) = K /\ Make(t, NilSlice, below)
        /\ \A k \in 1 .. K : /\ below[k].type = builds[k].type
                             /\ below[k].path = builds[k].path
        /\ \A k \in 1 .. K : below[k].next =
                                IF k = K THEN builds[k].next + 1 ELSE builds[k].next
        /\ ~(K > 0)
    BY <2>1, <2>2
  <2> HIDE DEF below, K
  <2>6. PathsKept(builds', arrays') /\ TreeKept(graph, builds', tree')
    BY <1>1, <2>4, <2>5, MakeStep DEF K
  <2> QED
    BY <2>2, <2>6
<1>7. CASE BuildField
  <2> DEFINE below == [builds EXCEPT ![K].next = @ + 1]
             t == graph[builds[K].type][builds[K].next]
             s == builds[K].path
  <2>1. /\ build = "building" /\ build' = build /\ builds # <<>>
        /\ builds[K].next <= Len(graph[builds[K].type]) /\ Make(t, s, below)
    BY <1>7 DEF BuildField, Building
  <2>2. builds[K] \in Frames /\ K > 0 /\ K \in 1 .. K
    BY <1>2, <1>3, <2>1
  <2>3. builds[K].type \in Types /\ builds[K].next \in Nat \ {0}
    BY <2>2 DEF Frames
  <2>4. builds[K].next \in DOMAIN graph[builds[K].type] /\ t \in Types
    <3>1. graph[builds[K].type] \in Seq(Types)
      BY <2>3
    <3> QED
      BY <2>1, <2>3, <3>1
  <2>5. Holds(s, PathOf(builds, K))
    <3>1. /\ PathOf(builds, K) \in Seq(Types) /\ Len(PathOf(builds, K)) = K
          /\ \A i \in 1 .. K : PathOf(builds, K)[i] = builds[i].type
      BY <1>2, <1>3, <2>1, NoLeaf
    <3>2. /\ s.len = K /\ s.array \in DOMAIN arrays /\ K <= Len(arrays[s.array])
          /\ \A i \in 1 .. K : arrays[s.array][i] = builds[i].type
      BY <1>1, <1>3, <2>1 DEF PathsKept
    <3>3. s \in [array : Nat, len : Nat]
      BY <2>2 DEF Frames
    <3> HIDE DEF s, K
    <3> QED
      BY <2>2, <3>1, <3>2, <3>3 DEF Holds
  <2>6. /\ below \in Seq(Frames) /\ Len(below) = K
        /\ \A k \in 1 .. K : below[k] = IF k = K THEN [builds[k] EXCEPT !.next = @ + 1]
                                                ELSE builds[k]
    <3>1. [builds[K] EXCEPT !.next = @ + 1] \in Frames
      <4> DEFINE S == [array : Nat, len : Nat]
                 e == builds[K]
      <4>1. e \in [type : Types, next : Nat \ {0}, path : S] /\ e.next + 1 \in Nat \ {0}
        BY <2>2, <2>3 DEF Frames
      <4> HIDE DEF S, e
      <4>2. [e EXCEPT !.next = @ + 1] \in [type : Types, next : Nat \ {0}, path : S]
        BY ONLY <4>1
      <4> QED
        BY <4>2 DEF Frames, S, e
    <3> HIDE DEF K
    <3> QED
      BY <1>2, <2>2, <3>1 DEF K
  <2>7. \A k \in 1 .. K :
           /\ below[k].type = builds[k].type /\ below[k].path = builds[k].path
           /\ below[k].next = IF k = K THEN builds[k].next + 1 ELSE builds[k].next
    <3>1. \A k \in 1 .. K : builds[k] \in Frames
      BY <1>2
    <3>2. \A k \in 1 .. K :
             LET e == [builds[k] EXCEPT !.next = @ + 1] IN
             e.type = builds[k].type /\ e.path = builds[k].path
             /\ e.next = builds[k].next + 1
      BY <3>1 DEF Frames
    <3> HIDE DEF K, below
    <3> QED
      BY <2>6, <3>2
  <2>8. /\ Make(t, s, below) /\ below \in Seq(Frames) /\ Len(below) = K
        /\ K > 0 => /\ builds[K].next \in DOMAIN graph[builds[K].type]
                    /\ t = graph[builds[K].type][builds[K].next]
        /\ \A k \in 1 .. K : /\ below[k].type = builds[k].type
                             /\ below[k].path = builds[k].path
        /\ \A k \in 1 .. K : below[k].next =
                                IF k = K THEN builds[k].next + 1 ELSE builds[k].next
    BY <2>1, <2>4, <2>6, <2>7
  <2>9. t \in Types
    BY <2>4
  <2> HIDE DEF below, s, t, K
  <2>10. PathsKept(builds', arrays') /\ TreeKept(graph, builds', tree')
    BY <1>1, <2>5, <2>8, <2>9, MakeStep DEF K
  <2> QED
    BY <2>1, <2>10
<1>8. CASE BuildReturns
  <2> DEFINE c == SubSeq(builds, 1, K - 1)
  <2>1. /\ build = "building" /\ build' = build /\ builds # <<>> /\ builds' = c
        /\ builds[K].next > Len(graph[builds[K].type]) /\ UNCHANGED <<arrays, tree>>
    BY <1>8 DEF BuildReturns, Building
  <2>2. K \in Nat \ {0}
    BY <1>3, <2>1
  <2>3. c \in Seq(Frames) /\ Len(c) = K - 1 /\ \A k \in 1 .. K - 1 : c[k] = builds[k]
    <3>1. \A k \in 1 .. K - 1 : builds[k] \in Frames
      BY <1>2
    <3>2. 1 \in Nat \ {0} /\ K - 1 \in Nat
      BY <2>2
    <3> HIDE DEF K
    <3>3. /\ c \in Seq(Frames)
          /\ Len(c) = IF 1 <= K - 1 THEN K - 1 - 1 + 1 ELSE 0
          /\ \A i \in 1 .. K - 1 - 1 + 1 : c[i] = builds[1 + i - 1]
      BY <1>2, <3>1, <3>2, SubSeqProperties
    <3>4. /\ (IF 1 <= K - 1 THEN K - 1 - 1 + 1 ELSE 0) = K - 1
          /\ K - 1 - 1 + 1 = K - 1 /\ \A i \in 1 .. K - 1 : 1 + i - 1 = i
      BY <3>2
    <3> HIDE DEF c
    <3> QED
      BY <3>3, <3>4
  <2> HIDE DEF c
  <2>4. PathsKept(c, arrays)
    <3>1. Len(c) <= Len(builds) /\ \A k \in 1 .. Len(c) :
             c[k].type = builds[k].type /\ c[k].path = builds[k].path
      BY <1>2, <2>2, <2>3
    <3> QED
      BY <1>1, <2>3, <3>1, PathsSame
  <2>5. TreeKept(graph, c, tree)
    <3> HIDE DEF K
    <3> QED
      BY <1>1, <1>2, <2>1, <2>2, <2>3, TreePop DEF K
  <2> QED
    BY <2>1, <2>4, <2>5
<1>9. CASE BuildEnds
  BY <1>1, <1>9 DEF BuildEnds
<1> QED
  BY <1>5, <1>6, <1>7, <1>8, <1>9 DEF BuildNext

\* What makeTemplate made so far is the unfolding of the message type.
LEMMA Unfolded ==
  ASSUME PathInv, TreeInv, graph \in [Types -> Seq(Types)]
  PROVE  TemplateUnfolds
<1>1. /\ PathsKept(builds, arrays) /\ TreeKept(graph, builds, tree)
      /\ build \in {"start", "done"} => builds = <<>>
  BY KeptIs
<1>2. Alone(builds) /\ arrays \in Seq(Seq(Types \cup {"nil"}))
  BY <1>1 DEF PathsKept
<1>3. ASSUME NEW k \in DOMAIN builds
      PROVE  /\ Slice(builds[k].path) = PathOf(builds, k)
             /\ ~Repeats(PathOf(builds, k))
  <2> DEFINE Q == PathOf(builds, k)
             s == builds[k].path
  <2>1. /\ Q \in Seq(Types) /\ Len(Q) = k /\ ~Leaf(Q)
        /\ \A i \in 1 .. k : Q[i] = builds[i].type
    BY <1>2, NoLeaf
  <2>2. /\ s.len = k /\ s.array \in DOMAIN arrays /\ k <= Len(arrays[s.array])
        /\ \A i \in 1 .. k : arrays[s.array][i] = builds[i].type
    BY <1>1 DEF PathsKept
  <2>3. builds[k] \in Frames /\ k > 0
    BY <1>2 DEF Alone
  <2>4. s \in [array : Nat, len : Nat]
    BY <2>3 DEF Frames
  <2> HIDE DEF Q, s
  <2>5. Holds(s, Q)
    BY <2>1, <2>2, <2>3, <2>4 DEF Holds
  <2>6. Slice(s) = Q
    BY <1>2, <2>1, <2>5, SliceHolds
  <2> QED
    BY <2>1, <2>6 DEF Q, s, Leaf
<1>4. ASSUME build = "done", NEW p \in tree, ~Leaf(p)
      PROVE  {graph[p[Len(p)]][i] : i \in DOMAIN graph[p[Len(p)]]}
                = {u \in Types : Append(p, u) \in tree}
  <2>1. p \in Seq(Types) /\ p # <<>> /\ p[Len(p)] \in Types
    BY <1>1 DEF TreeKept
  <2>2. HasFields(graph, p, tree)
    BY <1>1, <1>4 DEF TreeKept
  <2>3. \A i \in DOMAIN graph[p[Len(p)]] : graph[p[Len(p)]][i] \in Types
    <3>1. graph[p[Len(p)]] \in Seq(Types)
      BY <2>1
    <3> QED
      BY <3>1
  <2>4. ASSUME NEW u \in Types, Append(p, u) \in tree PROVE IsField(graph, p, u)
    <3> DEFINE q == Append(p, u)
    <3>1. /\ Len(q) - 1 = Len(p) /\ Len(q) = Len(p) + 1 /\ q[Len(p) + 1] = u
          /\ SubSeq(q, 1, Len(p)) = p
      BY <2>1, LongerPath
    <3>2. Len(p) \in Nat \ {0}
      BY <2>1
    <3>3. HasParent(graph, q, tree)
      BY <1>1, <2>4 DEF TreeKept
    <3> HIDE DEF q
    <3>4. Len(q) > 1
      BY <3>1, <3>2
    <3> QED
      BY <3>1, <3>3, <3>4 DEF HasParent
  <2> QED
    BY <2>2, <2>3, <2>4 DEF HasFields, IsField
<1>5. ASSUME NEW p \in tree, Leaf(p), NEW u \in Types
      PROVE  Append(p, u) \notin tree
  <2> DEFINE q == Append(p, u)
  <2>1. p \in Seq(Types) /\ p # <<>>
    BY <1>1 DEF TreeKept
  <2>2. /\ Len(q) - 1 = Len(p) /\ Len(q) = Len(p) + 1
        /\ SubSeq(q, 1, Len(p)) = p
    BY <2>1, LongerPath
  <2>3. Len(p) \in Nat \ {0}
    BY <2>1
  <2> SUFFICES ASSUME q \in tree PROVE FALSE
    OBVIOUS
  <2>4. HasParent(graph, q, tree)
    BY <1>1 DEF TreeKept
  <2> HIDE DEF q
  <2>5. Len(q) > 1
    BY <2>2, <2>3
  <2> QED
    BY <1>5, <2>2, <2>4, <2>5 DEF HasParent
<1>6. /\ \A k \in DOMAIN builds :
            Slice(builds[k].path) = TypesOf(SubSeq(builds, 1, k))
      /\ \A k \in DOMAIN builds : ~Repeats(TypesOf(SubSeq(builds, 1, k)))
  BY <1>3 DEF PathOf
<1> QED
  BY <1>4, <1>5, <1>6 DEF TemplateUnfolds, Leaf

LEMMA GraphKept ==
  ASSUME [Next]_vars
  PROVE  UNCHANGED graph /\ (BuildNext \/ UNCHANGED templateVars)
<1>1. CASE UNCHANGED sideVars
  BY <1>1 DEF sideVars, sourceVars
<1>2. CASE FetchExtensions \/ MakeTemplate \/ Terminated \/ UNCHANGED vars
  BY <1>2 DEF FetchExtensions, MakeTemplate, Terminated, vars, sourceVars
<1>3. CASE NextText \/ NextJsonFails \/ NextJson \/ ParsedJson
  <2>1. UNCHANGED sideVars
    BY <1>3 DEF NextText, NextJsonFails, NextJson, ParsedJson, notParsing
  <2> QED
    BY <1>1, <2>1
<1>4. CASE \E g \in Goroutines : ResolveAny(g) \/ InResolver(g) \/ AnyResolved(g)
  BY <1>1, <1>4 DEF ResolveAny, InResolver, AnyResolved, BackFromResolver
<1>5. CASE RequestUnresolved \/ ResponseUnresolved \/ OnReceiveResponse
  BY <1>1, <1>5 DEF RequestUnresolved, ResponseUnresolved, OnReceiveResponse,
                    BackFromResolver
<1>6. CASE PrintResponse \/ PrintFails
  BY <1>1, <1>6 DEF PrintResponse, PrintFails, Shown
<1> QED
  BY <1>2, <1>3, <1>4, <1>5, <1>6 DEF Next

\* The template of a message has each field of each type down to where a type would
\* contain itself, for every graph of types: calls of makeTemplate share the arrays
\* of their paths, but none writes where another reads.
THEOREM TemplatesUnfold == Spec => []TemplateUnfolds
<1> DEFINE Inv == PathInv /\ TreeInv /\ graph \in [Types -> Seq(Types)]
<1>1. Init => Inv
  <2> SUFFICES ASSUME Init PROVE Inv
    OBVIOUS
  <2>1. builds = <<>> /\ arrays = <<>> /\ tree = {} /\ graph \in Graphs
    BY DEF Init, TemplateInit
  <2>2. graph \in [Types -> Seq(Types)]
    BY <2>1, ExtensionsAssumption
  <2>3. DOMAIN builds = {} /\ DOMAIN arrays = {}
    BY <2>1
  <2>4. PathInv
    BY <2>1, <2>3 DEF PathInv
  <2>5. TreeInv
    BY <2>1, <2>3 DEF TreeInv
  <2> QED
    BY <2>2, <2>4, <2>5
<1>2. Inv /\ [Next]_vars => Inv'
  <2> SUFFICES ASSUME Inv, [Next]_vars PROVE Inv'
    OBVIOUS
  <2>1. UNCHANGED graph /\ (BuildNext \/ UNCHANGED templateVars)
    BY GraphKept
  <2> QED
    BY <2>1, BuildStep
<1>3. Inv => TemplateUnfolds
  BY Unfolded
<1> QED
  BY <1>1, <1>2, <1>3, PTL DEF Spec
-------------------------------------------------------------------------------
(* The output. *)

LEMMA RawKept ==
  ASSUME RawInv, UNCHANGED sourceVars, UNCHANGED <<responses, raw>>,
         current'["receiver"] = current["receiver"],
         "receiver" \in busy' => "receiver" \in busy,
         at'["receiver"] = "error" => MayLack(want["receiver"])'
  PROVE  RawInv'
  BY DEF RawInv, sourceVars, MayLack

LEMMA RawStep ==
  ASSUME IInv, RawInv, [Next]_vars
  PROVE  RawInv'
<1>1. /\ MessagePart /\ PrinterPart
      /\ at \in [Goroutines -> {"out", "read", "lock", "find", "extensions",
                                "message", "error"}]
  BY PartsAre DEF Parts, ResolverSafe, ResolverTypeOK
<1>2. at["receiver"] = "error" => MayLack(want["receiver"])
  BY DEF RawInv
<1>a. "sender" \in Goroutines /\ "receiver" \in Goroutines
  BY FormatsAssumption
<1> DEFINE Idle == /\ UNCHANGED sourceVars
                   /\ UNCHANGED <<responses, raw>>
                   /\ current'["receiver"] = current["receiver"]
                   /\ "receiver" \in busy' => "receiver" \in busy
<1>3. ASSUME Idle, at'["receiver"] \in {"out", at["receiver"]},
             want'["receiver"] = want["receiver"]
      PROVE  RawInv'
  BY <1>2, <1>3, RawKept DEF MayLack, sourceVars
<1>4. CASE FetchExtensions \/ MakeTemplate \/ Terminated \/ UNCHANGED vars
  <2>1. UNCHANGED sourceVars /\ UNCHANGED callVars
    BY <1>4 DEF FetchExtensions, MakeTemplate, Terminated, vars
  <2>2. Idle /\ UNCHANGED <<at, want>>
    BY <2>1 DEF callVars, printerVars, messageVars, resolverVars
  <2> QED
    BY <1>3, <2>2
<1>5. CASE NextText \/ NextJsonFails
  <2>1. UNCHANGED sideVars /\ UNCHANGED <<messageVars, printerVars, resolverVars>>
    BY <1>5 DEF NextText, NextJsonFails, notParsing
  <2>2. Idle /\ UNCHANGED <<at, want>>
    BY <2>1 DEF sideVars, printerVars, messageVars, resolverVars
  <2> QED
    BY <1>3, <2>2
<1>6. CASE NextJson \/ ParsedJson
  <2>1. /\ UNCHANGED sideVars /\ UNCHANGED <<printerVars, resolverVars>>
        /\ "receiver" \in busy' => "receiver" \in busy
        /\ \/ \E m : current' = [current EXCEPT !["sender"] = m]
           \/ UNCHANGED current
    BY <1>6 DEF NextJson, ParsedJson
  <2>2. current'["receiver"] = current["receiver"]
    BY <1>a, <1>1, <2>1 DEF MessagePart
  <2>3. Idle /\ UNCHANGED <<at, want>>
    BY <2>1, <2>2 DEF sideVars, printerVars, resolverVars
  <2> QED
    BY <1>3, <2>3
<1>7. CASE RequestUnresolved \/ \E g \in Goroutines : AnyResolved(g)
  <2>1. PICK g \in Goroutines :
           /\ UNCHANGED sideVars /\ UNCHANGED printerVars /\ UNCHANGED <<current, want>>
           /\ at' = [at EXCEPT ![g] = "out"]
           /\ busy' \subseteq busy
    BY <1>a, <1>7 DEF RequestUnresolved, AnyResolved, BackFromResolver
  <2>2. Idle
    BY <2>1 DEF sideVars, printerVars
  <2>3. at'["receiver"] \in {"out", at["receiver"]}
    BY <1>a, <1>1, <2>1
  <2> QED
    BY <1>3, <2>1, <2>2, <2>3
<1>8. CASE \E g \in Goroutines : ResolveAny(g)
  <2>1. PICK g \in Goroutines : ResolveAny(g)
    BY <1>8
  <2>2. PICK t : /\ UNCHANGED sideVars /\ UNCHANGED printerVars /\ UNCHANGED messageVars
                 /\ at' = [at EXCEPT ![g] = "read"] /\ want' = [want EXCEPT ![g] = t]
    BY <2>1 DEF ResolveAny, Resolve
  <2>3. Idle
    BY <2>2 DEF sideVars, printerVars, messageVars
  <2>4. CASE g = "receiver"
    <3>1. at'["receiver"] = "read"
      BY <1>a, <1>1, <2>2, <2>4
    <3> QED
      BY <2>3, <3>1, RawKept
  <2>5. CASE g # "receiver"
    <3>1. at'["receiver"] = at["receiver"] /\ want'["receiver"] = want["receiver"]
      BY <1>a, <1>1, <2>2, <2>5 DEF MessagePart
    <3> QED
      BY <1>3, <2>3, <3>1
  <2> QED
    BY <2>4, <2>5
<1>9. CASE \E g \in Goroutines : InResolver(g)
  <2>1. PICK g \in Goroutines : InResolver(g)
    BY <1>9
  <2>2. /\ UNCHANGED sideVars /\ UNCHANGED printerVars /\ UNCHANGED messageVars
        /\ ResolverStep(g)
    BY <2>1 DEF InResolver
  <2>3. Idle
    BY <2>2 DEF sideVars, printerVars, messageVars
  <2>4. /\ UNCHANGED want
        /\ \E s : /\ at' = [at EXCEPT ![g] = s]
                  /\ s = "error" => MayLack(want[g])
    BY <2>2 DEF ResolverStep, ReadCache, LockAndCheck, FindType, AddExtensions, Leave
  <2>5. at'["receiver"] = "error" => MayLack(want["receiver"])'
    BY <1>a, <1>1, <1>2, <2>3, <2>4 DEF MayLack, sourceVars
  <2> QED
    BY <2>3, <2>5, RawKept
<1>10. CASE ResponseUnresolved
  <2>1. /\ at["receiver"] = "error" /\ UNCHANGED sideVars
        /\ at' = [at EXCEPT !["receiver"] = "out"]
        /\ raw' = raw \cup ({want["receiver"]} \ Registered)
        /\ UNCHANGED <<busy, responses, current>>
    BY <1>10 DEF ResponseUnresolved, BackFromResolver
  <2>2. want["receiver"] \in Types
    BY <1>a, <1>1, <2>1 DEF MessagePart
  <2>3. at'["receiver"] = "out"
    BY <1>a, <1>1, <2>1
  <2>4. UNCHANGED origins
    BY <2>1 DEF sideVars, sourceVars
  <2> QED
    BY <1>2, <2>1, <2>2, <2>3, <2>4 DEF RawInv, MayLack
<1>11. CASE OnReceiveResponse
  <2>1. PICK m \in Responses :
           /\ "receiver" \notin busy /\ UNCHANGED sideVars /\ UNCHANGED resolverVars
           /\ responses' = Append(responses, m) /\ raw' = {}
           /\ current' = [current EXCEPT !["receiver"] = m]
    BY <1>11 DEF OnReceiveResponse
  <2>2. current'["receiver"] = m
    BY <1>a, <1>1, <2>1 DEF MessagePart
  <2>3. responses' # <<>> /\ responses'[Len(responses')] = m
    BY <1>1, <2>1 DEF PrinterPart
  <2>4. at'["receiver"] # "error"
    BY <1>a, <1>1, <2>1 DEF MessagePart, resolverVars
  <2> QED
    BY <2>1, <2>2, <2>3, <2>4 DEF RawInv
<1>12. CASE PrintResponse \/ PrintFails
  <2>1. PICK text : Shown(text)
    BY <1>12 DEF PrintResponse, PrintFails
  <2>2. /\ UNCHANGED sideVars /\ UNCHANGED resolverVars
        /\ busy' = busy \ {"receiver"} /\ UNCHANGED <<responses, raw, current>>
    BY <2>1 DEF Shown
  <2>3. Idle /\ UNCHANGED <<at, want>>
    BY <2>2 DEF sideVars, resolverVars
  <2> QED
    BY <1>3, <2>3
<1> QED
  BY <1>4, <1>5, <1>6, <1>7, <1>8, <1>9, <1>10, <1>11, <1>12 DEF Next

\* StdoutInv as a predicate of the output.
Output(out, messages, n, failed) ==
    /\ format \in {"json", "text"}
    /\ out \in Seq(SUBSET (Fields \cup {"bad", "RS", "raw"}))
    /\ \E g \in 0 .. Len(messages) :
          /\ BeginsWith(out, g, messages)
          /\ failed = 0 => /\ g = n
                           /\ Len(out) = IF g = 0 THEN 0 ELSE RecordAt(g)
          /\ failed > 0 => /\ FailureAt(g) \in 1 .. Len(out)
                           /\ out[FailureAt(g)] = {"bad"}

LEMMA OutputNext ==
  ASSUME UNCHANGED sourceVars
  PROVE  StdoutInv' <=> Output(stdout', responses', formatted', failures')
<1>1. format' = format /\ origins' = origins
  BY DEF sourceVars
<1> QED
  BY <1>1 DEF StdoutInv, Output, BeginsWith, Faithful, RecordAt, FailureAt, MayLack

\* The text c is out and then more.
Continues(c, out, more) ==
    /\ Len(c) = Len(out) + Len(more)
    /\ \A k \in 1 .. Len(out) :
          /\ k \in 1 .. Len(c) /\ c[k] = out[k]
          /\ SeparatorsIn(c, k) = SeparatorsIn(out, k)
    /\ \A k \in 1 .. Len(more) : c[Len(out) + k] = more[k]

LEMMA LongerText ==
  ASSUME NEW S, NEW out \in Seq(S), NEW more \in Seq(S), NEW c, c = out \o more
  PROVE  c \in Seq(S) /\ Continues(c, out, more)
<1> DEFINE n == Len(out)
           m == Len(more)
<1>1. n \in Nat /\ m \in Nat
  OBVIOUS
<1>2. /\ c \in Seq(S) /\ Len(c) = n + m
      /\ \A k \in 1 .. n + m : c[k] = IF k <= n THEN out[k] ELSE more[k - n]
  BY ConcatProperties
<1> HIDE DEF n, m
<1>3. \A k \in 1 .. n : k \in 1 .. n + m /\ k <= n
  BY ONLY <1>1
<1>4. \A k \in 1 .. n : c[k] = out[k]
  BY ONLY <1>2, <1>3
<1>5. ASSUME NEW k \in 1 .. n PROVE SeparatorsIn(c, k) = SeparatorsIn(out, k)
  <2>1. \A j \in 1 .. k : j \in 1 .. n
    BY ONLY <1>1, k \in 1 .. n
  <2>2. {j \in 1 .. k : c[j] = RS} = {j \in 1 .. k : out[j] = RS}
    BY ONLY <1>4, <2>1
  <2> QED
    BY <2>2 DEF SeparatorsIn
<1>6. ASSUME NEW k \in 1 .. m PROVE c[n + k] = more[k]
  <2>1. n + k \in 1 .. n + m /\ ~(n + k <= n) /\ (n + k) - n = k
    BY ONLY <1>1, k \in 1 .. m
  <2> DEFINE j == n + k
  <2>2. j \in 1 .. n + m /\ ~(j <= n) /\ j - n = k
    BY <2>1
  <2> HIDE DEF j
  <2>3. c[j] = more[j - n]
    BY ONLY <1>2, <2>2
  <2> QED
    BY ONLY <2>2, <2>3 DEF j
<1> QED
  BY <1>2, <1>3, <1>4, <1>5, <1>6 DEF n, m, Continues

LEMMA BeginsLonger ==
  ASSUME NEW S, NEW out \in Seq(S), NEW more \in Seq(S), NEW c, c = out \o more,
         NEW g, NEW messages, BeginsWith(out, g, messages)
  PROVE  BeginsWith(c, g, messages)
<1>1. \A k \in 1 .. Len(out) :
         /\ k \in 1 .. Len(c) /\ c[k] = out[k]
         /\ SeparatorsIn(c, k) = SeparatorsIn(out, k)
  <2>1. Continues(c, out, more)
    BY LongerText
  <2> QED
    BY ONLY <2>1 DEF Continues
<1> QED
  BY ONLY <1>1, BeginsWith(out, g, messages) DEF BeginsWith

\* One more response is received, formatted and printed, or not formatted.
LEMMA OutputReceives ==
  ASSUME NEW out, NEW messages \in Seq(Responses), NEW n, NEW failed,
         Output(out, messages, n, failed), NEW m \in Responses,
         NEW c, c = Append(messages, m)
  PROVE  Output(out, c, n, failed)
<1>1. PICK g \in 0 .. Len(messages) :
         /\ BeginsWith(out, g, messages)
         /\ failed = 0 => /\ g = n
                          /\ Len(out) = IF g = 0 THEN 0 ELSE RecordAt(g)
         /\ failed > 0 => /\ FailureAt(g) \in 1 .. Len(out)
                          /\ out[FailureAt(g)] = {"bad"}
  BY DEF Output
<1>2. g \in 0 .. Len(c) /\ \A i \in 1 .. g : c[i] = messages[i]
  OBVIOUS
<1>3. BeginsWith(out, g, c)
  BY <1>1, <1>2 DEF BeginsWith
<1>4. /\ format \in {"json", "text"}
      /\ out \in Seq(SUBSET (Fields \cup {"bad", "RS", "raw"}))
  BY DEF Output
<1> QED
  BY ONLY <1>1, <1>2, <1>3, <1>4 DEF Output

LEMMA OutputFails ==
  ASSUME NEW out, NEW messages \in Seq(Responses), NEW n, NEW failed \in Nat,
         Output(out, messages, n, failed), NEW c, c = out \o <<{"bad"}>>
  PROVE  Output(c, messages, n, failed + 1)
<1> DEFINE S == SUBSET (Fields \cup {"bad", "RS", "raw"})
           bad == <<{"bad"}>>
<1>1. PICK g \in 0 .. Len(messages) :
         /\ BeginsWith(out, g, messages)
         /\ failed = 0 => /\ g = n
                          /\ Len(out) = IF g = 0 THEN 0 ELSE RecordAt(g)
         /\ failed > 0 => /\ FailureAt(g) \in 1 .. Len(out)
                          /\ out[FailureAt(g)] = {"bad"}
  BY DEF Output
<1>2. format \in {"json", "text"} /\ out \in Seq(S)
  BY DEF Output
<1>3. bad \in Seq(S) /\ Len(bad) = 1 /\ bad[1] = {"bad"} /\ 1 \in 1 .. 1 /\ c = out \o bad
  OBVIOUS
<1> HIDE DEF S, bad
<1>4. /\ c \in Seq(S) /\ Len(c) = Len(out) + 1
      /\ \A k \in 1 .. Len(out) : k \in 1 .. Len(c) /\ c[k] = out[k]
      /\ c[Len(out) + 1] = {"bad"}
  <2>1. c \in Seq(S) /\ Continues(c, out, bad)
    BY ONLY <1>2, <1>3, LongerText
  <2> QED
    BY ONLY <1>3, <2>1 DEF Continues
<1>5. BeginsWith(c, g, messages)
  BY ONLY <1>1, <1>2, <1>3, BeginsLonger
<1>6. FailureAt(g) \in 1 .. Len(c) /\ c[FailureAt(g)] = {"bad"}
  <2>1. CASE failed > 0
    BY ONLY <1>1, <1>4, <2>1
  <2>2. CASE ~(failed > 0)
    <3>1. failed = 0
      BY <2>2
    <3>2. g \in Nat /\ Len(out) \in Nat
      BY <1>2
    <3>3. Len(out) = IF g = 0 THEN 0 ELSE RecordAt(g)
      BY ONLY <1>1, <3>1
    <3>4. FailureAt(g) = Len(out) + 1
      BY ONLY <1>2, <3>2, <3>3 DEF FailureAt, RecordAt
    <3>5. Len(out) + 1 \in 1 .. Len(c)
      BY ONLY <1>4, <3>2
    <3> QED
      BY ONLY <1>4, <3>4, <3>5
  <2> QED
    BY <2>1, <2>2
<1>7. failed + 1 # 0
  OBVIOUS
<1> QED
  BY ONLY <1>1, <1>2, <1>4, <1>5, <1>6, <1>7 DEF Output, S

LEMMA OutputPrints ==
  ASSUME NEW out, NEW messages \in Seq(Responses), NEW n \in Nat, NEW failed \in Nat,
         Output(out, messages, n, failed), n + failed = Len(messages) - 1,
         NEW e \in SUBSET (Fields \cup {"bad", "RS", "raw"}), e # RS, "bad" \notin e,
         Faithful(e, messages[Len(messages)]),
         NEW more, more = IF format = "text" /\ n > 0 THEN <<RS, e>> ELSE <<e>>,
         NEW c, c = out \o more
  PROVE  Output(c, messages, n + 1, failed)
<1> DEFINE S == SUBSET (Fields \cup {"bad", "RS", "raw"})
           L == Len(out)
           N == Len(messages)
<1>1. PICK g \in 0 .. N :
         /\ BeginsWith(out, g, messages)
         /\ failed = 0 => /\ g = n
                          /\ L = IF g = 0 THEN 0 ELSE RecordAt(g)
         /\ failed > 0 => /\ FailureAt(g) \in 1 .. L
                          /\ out[FailureAt(g)] = {"bad"}
  BY DEF Output
<1>2. format \in {"json", "text"} /\ out \in Seq(S) /\ L \in Nat /\ N \in Nat
  BY DEF Output
<1>3. more \in Seq(S) /\ Len(more) \in Nat
  <2>1. RS \in S /\ e \in S
    BY DEF RS
  <2> HIDE DEF S
  <2>2. <<RS, e>> \in Seq(S) /\ <<e>> \in Seq(S)
    BY ONLY <2>1
  <2> QED
    BY <2>2
<1>4. /\ format = "text" /\ n > 0 => Len(more) = 2 /\ more[1] = RS /\ more[2] = e
      /\ ~(format = "text" /\ n > 0) => Len(more) = 1 /\ more[1] = e
  OBVIOUS
<1>5. /\ n + failed = N - 1 /\ n \in Nat /\ failed \in Nat /\ c = out \o more
      /\ e # RS /\ "bad" \notin e /\ Faithful(e, messages[N])
  OBVIOUS
<1> HIDE DEF S, L, N
<1>6. /\ c \in Seq(S) /\ Len(c) = L + Len(more)
      /\ \A k \in 1 .. L : /\ k \in 1 .. Len(c) /\ c[k] = out[k]
                           /\ SeparatorsIn(c, k) = SeparatorsIn(out, k)
      /\ \A k \in 1 .. Len(more) : c[L + k] = more[k]
  <2>1. c \in Seq(S) /\ Continues(c, out, more)
    BY ONLY <1>2, <1>3, <1>5, LongerText
  <2> QED
    BY ONLY <2>1 DEF Continues, L
<1>7. BeginsWith(c, g, messages)
  BY ONLY <1>1, <1>2, <1>3, <1>5, BeginsLonger
<1>8. CASE failed > 0
  <2>1. FailureAt(g) \in 1 .. Len(c) /\ c[FailureAt(g)] = {"bad"}
    BY ONLY <1>1, <1>6, <1>8
  <2>2. failed # 0
    BY <1>8
  <2> QED
    BY ONLY <1>1, <1>2, <1>6, <1>7, <1>8, <2>1, <2>2 DEF Output, S, N
<1>9. CASE failed = 0
  <2>1. g = n /\ g \in Nat /\ g + 1 = N /\ L = IF g = 0 THEN 0 ELSE RecordAt(g)
    BY ONLY <1>1, <1>2, <1>5, <1>9
  <2>2. Len(c) = RecordAt(g + 1) /\ c[Len(c)] = e /\ Len(c) \in 1 .. Len(c)
    <3>1. CASE format = "text" /\ n > 0
      <4>1. Len(more) = 2 /\ more[2] = e /\ 2 \in 1 .. 2
        BY ONLY <1>4, <3>1
      <4>2. Len(c) = L + 2 /\ c[L + 2] = e
        BY ONLY <1>6, <4>1
      <4>3. L + 2 = RecordAt(g + 1) /\ L + 2 \in 1 .. L + 2
        BY ONLY <1>2, <2>1, <3>1 DEF RecordAt
      <4> QED
        BY ONLY <4>2, <4>3
    <3>2. CASE ~(format = "text" /\ n > 0)
      <4>1. Len(more) = 1 /\ more[1] = e /\ 1 \in 1 .. 1
        BY ONLY <1>4, <3>2
      <4>2. Len(c) = L + 1 /\ c[L + 1] = e
        BY ONLY <1>6, <4>1
      <4>3. L + 1 = RecordAt(g + 1) /\ L + 1 \in 1 .. L + 1
        BY ONLY <1>2, <2>1, <3>2, n \in Nat DEF RecordAt
      <4> QED
        BY ONLY <4>2, <4>3
    <3> QED
      BY <3>1, <3>2
  <2>3. ASSUME format = "text"
        PROVE  /\ SeparatorsIn(c, RecordAt(g + 1)) = g
               /\ g > 0 => /\ RecordAt(g) + 1 \in 1 .. Len(c)
                           /\ c[RecordAt(g) + 1] = RS
    <3>1. CASE g = 0
      <4>1. RecordAt(g + 1) = 1 /\ L = 0
        BY ONLY <2>1, <2>3, <3>1 DEF RecordAt
      <4>2. c[1] # RS
        BY ONLY <1>5, <2>2, <4>1
      <4>3. {j \in 1 .. 1 : c[j] = RS} = {}
        BY ONLY <4>2
      <4>4. SeparatorsIn(c, 1) = 0
        BY <4>3, FS_EmptySet DEF SeparatorsIn
      <4> QED
        BY <3>1, <4>1, <4>4
    <3>2. CASE g # 0
      <4>1. /\ Len(more) = 2 /\ more[1] = RS /\ 1 \in 1 .. 2
            /\ L = RecordAt(g) /\ RecordAt(g + 1) = L + 2 /\ L \in 1 .. L
        <5>1. n > 0
          BY ONLY <2>1, <3>2
        <5>2. L = RecordAt(g) /\ RecordAt(g + 1) = L + 2 /\ L \in 1 .. L
          BY ONLY <2>1, <2>3, <3>2 DEF RecordAt
        <5> QED
          BY ONLY <1>4, <2>3, <5>1, <5>2
      <4>2. c[L + 1] = RS /\ Len(c) = L + 2 /\ L + 1 \in 1 .. L + 2
        <5>1. c[L + 1] = RS /\ Len(c) = L + 2
          BY ONLY <1>6, <4>1
        <5> QED
          BY ONLY <1>2, <5>1
      <4>3. SeparatorsIn(c, L) = g - 1
        <5>1. g \in 1 .. g
          BY ONLY <2>1, <3>2
        <5>2. SeparatorsIn(out, L) = g - 1
          BY ONLY <1>1, <2>3, <4>1, <5>1 DEF BeginsWith
        <5> QED
          BY ONLY <1>6, <4>1, <5>2
      <4>4. SeparatorsIn(c, L + 1) = SeparatorsIn(c, L) + 1
        <5>1. L + 1 \in Nat /\ L <= L + 1 /\ L < L + 1 /\ \A j \in L + 1 .. L + 1 - 1 : FALSE
          BY ONLY <1>2
        <5> QED
          BY ONLY <1>2, <4>2, <5>1, SeparatorsGrow
      <4>5. SeparatorsIn(c, L + 2) = SeparatorsIn(c, L + 1)
        <5>1. /\ L + 1 \in Nat /\ L + 2 \in Nat /\ L + 1 <= L + 2
              /\ \A j \in L + 1 + 1 .. L + 2 : j = L + 2
          BY ONLY <1>2
        <5>2. c[L + 2] # RS
          BY ONLY <1>5, <2>2, <4>2
        <5> QED
          BY ONLY <5>1, <5>2, SeparatorsGrow
      <4> QED
        <5>1. g - 1 + 1 = g
          BY ONLY <2>1
        <5> QED
          BY ONLY <4>1, <4>2, <4>3, <4>4, <4>5, <5>1
    <3> QED
      BY <3>1, <3>2
  <2>4. BeginsWith(c, g + 1, messages)
    <3> SUFFICES ASSUME NEW i \in 1 .. g + 1
                 PROVE  /\ RecordAt(i) \in 1 .. Len(c)
                        /\ c[RecordAt(i)] # RS /\ "bad" \notin c[RecordAt(i)]
                        /\ Faithful(c[RecordAt(i)], messages[i])
                        /\ format = "text" =>
                              /\ SeparatorsIn(c, RecordAt(i)) = i - 1
                              /\ i < g + 1 => /\ RecordAt(i) + 1 \in 1 .. Len(c)
                                              /\ c[RecordAt(i) + 1] = RS
      BY DEF BeginsWith
    <3>1. CASE i = g + 1
      <4>1. g + 1 - 1 = g /\ ~(i < g + 1)
        BY ONLY <2>1, <3>1
      <4> QED
        BY ONLY <1>5, <2>1, <2>2, <2>3, <3>1, <4>1
    <3>2. CASE i # g + 1
      <4>1. i \in 1 .. g /\ (i < g \/ i = g) /\ (i = g => g > 0)
        BY ONLY <2>1, <3>2, i \in 1 .. g + 1
      <4> QED
        BY ONLY <1>7, <2>3, <4>1 DEF BeginsWith
    <3> QED
      BY <3>1, <3>2
  <2>5. /\ g + 1 \in 0 .. N /\ g + 1 = n + 1 /\ ~(failed > 0)
        /\ Len(c) = IF g + 1 = 0 THEN 0 ELSE RecordAt(g + 1)
    BY ONLY <1>9, <2>1, <2>2
  <2> QED
    BY ONLY <1>2, <1>6, <2>4, <2>5 DEF Output, S, N
<1> QED
  BY ONLY <1>5, <1>8, <1>9

LEMMA PairIs ==
  ASSUME NEW a, NEW b
  PROVE  Append(<<a>>, b) = <<a, b>>
<1> DEFINE S == {a, b}
           s == Append(<<a>>, b)
<1>1. /\ s \in Seq(S) /\ <<a, b>> \in Seq(S) /\ Len(s) = 2 /\ Len(<<a, b>>) = 2
      /\ s[1] = a /\ s[2] = b /\ <<a, b>>[1] = a /\ <<a, b>>[2] = b
  OBVIOUS
<1>2. \A i \in 1 .. 2 : i = 1 \/ i = 2
  OBVIOUS
<1> HIDE DEF s
<1> QED
  BY <1>1, <1>2, SeqEqual DEF s

LEMMA StdoutStep ==
  ASSUME IInv, RawInv, StdoutInv, [Next]_vars
  PROVE  StdoutInv'
<1>1. PrinterPart /\ MessagePart
  BY PartsAre DEF Parts
<1>2. Output(stdout, responses, formatted, failures)
  BY DEF StdoutInv, Output
<1>3. ASSUME UNCHANGED sourceVars, UNCHANGED <<stdout, responses, formatted, failures>>
      PROVE  StdoutInv'
  BY <1>2, <1>3, OutputNext
<1>4. CASE FetchExtensions \/ MakeTemplate \/ Terminated \/ UNCHANGED vars
  <2>1. UNCHANGED sourceVars /\ UNCHANGED callVars
    BY <1>4 DEF FetchExtensions, MakeTemplate, Terminated, vars
  <2> QED
    BY <1>3, <2>1 DEF callVars, printerVars
<1>5. CASE NextText \/ NextJsonFails \/ NextJson \/ ParsedJson \/ RequestUnresolved
  <2>1. UNCHANGED sideVars /\ UNCHANGED printerVars
    BY <1>5 DEF NextText, NextJsonFails, NextJson, ParsedJson, RequestUnresolved,
                BackFromResolver, notParsing
  <2> QED
    BY <1>3, <2>1 DEF sideVars, printerVars
<1>6. CASE \E g \in Goroutines : ResolveAny(g) \/ InResolver(g) \/ AnyResolved(g)
  <2>1. UNCHANGED sideVars /\ UNCHANGED printerVars
    BY <1>6 DEF ResolveAny, InResolver, AnyResolved, BackFromResolver
  <2> QED
    BY <1>3, <2>1 DEF sideVars, printerVars
<1>7. CASE ResponseUnresolved
  <2>1. UNCHANGED sideVars /\ UNCHANGED <<stdout, responses, formatted, failures>>
    BY <1>7 DEF ResponseUnresolved, BackFromResolver
  <2> QED
    BY <1>3, <2>1 DEF sideVars
<1>8. CASE OnReceiveResponse
  <2>1. PICK m \in Responses :
           /\ UNCHANGED sideVars /\ responses' = Append(responses, m)
           /\ UNCHANGED <<formatted, failures, stdout>>
    BY <1>8 DEF OnReceiveResponse
  <2>2. responses \in Seq(Responses)
    BY <1>1 DEF PrinterPart
  <2>3. Output(stdout, responses', formatted, failures)
    BY ONLY <1>2, <2>1, <2>2, OutputReceives
  <2>4. Output(stdout', responses', formatted', failures')
    BY ONLY <2>1, <2>3
  <2> QED
    BY <2>1, <2>4, OutputNext DEF sideVars
<1>9. ASSUME NEW text, Shown(text)
      PROVE  /\ UNCHANGED sourceVars /\ stdout' = stdout \o text
             /\ responses' = responses /\ responses \in Seq(Responses)
             /\ formatted \in Nat /\ failures \in Nat
             /\ formatted + failures = Len(responses) - 1
             /\ responses # <<>> /\ current["receiver"] = responses[Len(responses)]
  <2>1. /\ UNCHANGED sideVars /\ stdout' = stdout \o text /\ responses' = responses
        /\ "receiver" \in busy
    BY <1>9 DEF Shown
  <2> QED
    BY <1>1, <2>1 DEF PrinterPart, RawInv, sideVars
<1>10. CASE PrintFails
  <2>1. Shown(<<{"bad"}>>) /\ failures' = failures + 1 /\ formatted' = formatted
    BY <1>10 DEF PrintFails
  <2>2. /\ UNCHANGED sourceVars /\ stdout' = stdout \o <<{"bad"}>>
        /\ responses' = responses /\ responses \in Seq(Responses) /\ failures \in Nat
    BY <1>9, <2>1
  <2>3. Output(stdout', responses, formatted, failures + 1)
    BY ONLY <1>2, <2>2, OutputFails
  <2>4. Output(stdout', responses', formatted', failures')
    BY ONLY <2>1, <2>2, <2>3
  <2> QED
    BY <2>2, <2>4, OutputNext
<1>11. CASE PrintResponse
  <2> DEFINE m == responses[Len(responses)]
             e == (m \ raw) \cup (IF raw = {} THEN {} ELSE {"raw"})
             more == IF format = "text" /\ formatted > 0 THEN <<RS, e>> ELSE <<e>>
  <2>1. PICK text :
           /\ Shown(text) /\ formatted' = formatted + 1 /\ failures' = failures
           /\ text = Append(Separator, (current["receiver"] \ raw)
                                          \cup (IF raw = {} THEN {} ELSE {"raw"}))
    BY <1>11 DEF PrintResponse
  <2>2. /\ UNCHANGED sourceVars /\ stdout' = stdout \o text
        /\ responses' = responses /\ responses \in Seq(Responses)
        /\ formatted \in Nat /\ failures \in Nat
        /\ formatted + failures = Len(responses) - 1
        /\ responses # <<>> /\ current["receiver"] = m
    BY <1>9, <2>1
  <2>3. text = Append(Separator, e)
    BY <2>1, <2>2
  <2>4. m \in Responses /\ m \subseteq Fields
    <3>1. m \in Responses
      BY ONLY <2>2
    <3> QED
      BY <3>1, FormatsAssumption
  <2> HIDE DEF m
  <2>5. /\ e \in SUBSET (Fields \cup {"bad", "RS", "raw"})
        /\ "bad" \notin e /\ e # RS
    BY <2>4, FormatsAssumption DEF RS
  <2>6. Faithful(e, m)
    <3>1. raw \subseteq Types \ Registered
      BY DEF RawInv
    <3>2. \A t \in raw : MayLack(t)
      BY DEF RawInv
    <3>3. e \ {"raw"} \subseteq m /\ m \ e \subseteq raw
      OBVIOUS
    <3>4. m # e => "raw" \in e
      OBVIOUS
    <3> HIDE DEF e
    <3> QED
      BY <3>1, <3>2, <3>3, <3>4 DEF Faithful
  <2> HIDE DEF e
  <2>7. text = more
    <3>1. CASE format = "text" /\ formatted > 0
      <4>1. Separator = <<RS>>
        BY <3>1 DEF Separator
      <4>2. Append(<<RS>>, e) = <<RS, e>>
        BY PairIs
      <4> QED
        BY <2>3, <3>1, <4>1, <4>2
    <3>2. CASE ~(format = "text" /\ formatted > 0)
      <4>1. Separator = <<>>
        BY <3>2 DEF Separator
      <4> QED
        BY <2>3, <3>2, <4>1
    <3> QED
      BY <3>1, <3>2
  <2>8. Output(stdout', responses, formatted + 1, failures)
    <3>1. Faithful(e, responses[Len(responses)])
      BY <2>6 DEF m
    <3> QED
      BY ONLY <1>2, <2>2, <2>5, <2>7, <3>1, OutputPrints
  <2>9. Output(stdout', responses', formatted', failures')
    BY ONLY <2>1, <2>2, <2>8
  <2> QED
    BY <2>2, <2>9, OutputNext
<1> QED
  BY <1>4, <1>5, <1>6, <1>7, <1>8, <1>10, <1>11 DEF Next

\* A record of a text, as in Records.
Record(text, i) ==
    UNION {text[k] : k \in {k \in 1 .. Len(text) :
               text[k] # RS /\ SeparatorsIn(text, k) = i - 1}}

LEMMA PrintedIs ==
  ASSUME NEW S, stdout \in Seq(S), format \in {"json", "text"}
  PROVE  /\ format = "json" => Printed = stdout
         /\ format = "text" =>
              /\ Len(Printed) = SeparatorsIn(stdout, Len(stdout)) + 1
              /\ DOMAIN Printed = 1 .. SeparatorsIn(stdout, Len(stdout)) + 1
              /\ \A i \in 1 .. SeparatorsIn(stdout, Len(stdout)) + 1 :
                    Printed[i] = Record(stdout, i)
<1>1. format = "json" => Printed = stdout
  BY DEF Printed, Records
<1>2. ASSUME format = "text"
      PROVE  /\ Len(Printed) = SeparatorsIn(stdout, Len(stdout)) + 1
             /\ DOMAIN Printed = 1 .. SeparatorsIn(stdout, Len(stdout)) + 1
             /\ \A i \in 1 .. SeparatorsIn(stdout, Len(stdout)) + 1 :
                    Printed[i] = Record(stdout, i)
  <2> DEFINE N == SeparatorsIn(stdout, Len(stdout))
             M == N + 1
             R == [i \in 1 .. M |-> Record(stdout, i)]
             T == {Record(stdout, i) : i \in 1 .. M}
  <2>1. Len(stdout) \in Nat /\ DOMAIN stdout = 1 .. Len(stdout)
    OBVIOUS
  <2>2. N \in Nat
    BY <2>1, SeparatorsAre
  <2>3. Printed = R
    BY <1>2, <2>1 DEF Printed, Records, Record
  <2> HIDE DEF N
  <2>4. R \in [1 .. M -> T] /\ M \in Nat /\ \A i \in 1 .. M : R[i] = Record(stdout, i)
    BY <2>2
  <2> HIDE DEF R, T, M
  <2>5. R \in Seq(T) /\ Len(R) = M
    BY <2>4, LenProperties
  <2>6. DOMAIN R = 1 .. M
    BY ONLY <2>4
  <2> QED
    BY <2>3, <2>4, <2>5, <2>6 DEF M, N
<1> QED
  BY <1>1, <1>2

\* What a record can be when one place of it, or all of them, is known.
LEMMA RecordHas ==
  ASSUME NEW S, NEW text \in Seq(S), NEW p \in 1 .. Len(text), text[p] # RS,
         NEW i, SeparatorsIn(text, p) = i - 1
  PROVE  text[p] \subseteq Record(text, i)
  BY DEF Record

LEMMA RecordAlone ==
  ASSUME NEW S, NEW text \in Seq(S), NEW p \in 1 .. Len(text), text[p] # RS,
         p > 1 => text[p - 1] = RS, p < Len(text) => text[p + 1] = RS,
         NEW i, SeparatorsIn(text, p) = i - 1
  PROVE  Record(text, i) = text[p]
<1> DEFINE n == Len(text)
           r == p - 1
           last == p + 1
<1>1. n \in Nat /\ p \in 1 .. n /\ p \in Nat
  OBVIOUS
<1> HIDE DEF n
<1>2. /\ r \in 0 .. n /\ last \in r + 1 .. n + 1 /\ (r = 0 \/ p > 1) /\ (last <= n => p < n)
      /\ p \in r + 1 .. last - 1 /\ \A k \in r + 1 .. last - 1 : k = p
  BY ONLY <1>1
<1>3. /\ r = 0 \/ text[r] = RS
      /\ last <= n => text[last] = RS
  BY <1>2 DEF n
<1> HIDE DEF r, last
<1>4. \A k \in r + 1 .. last - 1 : text[k] # RS
  BY <1>2
<1>5. {k \in 1 .. n : text[k] # RS /\ SeparatorsIn(text, k) = SeparatorsIn(text, r)}
         = r + 1 .. last - 1
  <2>1. n \in Nat /\ r \in 0 .. n /\ last \in r + 1 .. n + 1
    BY <1>1, <1>2
  <2> QED
    BY ONLY <1>3, <1>4, <2>1, RecordIs, SMTT(60)
<1>6. SeparatorsIn(text, p) = SeparatorsIn(text, r)
  BY ONLY <1>2, <1>5
<1>7. {k \in 1 .. n : text[k] # RS /\ SeparatorsIn(text, k) = i - 1} = {p}
  <2>1. SeparatorsIn(text, r) = i - 1
    BY <1>6
  <2> QED
    BY ONLY <1>2, <1>5, <2>1
<1>8. Record(text, i) = UNION {text[k] : k \in {p}}
  BY <1>7 DEF Record, n
<1> QED
  BY ONLY <1>8

\* Where the places of the records are.
LEMMA PlacesAre ==
  ASSUME format = "text", NEW i \in Nat \ {0}
  PROVE  /\ RecordAt(i) \in Nat \ {0} /\ (RecordAt(i) > 1 => i > 1)
         /\ i > 1 => /\ i - 1 \in Nat \ {0} /\ RecordAt(i) - 1 = RecordAt(i - 1) + 1
         /\ FailureAt(i) = RecordAt(i) + 1
  BY DEF RecordAt, FailureAt

LEMMA OutputReads ==
  ASSUME IInv, RawInv, StdoutInv
  PROVE  OutputParsesBack
<1> DEFINE S == SUBSET (Fields \cup {"bad", "RS", "raw"})
           L == Len(stdout)
           Bad(p) == p \in 1 .. L /\ stdout[p] = {"bad"}
<1>1. /\ formatted \in Nat /\ failures \in Nat /\ responses \in Seq(Responses)
      /\ "receiver" \notin busy => formatted + failures = Len(responses)
      /\ "receiver" \in busy => formatted + failures = Len(responses) - 1
  BY PartsAre DEF Parts, PrinterPart
<1>2. format \in {"json", "text"} /\ stdout \in Seq(S) /\ L \in Nat /\ DOMAIN stdout = 1 .. L
  BY DEF StdoutInv
<1>3. PICK g \in 0 .. Len(responses) :
         /\ BeginsWith(stdout, g, responses)
         /\ failures = 0 => /\ g = formatted
                            /\ L = IF g = 0 THEN 0 ELSE RecordAt(g)
         /\ failures > 0 => /\ FailureAt(g) \in 1 .. L
                            /\ stdout[FailureAt(g)] = {"bad"}
  BY DEF StdoutInv
<1> HIDE DEF S, L
<1>4. g \in Nat /\ (failures = 0 \/ failures > 0) /\ ~(failures = 0 /\ failures > 0)
  BY ONLY <1>1, <1>3, Len(responses) \in Nat
<1>5. failures = 0 /\ "receiver" \notin busy => Len(responses) = formatted
  BY ONLY <1>1
<1>6. CASE format = "json"
  <2>1. Printed = stdout
    BY <1>2, <1>6, PrintedIs
  <2>2. ASSUME NEW i \in 1 .. L, \A k \in 1 .. i : "bad" \notin stdout[k]
        PROVE  Faithful(stdout[i], responses[i])
    <3>1. i \in 1 .. g
      <4>1. CASE failures = 0
        <5>1. L = g
          BY ONLY <1>3, <1>4, <1>6, <4>1 DEF RecordAt
        <5> QED
          BY ONLY <5>1, i \in 1 .. L
      <4>2. CASE failures > 0
        <5>1. g + 1 \in 1 .. L /\ stdout[g + 1] = {"bad"}
          BY ONLY <1>3, <1>6, <4>2 DEF FailureAt
        <5>2. ~(g + 1 \in 1 .. i)
          BY ONLY <2>2, <5>1
        <5> QED
          BY ONLY <1>2, <1>4, <5>2, i \in 1 .. L
      <4> QED
        BY <1>4, <4>1, <4>2
    <3>2. RecordAt(i) = i
      BY ONLY <1>6 DEF RecordAt
    <3> QED
      BY ONLY <1>3, <3>1, <3>2 DEF BeginsWith
  <2>3. ASSUME failures = 0, "receiver" \notin busy PROVE Len(stdout) = Len(responses)
    <3>1. L = g /\ g = formatted
      BY ONLY <1>3, <1>4, <1>6, <2>3 DEF RecordAt
    <3> QED
      BY <1>5, <2>3, <3>1 DEF L
  <2>4. ASSUME failures # 0 PROVE \E i \in 1 .. L : "bad" \in stdout[i]
    BY <1>3, <1>4, <2>4
  <2> QED
    BY ONLY <1>2, <2>1, <2>2, <2>3, <2>4 DEF OutputParsesBack
<1>7. CASE format = "text"
  <2> DEFINE N == SeparatorsIn(stdout, L)
             F == FailureAt(g)
  <2>1. /\ Len(Printed) = N + 1 /\ DOMAIN Printed = 1 .. N + 1
        /\ \A i \in 1 .. N + 1 : Printed[i] = Record(stdout, i)
    BY <1>2, <1>7, PrintedIs DEF L
  <2>2. N \in Nat
    BY <1>2, SeparatorsAre
  <2> HIDE DEF N
  <2>3. ASSUME NEW i \in 1 .. g
        PROVE  /\ RecordAt(i) \in 1 .. L /\ stdout[RecordAt(i)] # RS
               /\ Faithful(stdout[RecordAt(i)], responses[i])
               /\ SeparatorsIn(stdout, RecordAt(i)) = i - 1
               /\ i < g => /\ RecordAt(i) + 1 \in 1 .. L
                           /\ stdout[RecordAt(i) + 1] = RS
    BY ONLY <1>3, <1>7, <2>3 DEF BeginsWith, L
  <2>4. ASSUME failures > 0
        PROVE  /\ F \in 1 .. L /\ stdout[F] = {"bad"} /\ stdout[F] # RS
               /\ SeparatorsIn(stdout, F) \in Nat
               /\ SeparatorsIn(stdout, F) + 1 \in 1 .. N + 1
               /\ SeparatorsIn(stdout, F) = IF g = 0 THEN 0 ELSE g - 1
    <3>1. F \in 1 .. L /\ stdout[F] = {"bad"}
      BY <1>3, <2>4
    <3>2. stdout[F] # RS
      BY ONLY <3>1 DEF RS
    <3> HIDE DEF F
    <3>3. SeparatorsIn(stdout, F) \in Nat /\ SeparatorsIn(stdout, F) <= N
      <4>1. F \in Nat /\ F <= L
        BY ONLY <1>2, <3>1
      <4> QED
        BY ONLY <1>2, <4>1, SeparatorsAre, SeparatorsGrow DEF N
    <3>4. SeparatorsIn(stdout, F) + 1 \in 1 .. N + 1
      BY ONLY <2>2, <3>3
    <3>5. CASE g = 0
      <4>1. F = 1
        BY <1>7, <3>5 DEF F, FailureAt
      <4>2. {j \in 1 .. 1 : stdout[j] = RS} = {}
        BY ONLY <3>2, <4>1
      <4> QED
        BY <3>1, <3>2, <3>3, <3>4, <3>5, <4>1, <4>2, FS_EmptySet DEF SeparatorsIn
    <3>6. CASE g # 0
      <4>1. g \in 1 .. g /\ g \in Nat \ {0}
        BY ONLY <1>4, <3>6
      <4> DEFINE p == RecordAt(g)
      <4>2. F = p + 1 /\ p \in Nat
        BY <1>7, <4>1, PlacesAre DEF F
      <4>3. SeparatorsIn(stdout, p) = g - 1
        BY <2>3, <4>1
      <4> HIDE DEF p
      <4>4. p <= F /\ F \in Nat /\ \A j \in p + 1 .. F : j = F
        BY ONLY <4>2
      <4>5. SeparatorsIn(stdout, F) = SeparatorsIn(stdout, p)
        BY ONLY <3>2, <4>2, <4>4, SeparatorsGrow
      <4> QED
        BY <3>1, <3>2, <3>3, <3>4, <3>6, <4>3, <4>5
    <3> QED
      BY <3>5, <3>6
  <2> HIDE DEF F
  <2>5. ASSUME failures > 0
        PROVE  \E j \in 1 .. N + 1 : j = (IF g = 0 THEN 1 ELSE g) /\ "bad" \in Printed[j]
    <3> DEFINE j == SeparatorsIn(stdout, F) + 1
    <3>1. j \in 1 .. N + 1 /\ SeparatorsIn(stdout, F) = j - 1
      BY <2>4, <2>5
    <3>2. j = IF g = 0 THEN 1 ELSE g
      BY <1>4, <2>4, <2>5
    <3> HIDE DEF j
    <3>3. stdout[F] \subseteq Record(stdout, j)
      BY <1>2, <2>4, <2>5, <3>1, RecordHas DEF L
    <3>4. "bad" \in Printed[j]
      BY <2>1, <2>4, <2>5, <3>1, <3>3
    <3> QED
      BY <3>1, <3>2, <3>4
  <2>6. ASSUME NEW i \in 1 .. N + 1, \A k \in 1 .. i : "bad" \notin Printed[k],
               i <= formatted
        PROVE  Faithful(Printed[i], responses[i])
    <3>1. i \in Nat \ {0} /\ i \in 1 .. g /\ (i < g \/ (i = g /\ failures = 0))
      <4>1. CASE failures = 0
        <5>1. g = formatted
          BY <1>3, <4>1
        <5> QED
          BY ONLY <1>4, <2>2, <2>6, <4>1, <5>1, i \in 1 .. N + 1
      <4>2. CASE failures > 0
        <5>1. PICK j \in 1 .. N + 1 :
                 j = (IF g = 0 THEN 1 ELSE g) /\ "bad" \in Printed[j]
          BY <2>5, <4>2
        <5>2. ~(j \in 1 .. i)
          BY <2>6, <5>1
        <5> QED
          BY ONLY <1>4, <2>2, <5>1, <5>2, i \in 1 .. N + 1
      <4> QED
        BY <1>4, <4>1, <4>2
    <3> DEFINE p == RecordAt(i)
    <3>2. /\ p \in 1 .. L /\ stdout[p] # RS /\ SeparatorsIn(stdout, p) = i - 1
          /\ Faithful(stdout[p], responses[i])
      BY <2>3, <3>1
    <3>3. p > 1 => stdout[p - 1] = RS
      <4> SUFFICES ASSUME p > 1 PROVE stdout[p - 1] = RS
        OBVIOUS
      <4>1. i > 1 /\ p - 1 = RecordAt(i - 1) + 1
        BY <1>7, <3>1, PlacesAre
      <4>2. i - 1 \in 1 .. g /\ i - 1 < g
        BY ONLY <1>4, <3>1, <4>1
      <4>3. stdout[RecordAt(i - 1) + 1] = RS
        BY ONLY <2>3, <4>2
      <4> QED
        BY <4>1, <4>3
    <3>4. p < L => stdout[p + 1] = RS
      <4>1. CASE i < g
        BY <2>3, <3>1, <4>1
      <4>2. CASE i = g /\ failures = 0
        <5>1. L = p
          BY <1>3, <3>1, <4>2
        <5> QED
          BY <1>2, <5>1
      <4> QED
        BY <3>1, <4>1, <4>2
    <3> HIDE DEF p
    <3>5. Record(stdout, i) = stdout[p]
      BY <1>2, <3>2, <3>3, <3>4, RecordAlone DEF L
    <3> QED
      BY <2>1, <3>2, <3>5
  <2>7. ASSUME failures = 0, "receiver" \notin busy, responses # <<>>
        PROVE  N + 1 = Len(responses)
    <3>1. g = formatted /\ g = Len(responses) /\ g # 0
      BY <1>1, <1>3, <1>5, <2>7
    <3>2. L = RecordAt(g) /\ g \in 1 .. g
      BY ONLY <1>3, <1>4, <2>7, <3>1
    <3>3. N = g - 1
      BY <2>3, <3>2 DEF N
    <3> QED
      BY ONLY <1>4, <3>1, <3>3
  <2>8. ASSUME failures # 0 PROVE \E i \in DOMAIN Printed : "bad" \in Printed[i]
    BY <1>4, <2>1, <2>5, <2>8
  <2> QED
    BY ONLY <1>7, <2>1, <2>6, <2>7, <2>8 DEF OutputParsesBack
<1> QED
  BY <1>2, <1>6, <1>7

\* What a call prints, in either format and whatever the server sends, is taken
\* apart again into the responses, up to one that could not be formatted.
THEOREM OutputIsInput == Spec => []OutputParsesBack
<1>1. Init => RawInv /\ StdoutInv
  <2> SUFFICES ASSUME Init PROVE RawInv /\ StdoutInv
    OBVIOUS
  <2>1. /\ format \in {"json", "text"} /\ busy = {} /\ responses = <<>> /\ raw = {}
        /\ formatted = 0 /\ failures = 0 /\ stdout = <<>>
        /\ at = [g \in Goroutines |-> "out"]
    BY DEF Init, ResolverInit
  <2>2. at["receiver"] = "out"
    BY <2>1, FormatsAssumption
  <2>3. RawInv
    BY <2>1, <2>2 DEF RawInv
  <2>4. /\ stdout \in Seq(SUBSET (Fields \cup {"bad", "RS", "raw"})) /\ Len(stdout) = 0
        /\ 0 \in 0 .. Len(responses)
    BY <2>1
  <2>5. BeginsWith(stdout, 0, responses)
    BY DEF BeginsWith
  <2> QED
    BY <2>1, <2>3, <2>4, <2>5 DEF StdoutInv
<1>2. IInv /\ RawInv /\ StdoutInv /\ [Next]_vars => RawInv' /\ StdoutInv'
  BY RawStep, StdoutStep
<1>3. IInv /\ RawInv /\ StdoutInv => OutputParsesBack
  BY OutputReads
<1> QED
  BY <1>1, <1>2, <1>3, Inductive, PTL DEF Spec
===============================================================================
