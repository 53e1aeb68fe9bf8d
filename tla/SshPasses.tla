------------------------------ MODULE SshPasses ------------------------------
(***************************************************************************)
(* What the passes of SshConfig over a file compute, for every file:       *)
(* lemmas about sequences of lines, with no step of the specification.     *)
(*                                                                         *)
(* Each pass is followed line by line.  What its state stands for is       *)
(* stated in terms of the Host line each line is under (Header), proved    *)
(* for the first i lines from the first i - 1, and read off at the end.    *)
(* What ssh makes of a file goes by the lines its sections begin with      *)
(* (Title), which an edit keeps because it keeps or drops whole blocks.    *)
(***************************************************************************)
EXTENDS SshConfig, TLAPS, SequenceTheorems, WellFoundedInduction

(***************************************************************************)
(* Induction, as a statement about sets of numbers: from the least element *)
(* of a set, which the library has as a fact about well-founded orders.    *)
(***************************************************************************)
(* A set of numbers that is not empty has a least element.                 *)
LEMMA Least ==
    ASSUME NEW T, T \subseteq Nat, T # {}
    PROVE  \E m \in T : \A k \in T : m <= k
<1>1. PICK m \in T : \A k \in T : ~(<<k, m>> \in OpToRel(<, Nat))
  BY WFMin, NatLessThanWellFounded
<1>2. \A k \in T : ~(k < m)
  BY <1>1 DEF OpToRel
<1>. QED  BY <1>2

(* What holds at 0, and at i + 1 where it holds at i, holds up to n.       *)
LEMMA UpTo ==
    ASSUME NEW n \in Nat, NEW S, 0 \in S,
           \A i \in 0..(n - 1) : i \in S => i + 1 \in S
    PROVE  \A i \in 0..n : i \in S
<1>. DEFINE T == {i \in 0..n : i \notin S}
<1>. SUFFICES ASSUME T # {}
              PROVE  FALSE
  OBVIOUS
<1>0. T \subseteq Nat
  OBVIOUS
<1>1. PICK m \in T : \A k \in T : m <= k
  <2>. HIDE DEF T
  <2>. QED  BY <1>0, Least
<1>2. m \in 1..n
  BY <1>1
<1>3. m - 1 \in 0..(n - 1) /\ m - 1 \notin T
  BY <1>1, <1>2
<1>4. m - 1 \in S
  BY <1>3
<1>5. (m - 1) + 1 \in S
  BY <1>3, <1>4
<1>. QED  BY <1>1, <1>2, <1>5

(* The states of a loop: from a, step by step, n times.                    *)
Steps(A, n) == [A \X (1..n) -> A]

Chain(g, A, n, a, step) ==
    /\ g \in [0..n -> A]
    /\ g[0] = a
    /\ \A i \in 1..n : g[i] = step[<<g[i - 1], i>>]

(* Such states exist, whatever the step does.                              *)
LEMMA Iterates ==
    ASSUME NEW n \in Nat, NEW A, NEW a \in A, NEW step \in Steps(A, n)
    PROVE  \E g : Chain(g, A, n, a, step)
<1>. USE DEF Steps
<1>. DEFINE Upto(i) == \E g \in [0..i -> A] :
                           g[0] = a /\ \A j \in 1..i : g[j] = step[<<g[j - 1], j>>]
            S == {i \in 0..n : Upto(i)}
<1>1. 0 \in S
  <2>. DEFINE g == [i \in 0..0 |-> a]
  <2>1. g \in [0..0 -> A] /\ g[0] = a /\ \A j \in 1..0 : g[j] = step[<<g[j - 1], j>>]
    OBVIOUS
  <2>. HIDE DEF g
  <2>2. Upto(0)
    BY <2>1
  <2>. QED  BY <2>2
<1>2. ASSUME NEW i \in 0..(n - 1), i \in S
      PROVE  i + 1 \in S
  <2>1. PICK g \in [0..i -> A] :
            g[0] = a /\ \A j \in 1..i : g[j] = step[<<g[j - 1], j>>]
    BY <1>2
  <2>. DEFINE h == [j \in 0..(i + 1) |-> IF j = i + 1 THEN step[<<g[i], i + 1>>] ELSE g[j]]
  <2>2. h \in [0..(i + 1) -> A]
    <3>1. <<g[i], i + 1>> \in A \X (1..n)
      OBVIOUS
    <3>. QED  BY <3>1
  <2>3. h[0] = a
    BY <2>1
  <2>4. ASSUME NEW j \in 1..(i + 1)
        PROVE  h[j] = step[<<h[j - 1], j>>]
    <3>1. CASE j = i + 1
      <4>1. h[j] = step[<<g[i], i + 1>>]
        BY <3>1
      <4>2. h[j - 1] = g[i] /\ j - 1 = i
        BY <3>1
      <4>. QED  BY <3>1, <4>1, <4>2
    <3>2. CASE j # i + 1
      BY <2>1, <3>2
    <3>. QED  BY <3>1, <3>2
  <2>5. i + 1 \in 0..n
    OBVIOUS
  <2>. HIDE DEF h
  <2>. QED  BY <2>2, <2>3, <2>4, <2>5
<1>3. n \in S
  <2>. HIDE DEF S
  <2>. QED  BY <1>1, <1>2, UpTo
<1>4. PICK g \in [0..n -> A] : g[0] = a /\ \A j \in 1..n : g[j] = step[<<g[j - 1], j>>]
  BY <1>3
<1>. QED  BY <1>4 DEF Chain

(* A set of numbers up to n that is not empty has a greatest element.      *)
LEMMA Greatest ==
    ASSUME NEW n \in Nat, NEW T, T \subseteq 0..n, T # {}
    PROVE  \E m \in T : \A k \in T : k <= m
<1>. DEFINE U == {n - k : k \in T}
<1>1. U \subseteq Nat /\ U # {}
  <2>1. PICK k \in T : TRUE
    OBVIOUS
  <2>2. n - k \in U
    BY <2>1
  <2>3. \A j \in T : n - j \in Nat
    OBVIOUS
  <2>. QED  BY <2>2, <2>3
<1>2. PICK u \in U : \A k \in U : u <= k
  <2>. HIDE DEF U
  <2>. QED  BY <1>1, Least
<1>3. PICK m \in T : u = n - m
  BY <1>2
<1>4. \A k \in T : n - m <= n - k
  BY <1>2, <1>3
<1>5. \A k \in T : k <= m
  BY <1>4
<1>. QED  BY <1>5

(***************************************************************************)
(* Lines and blocks.                                                       *)
(***************************************************************************)
Kinds == {"host", "match", "fly", "wrapped", "mention", "proxy", "option", "blank"}

(* What kind each line is, and what it has with it.                        *)
LEMMA LineFacts ==
    /\ \A line \in Lines :
           /\ line.is \in Kinds
           /\ line.is = "host" => line = Host(line.of) /\ line.of # {} /\ line.of \subseteq Names
           /\ line.is = "fly" => \E id \in Ids : line = Fly(id)
    /\ \A n : Host({n}).is = "host" /\ Host({n}).of = {n}
    /\ \A n \in Names : Host({n}) \in Lines
    /\ \A id : Fly(id).is = "fly" /\ Fly(id).of = {id}
    /\ \A id \in Ids : Fly(id) \in Lines
    /\ Option \in Lines /\ Option.is = "option"
    /\ Blank \in Lines /\ Blank.is = "blank" /\ Blank.of = {}
<1>1. ASSUME NEW line \in Lines
      PROVE  /\ line.is \in Kinds
             /\ line.is = "host" => line = Host(line.of) /\ line.of # {} /\ line.of \subseteq Names
             /\ line.is = "fly" => \E id \in Ids : line = Fly(id)
  <2>1. CASE line \in {Host(ns) : ns \in (SUBSET Names) \ {{}}}
    <3>1. PICK ns \in (SUBSET Names) \ {{}} : line = Host(ns)
      BY <2>1
    <3>2. line.is = "host" /\ line.of = ns /\ ns # {} /\ ns \subseteq Names
      BY <3>1 DEF Host
    <3>. QED  BY <3>1, <3>2 DEF Kinds
  <2>2. CASE line \in {Fly(id) : id \in Ids}
    <3>1. PICK id \in Ids : line = Fly(id)
      BY <2>2
    <3>. QED  BY <3>1 DEF Fly, Kinds
  <2>3. CASE line \in {Match(ns) : ns \in SUBSET Names}
    <3>1. PICK ns \in SUBSET Names : line = Match(ns)
      BY <2>3
    <3>. QED  BY <3>1 DEF Match, Kinds
  <2>4. CASE line \in {Wrapped, Mention, Proxy, Option, Blank}
    BY <2>4 DEF Wrapped, Mention, Proxy, Option, Blank, Kinds
  <2>. QED  BY <2>1, <2>2, <2>3, <2>4 DEF Lines
<1>2. ASSUME NEW n \in Names
      PROVE  Host({n}) \in Lines
  <2>1. {n} \subseteq Names /\ {n} # {}
    OBVIOUS
  <2>. QED  BY <2>1 DEF Lines
<1>. QED  BY <1>1, <1>2 DEF Lines, Host, Fly, Option, Blank

(* The line of some kinds that a line is under, Blank for one above them   *)
(* all.                                                                    *)
Heading(lines, kinds, i) ==
    IF Latest(lines, kinds, i) = 0 THEN Blank ELSE lines[Latest(lines, kinds, i)]

(* It is at or above the line, and no other is between them ...            *)
LEMMA LatestIs ==
    ASSUME NEW lines, NEW kinds, NEW i \in Nat
    PROVE  /\ Latest(lines, kinds, i) \in 0..i
           /\ Latest(lines, kinds, i) # 0 => lines[Latest(lines, kinds, i)].is \in kinds
           /\ \A k \in 1..i : k > Latest(lines, kinds, i) => lines[k].is \notin kinds
<1>. DEFINE tops == {j \in 1..i : lines[j].is \in kinds}
            last == Latest(lines, kinds, i)
<1>1. CASE tops = {}
  BY <1>1 DEF Latest
<1>2. CASE tops # {}
  <2>1. tops \subseteq 0..i
    OBVIOUS
  <2>2. \E j \in tops : \A k \in tops : k <= j
    <3>. HIDE DEF tops
    <3>. QED  BY <1>2, <2>1, Greatest
  <2>3. last = CHOOSE j \in tops : \A k \in tops : k <= j
    BY <1>2 DEF Latest
  <2>. HIDE DEF last
  <2>4. last \in tops /\ \A k \in tops : k <= last
    <3>. HIDE DEF tops
    <3>. QED  BY <2>2, <2>3
  <2>5. \A k \in 1..i : k > last => lines[k].is \notin kinds
    BY <2>4
  <2>. QED  BY <2>4, <2>5 DEF last
<1>. QED  BY <1>1, <1>2

(* ... which makes it the only one.                                        *)
LEMMA LatestUnique ==
    ASSUME NEW lines, NEW kinds, NEW i \in Nat, NEW b \in 0..i,
           b # 0 => lines[b].is \in kinds,
           \A k \in 1..i : k > b => lines[k].is \notin kinds
    PROVE  Latest(lines, kinds, i) = b
<1>1. /\ Latest(lines, kinds, i) \in 0..i
      /\ Latest(lines, kinds, i) # 0 => lines[Latest(lines, kinds, i)].is \in kinds
      /\ \A k \in 1..i : k > Latest(lines, kinds, i) => lines[k].is \notin kinds
  BY LatestIs
<1>. QED  BY <1>1

(* From line to line: one of these kinds is its own, any other goes on.    *)
LEMMA LatestNext ==
    ASSUME NEW lines, NEW kinds, NEW i \in Nat
    PROVE  Latest(lines, kinds, i + 1) =
               IF lines[i + 1].is \in kinds THEN i + 1 ELSE Latest(lines, kinds, i)
<1>1. CASE lines[i + 1].is \in kinds
  BY <1>1, LatestUnique
<1>2. CASE lines[i + 1].is \notin kinds
  <2>1. /\ Latest(lines, kinds, i) \in 0..i
        /\ Latest(lines, kinds, i) # 0 => lines[Latest(lines, kinds, i)].is \in kinds
        /\ \A k \in 1..i : k > Latest(lines, kinds, i) => lines[k].is \notin kinds
    BY LatestIs
  <2>2. \A k \in 1..(i + 1) : k > Latest(lines, kinds, i) => lines[k].is \notin kinds
    BY <1>2, <2>1
  <2>. QED  BY <1>2, <2>1, <2>2, LatestUnique
<1>. QED  BY <1>1, <1>2

(* The same of the line itself.                                            *)
LEMMA HeadingNext ==
    ASSUME NEW lines, NEW kinds, NEW i \in Nat
    PROVE  /\ Heading(lines, kinds, 0) = Blank
           /\ Heading(lines, kinds, i + 1) =
                  IF lines[i + 1].is \in kinds THEN lines[i + 1] ELSE Heading(lines, kinds, i)
<1>1. i + 1 # 0
  OBVIOUS
<1>2. Latest(lines, kinds, 0) = 0
  BY LatestIs
<1>. QED  BY <1>1, <1>2, LatestNext DEF Heading

(* It depends on the lines before it only.                                 *)
LEMMA SameLatest ==
    ASSUME NEW lines, NEW others, NEW kinds, NEW i \in Nat,
           \A k \in 1..i : lines[k] = others[k]
    PROVE  Heading(lines, kinds, i) = Heading(others, kinds, i)
<1>1. /\ Latest(lines, kinds, i) \in 0..i
      /\ Latest(lines, kinds, i) # 0 => lines[Latest(lines, kinds, i)].is \in kinds
      /\ \A k \in 1..i : k > Latest(lines, kinds, i) => lines[k].is \notin kinds
  BY LatestIs
<1>2. Latest(others, kinds, i) = Latest(lines, kinds, i)
  <2>1. Latest(lines, kinds, i) # 0 => others[Latest(lines, kinds, i)].is \in kinds
    BY <1>1
  <2>2. \A k \in 1..i : k > Latest(lines, kinds, i) => others[k].is \notin kinds
    BY <1>1
  <2>. QED  BY <1>1, <2>1, <2>2, LatestUnique
<1>. QED  BY <1>1, <1>2 DEF Heading

(* The code's blocks begin with a Host line, ssh's sections also with a    *)
(* line the code does not know.                                            *)
Block(lines, i)  == Latest(lines, {"host"}, i)
Header(lines, i) == Heading(lines, {"host"}, i)
Title(lines, i)  == Heading(lines, {"host", "match"}, i)

(* The Host line of a line is at or above it, and no other is between.     *)
LEMMA BlockIs ==
    ASSUME NEW lines, NEW i \in Nat
    PROVE  /\ Block(lines, i) \in 0..i
           /\ Block(lines, i) # 0 => lines[Block(lines, i)].is = "host"
           /\ \A k \in 1..i : k > Block(lines, i) => lines[k].is # "host"
<1>1. /\ Block(lines, i) \in 0..i
      /\ Block(lines, i) # 0 => lines[Block(lines, i)].is \in {"host"}
      /\ \A k \in 1..i : k > Block(lines, i) => lines[k].is \notin {"host"}
  BY LatestIs DEF Block
<1>. QED  BY <1>1

(* From line to line: a Host line begins a block, any other goes on with   *)
(* it.                                                                     *)
LEMMA BlockNext ==
    ASSUME NEW lines, NEW i \in Nat
    PROVE  Block(lines, i + 1) =
               IF lines[i + 1].is = "host" THEN i + 1 ELSE Block(lines, i)
<1>. DEFINE kinds == {"host"}
<1>. HIDE DEF kinds
<1>1. Latest(lines, kinds, i + 1) =
          IF lines[i + 1].is \in kinds THEN i + 1 ELSE Latest(lines, kinds, i)
  BY LatestNext
<1>. QED  BY <1>1 DEF Block, kinds

(* The same of the Host line itself.                                       *)
LEMMA HeaderNext ==
    ASSUME NEW lines, NEW i \in Nat
    PROVE  /\ Header(lines, 0) = Blank
           /\ Header(lines, i + 1) =
                  IF lines[i + 1].is = "host" THEN lines[i + 1] ELSE Header(lines, i)
<1>. DEFINE kinds == {"host"}
<1>. HIDE DEF kinds
<1>1. /\ Heading(lines, kinds, 0) = Blank
      /\ Heading(lines, kinds, i + 1) =
             IF lines[i + 1].is \in kinds THEN lines[i + 1] ELSE Heading(lines, kinds, i)
  BY HeadingNext
<1>. QED  BY <1>1 DEF Header, kinds

(* And of the line a section begins with.                                  *)
LEMMA TitleNext ==
    ASSUME NEW lines, NEW i \in Nat
    PROVE  /\ Title(lines, 0) = Blank
           /\ Title(lines, i + 1) =
                  IF lines[i + 1].is \in {"host", "match"} THEN lines[i + 1]
                  ELSE Title(lines, i)
<1>. DEFINE kinds == {"host", "match"}
<1>. HIDE DEF kinds
<1>1. /\ Heading(lines, kinds, 0) = Blank
      /\ Heading(lines, kinds, i + 1) =
             IF lines[i + 1].is \in kinds THEN lines[i + 1] ELSE Heading(lines, kinds, i)
  BY HeadingNext
<1>. QED  BY <1>1 DEF Title, kinds

(* A section begins within the code's block: with its Host line, or later  *)
(* with a line the code does not know.                                     *)
LEMMA SectionIs ==
    ASSUME NEW lines, NEW i \in Nat
    PROVE  /\ Section(lines, i) \in 0..i
           /\ Block(lines, i) <= Section(lines, i)
           /\ Section(lines, i) # Block(lines, i) =>
                  Section(lines, i) # 0 /\ lines[Section(lines, i)].is = "match"
<1>1. /\ Section(lines, i) \in 0..i
      /\ Section(lines, i) # 0 => lines[Section(lines, i)].is \in {"host", "match"}
      /\ \A k \in 1..i : k > Section(lines, i) => lines[k].is \notin {"host", "match"}
  BY LatestIs DEF Section
<1>2. /\ Block(lines, i) \in 0..i
      /\ Block(lines, i) # 0 => lines[Block(lines, i)].is = "host"
      /\ \A k \in 1..i : k > Block(lines, i) => lines[k].is # "host"
  BY BlockIs
<1>3. Block(lines, i) <= Section(lines, i)
  BY <1>1, <1>2
<1>4. ASSUME Section(lines, i) # Block(lines, i)
      PROVE  Section(lines, i) # 0 /\ lines[Section(lines, i)].is = "match"
  <2>1. Section(lines, i) \in 1..i /\ Section(lines, i) > Block(lines, i)
    BY <1>1, <1>2, <1>3, <1>4
  <2>2. lines[Section(lines, i)].is # "host"
    BY <1>2, <2>1
  <2>. QED  BY <1>1, <2>1, <2>2
<1>. QED  BY <1>1, <1>3, <1>4

(* A line in a section of just a name is in a block of just that name.     *)
LEMMA UnderIs ==
    ASSUME NEW lines, NEW i \in Nat, NEW name, Under(lines, i, name)
    PROVE  /\ Section(lines, i) = Block(lines, i) /\ Block(lines, i) # 0
           /\ Header(lines, i) = Host({name})
<1>1. Section(lines, i) # 0 /\ lines[Section(lines, i)] = Host({name})
  BY DEF Under
<1>2. lines[Section(lines, i)].is = "host"
  BY <1>1 DEF Host
<1>3. Section(lines, i) = Block(lines, i)
  BY <1>2, SectionIs
<1>. QED  BY <1>1, <1>3 DEF Header, Heading, Block

(* And the other way round, if the block does not run on.                  *)
LEMMA SectionIsBlock ==
    ASSUME NEW lines \in Seq(Lines), NEW name, ~RunsOn(lines, name),
           NEW i \in DOMAIN lines, Block(lines, i) # 0, lines[Block(lines, i)] = Host({name})
    PROVE  Section(lines, i) = Block(lines, i) /\ Under(lines, i, name)
<1>. DEFINE b == Block(lines, i)
            t == Section(lines, i)
<1>0. i \in Nat /\ DOMAIN lines = 1..Len(lines)
  OBVIOUS
<1>1. /\ b \in 0..i
      /\ \A k \in 1..i : k > b => lines[k].is # "host"
  BY <1>0, BlockIs
<1>2. t \in 0..i /\ b <= t /\ (t # b => lines[t].is = "match")
  BY <1>0, SectionIs
<1>3. t = b
  <2>. SUFFICES ASSUME t # b
                PROVE  FALSE
    OBVIOUS
  <2>1. b \in DOMAIN lines /\ t \in DOMAIN lines /\ b < t /\ lines[t].is = "match"
    BY <1>0, <1>1, <1>2
  <2>2. \A k \in (b + 1)..(t - 1) : lines[k].is # "host"
    BY <1>0, <1>1, <1>2
  <2>3. lines[b] = Host({name})
    OBVIOUS
  <2>. HIDE DEF b, t
  <2>. QED  BY <2>1, <2>2, <2>3 DEF RunsOn
<1>. QED  BY <1>3 DEF Under

(***************************************************************************)
(* The passes are recursive functions: they are what their equations say.  *)
(***************************************************************************)
(* The state of remove_host_block's loop.                                  *)
Acc == [out : Seq(Lines), skipping : BOOLEAN, found : BOOLEAN, ours : BOOLEAN, bail : BOOLEAN]

(* One line keeps the state a state.                                       *)
LEMMA ScanLineType ==
    ASSUME NEW acc \in Acc, NEW line \in Lines, NEW name
    PROVE  ScanLine(acc, line, name) \in Acc
<1>1. Append(acc.out, line) \in Seq(Lines)
  BY DEF Acc
<1>. QED  BY <1>1 DEF Acc, ScanLine

(* The states of the loop are the function that its equation defines.      *)
LEMMA ScansUnfold ==
    ASSUME NEW lines \in Seq(Lines), NEW name
    PROVE  Scans(lines, name) = [i \in 0..Len(lines) |->
               IF i = 0 THEN Scan0 ELSE ScanLine(Scans(lines, name)[i - 1], lines[i], name)]
<1>. DEFINE n == Len(lines)
            step == [x \in Acc \X (1..n) |-> ScanLine(x[1], lines[x[2]], name)]
<1>1. n \in Nat /\ \A i \in 1..n : lines[i] \in Lines
  OBVIOUS
<1>2. step \in [Acc \X (1..n) -> Acc]
  BY <1>1, ScanLineType
<1>3. Scan0 \in Acc
  BY DEF Scan0, Acc
<1>4. PICK g : Chain(g, Acc, n, Scan0, step)
  <2>1. step \in Steps(Acc, n)
    BY <1>2 DEF Steps
  <2>. HIDE DEF step, n
  <2>. QED  BY <1>1, <1>3, <2>1, Iterates
<1>5. g = [i \in 0..n |-> IF i = 0 THEN Scan0 ELSE ScanLine(g[i - 1], lines[i], name)]
  <2>1. ASSUME NEW i \in 0..n, i # 0
        PROVE  g[i] = ScanLine(g[i - 1], lines[i], name)
    <3>1. <<g[i - 1], i>> \in Acc \X (1..n)
      <4>. HIDE DEF step
      <4>. QED  BY <1>1, <1>4, <2>1 DEF Chain
    <3>2. g[i] = step[<<g[i - 1], i>>]
      <4>1. i \in 1..n
        BY <1>1, <2>1
      <4>. HIDE DEF step
      <4>. QED  BY <1>4, <4>1 DEF Chain
    <3>. QED  BY <3>1, <3>2
  <2>. HIDE DEF step
  <2>. QED  BY <1>4, <2>1 DEF Chain
<1>. QED  BY <1>5 DEF Scans

(* So are the selected lines.                                              *)
LEMMA SelectsUnfold ==
    ASSUME NEW lines \in Seq(Lines), NEW places
    PROVE  Selects(lines, places) = [i \in 0..Len(lines) |->
               IF i = 0 THEN <<>>
               ELSE IF i \in places THEN Append(Selects(lines, places)[i - 1], lines[i])
               ELSE Selects(lines, places)[i - 1]]
<1>. DEFINE n == Len(lines)
            A == Seq(Lines)
            step == [x \in A \X (1..n) |->
                        IF x[2] \in places THEN Append(x[1], lines[x[2]]) ELSE x[1]]
<1>1. n \in Nat /\ \A i \in 1..n : lines[i] \in Lines
  OBVIOUS
<1>2. step \in [A \X (1..n) -> A]
  BY <1>1
<1>3. <<>> \in A
  OBVIOUS
<1>4. PICK g : Chain(g, A, n, <<>>, step)
  <2>1. step \in Steps(A, n)
    BY <1>2 DEF Steps
  <2>. HIDE DEF step, n, A
  <2>. QED  BY <1>1, <1>3, <2>1, Iterates
<1>5. g = [i \in 0..n |-> IF i = 0 THEN <<>>
                          ELSE IF i \in places THEN Append(g[i - 1], lines[i]) ELSE g[i - 1]]
  <2>1. ASSUME NEW i \in 0..n, i # 0
        PROVE  g[i] = IF i \in places THEN Append(g[i - 1], lines[i]) ELSE g[i - 1]
    <3>0. i \in 1..n /\ i - 1 \in 0..n
      BY <1>1, <2>1
    <3>1. <<g[i - 1], i>> \in A \X (1..n)
      <4>. HIDE DEF step, A, n
      <4>. QED  BY <1>4, <3>0 DEF Chain
    <3>2. g[i] = step[<<g[i - 1], i>>]
      <4>1. i \in 1..n
        BY <3>0
      <4>. HIDE DEF step, A
      <4>. QED  BY <1>4, <4>1 DEF Chain
    <3>. QED  BY <3>1, <3>2
  <2>. HIDE DEF step, A
  <2>. QED  BY <1>4, <2>1 DEF Chain
<1>. QED  BY <1>5 DEF Selects

(* The state of list_tunnel_hosts's loop.                                  *)
Listed == [host : SUBSET Names, to : SUBSET Ids,
           entries : Seq([host : SUBSET Names, to : SUBSET Ids])]

(* One line keeps the state a state.                                       *)
LEMMA ListLineType ==
    ASSUME NEW acc \in Listed, NEW line \in Lines
    PROVE  ListLine(acc, line) \in Listed
<1>1. Flush(acc) \in Seq([host : SUBSET Names, to : SUBSET Ids])
  <2>1. [host |-> acc.host, to |-> acc.to] \in [host : SUBSET Names, to : SUBSET Ids]
    BY DEF Listed
  <2>2. acc.entries \in Seq([host : SUBSET Names, to : SUBSET Ids])
    BY DEF Listed
  <2>. QED  BY <2>1, <2>2, AppendProperties DEF Flush
<1>2. line.is = "host" => line.of \in SUBSET Names
  BY LineFacts
<1>3. line.is = "fly" => line.of \in SUBSET Ids
  BY LineFacts
<1>. QED  BY <1>1, <1>2, <1>3 DEF Listed, ListLine

(* And its states are the function that its equation defines.              *)
LEMMA ListsUnfold ==
    ASSUME NEW lines \in Seq(Lines)
    PROVE  Lists(lines) = [i \in 0..Len(lines) |->
               IF i = 0 THEN List0 ELSE ListLine(Lists(lines)[i - 1], lines[i])]
<1>. DEFINE n == Len(lines)
            step == [x \in Listed \X (1..n) |-> ListLine(x[1], lines[x[2]])]
<1>1. n \in Nat /\ \A i \in 1..n : lines[i] \in Lines
  OBVIOUS
<1>2. step \in [Listed \X (1..n) -> Listed]
  BY <1>1, ListLineType
<1>3. List0 \in Listed
  BY DEF List0, Listed
<1>4. PICK g : Chain(g, Listed, n, List0, step)
  <2>1. step \in Steps(Listed, n)
    BY <1>2 DEF Steps
  <2>. HIDE DEF step, n
  <2>. QED  BY <1>1, <1>3, <2>1, Iterates
<1>5. g = [i \in 0..n |-> IF i = 0 THEN List0 ELSE ListLine(g[i - 1], lines[i])]
  <2>1. ASSUME NEW i \in 0..n, i # 0
        PROVE  g[i] = ListLine(g[i - 1], lines[i])
    <3>1. <<g[i - 1], i>> \in Listed \X (1..n)
      <4>. HIDE DEF step
      <4>. QED  BY <1>1, <1>4, <2>1 DEF Chain
    <3>2. g[i] = step[<<g[i - 1], i>>]
      <4>1. i \in 1..n
        BY <1>1, <2>1
      <4>. HIDE DEF step
      <4>. QED  BY <1>4, <4>1 DEF Chain
    <3>. QED  BY <3>1, <3>2
  <2>. HIDE DEF step
  <2>. QED  BY <1>4, <2>1 DEF Chain
<1>. QED  BY <1>5 DEF Lists

(***************************************************************************)
(* The passes step by step.                                                *)
(***************************************************************************)
(* remove_host_block: where it begins, what a line does, and the type.     *)
LEMMA ScansSteps ==
    ASSUME NEW lines \in Seq(Lines), NEW name
    PROVE  /\ Scans(lines, name)[0] = Scan0
           /\ \A i \in 0..(Len(lines) - 1) :
                  Scans(lines, name)[i + 1] =
                      ScanLine(Scans(lines, name)[i], lines[i + 1], name)
           /\ \A i \in 0..Len(lines) : Scans(lines, name)[i] \in Acc
<1>. DEFINE n == Len(lines)
            s == Scans(lines, name)
            S == {i \in 0..n : s[i] \in Acc}
<1>1. n \in Nat /\ \A i \in 1..n : lines[i] \in Lines
  OBVIOUS
<1>2. s = [i \in 0..n |-> IF i = 0 THEN Scan0 ELSE ScanLine(s[i - 1], lines[i], name)]
  BY ScansUnfold
<1>. HIDE DEF n, s
<1>3. s[0] = Scan0
  BY <1>1, <1>2
<1>4. ASSUME NEW i \in 0..(n - 1)
      PROVE  s[i + 1] = ScanLine(s[i], lines[i + 1], name)
  <2>1. i + 1 \in 0..n /\ i + 1 # 0 /\ (i + 1) - 1 = i
    BY <1>1
  <2>. QED  BY <1>2, <2>1
<1>5. \A i \in 0..n : i \in S
  <2>0. Scan0 \in Acc /\ 0 \in 0..n
    BY <1>1 DEF Scan0, Acc
  <2>1. 0 \in S
    BY <1>3, <2>0
  <2>2. ASSUME NEW i \in 0..(n - 1), i \in S
        PROVE  i + 1 \in S
    <3>1. i + 1 \in 1..n
      BY <1>1
    <3>. QED  BY <1>1, <1>4, <2>2, <3>1, ScanLineType
  <2>. HIDE DEF S
  <2>. QED  BY <1>1, <2>1, <2>2, UpTo
<1>. QED  BY <1>3, <1>4, <1>5 DEF n, s

(* Selecting, step by step.                                                *)
LEMMA SelectsSteps ==
    ASSUME NEW lines \in Seq(Lines), NEW places
    PROVE  /\ Selects(lines, places)[0] = <<>>
           /\ \A i \in 0..(Len(lines) - 1) :
                  Selects(lines, places)[i + 1] =
                      IF i + 1 \in places
                      THEN Append(Selects(lines, places)[i], lines[i + 1])
                      ELSE Selects(lines, places)[i]
           /\ \A i \in 0..Len(lines) : Selects(lines, places)[i] \in Seq(Lines)
<1>. DEFINE n == Len(lines)
            s == Selects(lines, places)
            S == {i \in 0..n : s[i] \in Seq(Lines)}
<1>1. n \in Nat /\ \A i \in 1..n : lines[i] \in Lines
  OBVIOUS
<1>2. s = [i \in 0..n |-> IF i = 0 THEN <<>>
                          ELSE IF i \in places THEN Append(s[i - 1], lines[i]) ELSE s[i - 1]]
  BY SelectsUnfold
<1>. HIDE DEF n, s
<1>3. s[0] = <<>>
  BY <1>1, <1>2
<1>4. ASSUME NEW i \in 0..(n - 1)
      PROVE  s[i + 1] = IF i + 1 \in places THEN Append(s[i], lines[i + 1]) ELSE s[i]
  <2>1. i + 1 \in 0..n /\ i + 1 # 0 /\ (i + 1) - 1 = i
    BY <1>1
  <2>. QED  BY <1>2, <2>1
<1>5. \A i \in 0..n : i \in S
  <2>0. <<>> \in Seq(Lines) /\ 0 \in 0..n
    BY <1>1
  <2>1. 0 \in S
    BY <1>3, <2>0
  <2>2. ASSUME NEW i \in 0..(n - 1), i \in S
        PROVE  i + 1 \in S
    <3>1. i + 1 \in 1..n
      BY <1>1
    <3>2. s[i] \in Seq(Lines) /\ lines[i + 1] \in Lines
      BY <1>1, <2>2, <3>1
    <3>3. Append(s[i], lines[i + 1]) \in Seq(Lines)
      BY <3>2, AppendProperties
    <3>4. s[i + 1] \in Seq(Lines)
      BY <1>4, <3>2, <3>3
    <3>. QED  BY <3>1, <3>4
  <2>. HIDE DEF S
  <2>. QED  BY <1>1, <2>1, <2>2, UpTo
<1>. QED  BY <1>3, <1>4, <1>5 DEF n, s

(* list_tunnel_hosts, step by step.                                        *)
LEMMA ListsSteps ==
    ASSUME NEW lines \in Seq(Lines)
    PROVE  /\ Lists(lines)[0] = List0
           /\ \A i \in 0..(Len(lines) - 1) :
                  Lists(lines)[i + 1] = ListLine(Lists(lines)[i], lines[i + 1])
           /\ \A i \in 0..Len(lines) : Lists(lines)[i] \in Listed
<1>. DEFINE n == Len(lines)
            s == Lists(lines)
            S == {i \in 0..n : s[i] \in Listed}
<1>1. n \in Nat /\ \A i \in 1..n : lines[i] \in Lines
  OBVIOUS
<1>2. s = [i \in 0..n |-> IF i = 0 THEN List0 ELSE ListLine(s[i - 1], lines[i])]
  BY ListsUnfold
<1>. HIDE DEF n, s
<1>3. s[0] = List0
  BY <1>1, <1>2
<1>4. ASSUME NEW i \in 0..(n - 1)
      PROVE  s[i + 1] = ListLine(s[i], lines[i + 1])
  <2>1. i + 1 \in 0..n /\ i + 1 # 0 /\ (i + 1) - 1 = i
    BY <1>1
  <2>. QED  BY <1>2, <2>1
<1>5. \A i \in 0..n : i \in S
  <2>0. List0 \in Listed /\ 0 \in 0..n
    BY <1>1 DEF List0, Listed
  <2>1. 0 \in S
    BY <1>3, <2>0
  <2>2. ASSUME NEW i \in 0..(n - 1), i \in S
        PROVE  i + 1 \in S
    <3>1. i + 1 \in 1..n
      BY <1>1
    <3>. QED  BY <1>1, <1>4, <2>2, <3>1, ListLineType
  <2>. HIDE DEF S
  <2>. QED  BY <1>1, <2>1, <2>2, UpTo
<1>. QED  BY <1>3, <1>4, <1>5 DEF n, s

(* What is selected depends on the lines up to there only.                 *)
LEMMA SelectsAgree ==
    ASSUME NEW lines \in Seq(Lines), NEW others \in Seq(Lines), NEW P, NEW Q,
           NEW n \in Nat, n <= Len(lines), n <= Len(others),
           \A i \in 1..n : lines[i] = others[i] /\ (i \in P <=> i \in Q)
    PROVE  \A i \in 0..n : Selects(lines, P)[i] = Selects(others, Q)[i]
<1>. DEFINE S == {i \in 0..n : Selects(lines, P)[i] = Selects(others, Q)[i]}
<1>0. /\ \A i \in 0..(Len(lines) - 1) :
             Selects(lines, P)[i + 1] =
                 IF i + 1 \in P THEN Append(Selects(lines, P)[i], lines[i + 1])
                 ELSE Selects(lines, P)[i]
      /\ \A i \in 0..(Len(others) - 1) :
             Selects(others, Q)[i + 1] =
                 IF i + 1 \in Q THEN Append(Selects(others, Q)[i], others[i + 1])
                 ELSE Selects(others, Q)[i]
  BY SelectsSteps, Zenon
<1>1. 0 \in S
  BY SelectsSteps
<1>2. ASSUME NEW i \in 0..(n - 1), i \in S
      PROVE  i + 1 \in S
  <2>1. i \in 0..(Len(lines) - 1) /\ i \in 0..(Len(others) - 1) /\ i + 1 \in 1..n
    OBVIOUS
  <2>2. Selects(lines, P)[i + 1] = IF i + 1 \in P THEN Append(Selects(lines, P)[i], lines[i + 1])
                                   ELSE Selects(lines, P)[i]
    BY <1>0, <2>1, Zenon
  <2>3. Selects(others, Q)[i + 1] = IF i + 1 \in Q THEN Append(Selects(others, Q)[i], others[i + 1])
                                    ELSE Selects(others, Q)[i]
    BY <1>0, <2>1, Zenon
  <2>. QED  BY <1>2, <2>1, <2>2, <2>3
<1>. HIDE DEF S
<1>3. \A i \in 0..n : i \in S
  BY <1>1, <1>2, UpTo
<1>. QED  BY <1>3 DEF S

(* Nothing more is selected where there is nothing more to select.         *)
LEMMA SelectsStop ==
    ASSUME NEW lines \in Seq(Lines), NEW P, NEW m \in 0..Len(lines),
           \A i \in (m + 1)..Len(lines) : i \notin P
    PROVE  Select(lines, P) = Selects(lines, P)[m]
<1>. DEFINE n == Len(lines)
            S == {i \in 0..(n - m) : Selects(lines, P)[m + i] = Selects(lines, P)[m]}
<1>1. 0 \in S
  OBVIOUS
<1>2. ASSUME NEW i \in 0..((n - m) - 1), i \in S
      PROVE  i + 1 \in S
  <2>1. m + i \in 0..(n - 1) /\ (m + i) + 1 = m + (i + 1) /\ (m + i) + 1 \notin P
    OBVIOUS
  <2>2. Selects(lines, P)[(m + i) + 1] = Selects(lines, P)[m + i]
    BY <2>1, SelectsSteps
  <2>. QED  BY <1>2, <2>1, <2>2
<1>3. n - m \in Nat
  OBVIOUS
<1>4. n - m \in S
  <2>0. n - m \in 0..(n - m)
    BY <1>3
  <2>. HIDE DEF S
  <2>1. \A i \in 0..(n - m) : i \in S
    BY <1>1, <1>2, <1>3, UpTo
  <2>. QED  BY <2>0, <2>1
<1>5. m + (n - m) = n
  OBVIOUS
<1>. QED  BY <1>4, <1>5 DEF Select

(* Two files with the same lines to select have the same lines selected.   *)
LEMMA SelectAgrees ==
    ASSUME NEW lines \in Seq(Lines), NEW others \in Seq(Lines), NEW P, NEW Q,
           Len(lines) <= Len(others),
           \A i \in 1..Len(lines) : lines[i] = others[i] /\ (i \in P <=> i \in Q),
           \A i \in (Len(lines) + 1)..Len(others) : i \notin Q
    PROVE  Select(lines, P) = Select(others, Q)
<1>1. Select(others, Q) = Selects(others, Q)[Len(lines)]
  BY SelectsStop
<1>2. Selects(lines, P)[Len(lines)] = Selects(others, Q)[Len(lines)]
  BY SelectsAgree
<1>. QED  BY <1>1, <1>2 DEF Select

(***************************************************************************)
(* "while result.ends_with("\n\n")".                                       *)
(***************************************************************************)
(* What is left ends at the one place after which all is blank ...         *)
LEMMA TidyUnique ==
    ASSUME NEW lines \in Seq(Lines), NEW m \in 0..Len(lines),
           m = 0 <=> lines = <<>>,
           m > 1 => lines[m] # Blank,
           \A i \in (m + 1)..Len(lines) : lines[i] = Blank
    PROVE  Tidy(lines) = SubSeq(lines, 1, m)
<1>. DEFINE texts == {i \in 1..Len(lines) : lines[i] # Blank}
            last == IF texts = {} THEN IF lines = <<>> THEN 0 ELSE 1
                    ELSE CHOOSE i \in texts : \A j \in texts : j <= i
<1>1. Tidy(lines) = SubSeq(lines, 1, last)
  BY DEF Tidy
<1>2. \A i \in texts : i <= m
  OBVIOUS
<1>3. CASE texts = {}
  <2>1. m <= 1
    BY <1>3
  <2>. QED  BY <1>1, <1>3, <2>1
<1>4. CASE texts # {}
  <2>1. m \in texts
    <3>1. m # 0
      BY <1>4
    <3>2. m = 1 => texts \subseteq {1}
      BY <1>2
    <3>. QED  BY <1>4, <3>1, <3>2
  <2>2. last \in texts /\ \A j \in texts : j <= last
    <3>. HIDE DEF texts
    <3>. QED  BY <1>2, <1>4, <2>1
  <2>3. last = m
    BY <1>2, <2>1, <2>2
  <2>. QED  BY <1>1, <2>3
<1>. QED  BY <1>3, <1>4

(* ... and there is such a place.                                          *)
LEMMA TidyFacts ==
    ASSUME NEW lines \in Seq(Lines)
    PROVE  \E m \in 0..Len(lines) :
               /\ m = 0 <=> lines = <<>>
               /\ m > 1 => lines[m] # Blank
               /\ \A i \in (m + 1)..Len(lines) : lines[i] = Blank
               /\ Tidy(lines) = SubSeq(lines, 1, m)
               /\ Tidy(lines) \in Seq(Lines)
               /\ Len(Tidy(lines)) = m
               /\ \A i \in 1..m : Tidy(lines)[i] = lines[i]
<1>. DEFINE texts == {i \in 1..Len(lines) : lines[i] # Blank}
<1>1. \E m \in 0..Len(lines) :
          /\ m = 0 <=> lines = <<>>
          /\ m > 1 => lines[m] # Blank
          /\ \A i \in (m + 1)..Len(lines) : lines[i] = Blank
  <2>1. CASE lines = <<>>
    BY <2>1
  <2>2. CASE lines # <<>> /\ texts = {}
    <3>1. 1 \in 0..Len(lines)
      BY <2>2
    <3>. QED  BY <2>2, <3>1
  <2>3. CASE texts # {}
    <3>1. texts \subseteq 0..Len(lines) /\ Len(lines) \in Nat
      OBVIOUS
    <3>2. PICK m \in texts : \A k \in texts : k <= m
      <4>. HIDE DEF texts
      <4>. QED  BY <2>3, <3>1, Greatest
    <3>3. \A i \in (m + 1)..Len(lines) : lines[i] = Blank
      BY <3>2
    <3>. QED  BY <3>2, <3>3
  <2>. QED  BY <2>1, <2>2, <2>3
<1>2. PICK m \in 0..Len(lines) :
          /\ m = 0 <=> lines = <<>>
          /\ m > 1 => lines[m] # Blank
          /\ \A i \in (m + 1)..Len(lines) : lines[i] = Blank
  BY <1>1
<1>3. Tidy(lines) = SubSeq(lines, 1, m)
  BY <1>2, TidyUnique
<1>4. /\ SubSeq(lines, 1, m) \in Seq(Lines)
      /\ Len(SubSeq(lines, 1, m)) = m
      /\ \A i \in 1..m : SubSeq(lines, 1, m)[i] = lines[i]
  <2>1. \A i \in 1..m : lines[i] \in Lines
    OBVIOUS
  <2>. QED  BY <2>1, SubSeqProperties
<1>. QED  BY <1>2, <1>3, <1>4

(***************************************************************************)
(* remove_host_block.                                                      *)
(***************************************************************************)
(* The state after a line that did not end the pass, by what the line is.  *)
After(acc, line, name, new) ==
    /\ ~acc.bail
    /\ line = Host({name}) =>
           /\ line.is = "host"
           /\ new.out = acc.out /\ new.skipping /\ new.found /\ ~new.ours
    /\ line.is = "host" /\ line # Host({name}) =>
           /\ ~acc.found \/ acc.ours
           /\ new.out = Append(acc.out, line) /\ ~new.skipping
           /\ new.found = acc.found /\ new.ours = acc.ours
    /\ line.is # "host" /\ acc.skipping =>
           /\ line # Host({name})
           /\ new.out = acc.out /\ new.skipping /\ new.found = acc.found
           /\ new.ours <=> (acc.ours \/ line.is \in Ours)
    /\ line.is # "host" /\ ~acc.skipping =>
           /\ line # Host({name})
           /\ new.out = Append(acc.out, line) /\ ~new.skipping
           /\ new.found = acc.found /\ new.ours = acc.ours

(* One line that does not end the pass, case by case.                      *)
LEMMA ScanLineCases ==
    ASSUME NEW acc \in Acc, NEW line \in Lines, NEW name, ~ScanLine(acc, line, name).bail
    PROVE  After(acc, line, name, ScanLine(acc, line, name))
<1>. USE DEF After
<1>. DEFINE new == ScanLine(acc, line, name)
<1>1. Host({name}).is = "host"
  BY DEF Host
<1>2. ~acc.bail
  BY DEF ScanLine
<1>3. CASE line = Host({name})
  <2>1. new = [acc EXCEPT !.skipping = TRUE, !.found = TRUE, !.ours = FALSE]
    BY <1>2, <1>3 DEF ScanLine
  <2>. QED  BY <1>1, <1>2, <1>3, <2>1 DEF Acc
<1>4. CASE line.is = "host" /\ line # Host({name})
  <2>1. ~(acc.found /\ ~acc.ours)
    BY <1>2, <1>4 DEF ScanLine, Acc
  <2>2. new = [acc EXCEPT !.skipping = FALSE, !.out = Append(@, line)]
    BY <1>2, <1>4, <2>1 DEF ScanLine
  <2>. QED  BY <1>2, <1>4, <2>1, <2>2 DEF Acc
<1>5. CASE line.is # "host" /\ acc.skipping
  <2>1. new = [acc EXCEPT !.ours = @ \/ line.is \in Ours]
    BY <1>1, <1>2, <1>5 DEF ScanLine
  <2>. QED  BY <1>1, <1>2, <1>5, <2>1 DEF Acc
<1>6. CASE line.is # "host" /\ ~acc.skipping
  <2>1. new = [acc EXCEPT !.skipping = FALSE, !.out = Append(@, line)]
    BY <1>1, <1>2, <1>6 DEF ScanLine
  <2>. QED  BY <1>1, <1>2, <1>6, <2>1 DEF Acc
<1>. QED  BY <1>1, <1>3, <1>4, <1>5, <1>6

(* What is kept: the lines that are not under the name.                    *)
Kept(lines, name) == {i \in DOMAIN lines : Header(lines, i) # Host({name})}

(* What the state stands for after i lines: what was kept, whether the     *)
(* line is under the name, and whether there was a line of the name.       *)
Meant(lines, name, i) ==
    LET acc == Scans(lines, name)[i]
    IN  ~acc.bail =>
            /\ acc.out = Selects(lines, Kept(lines, name))[i]
            /\ acc.skipping <=> Header(lines, i) = Host({name})
            /\ acc.found <=> \E j \in 1..i : lines[j] = Host({name})

(* It stands for that after any number of lines.                           *)
LEMMA ScanMeans ==
    ASSUME NEW lines \in Seq(Lines), NEW name
    PROVE  \A i \in 0..Len(lines) : Meant(lines, name, i)
<1>. DEFINE n == Len(lines)
            s == Scans(lines, name)
            sel == Selects(lines, Kept(lines, name))
            S == {i \in 0..n : Meant(lines, name, i)}
<1>0. n \in Nat
  OBVIOUS
<1>1. 0 \in S
  <2>1. s[0] = Scan0 /\ sel[0] = <<>>
    BY ScansSteps, SelectsSteps
  <2>2. Header(lines, 0) = Blank /\ Blank # Host({name})
    BY HeaderNext DEF Blank, Host
  <2>. QED  BY <2>1, <2>2, <1>0 DEF Meant, Scan0
<1>2. ASSUME NEW i \in 0..(n - 1), i \in S
      PROVE  i + 1 \in S
  <2>. DEFINE line == lines[i + 1]
  <2>1. i + 1 \in 1..n /\ i \in 0..n /\ i \in Nat /\ line \in Lines
    BY <1>0
  <2>2. s[i] \in Acc /\ s[i + 1] = ScanLine(s[i], line, name)
    BY <2>1, ScansSteps
  <2>3. sel[i + 1] = IF i + 1 \in Kept(lines, name) THEN Append(sel[i], line) ELSE sel[i]
    BY <2>1, SelectsSteps
  <2>4. i + 1 \in Kept(lines, name) <=> Header(lines, i + 1) # Host({name})
    BY <2>1 DEF Kept
  <2>5. Header(lines, i + 1) = IF line.is = "host" THEN line ELSE Header(lines, i)
    BY <2>1, HeaderNext
  <2>6. (\E j \in 1..(i + 1) : lines[j] = Host({name})) <=>
            (line = Host({name}) \/ \E j \in 1..i : lines[j] = Host({name}))
    <3>1. 1..(i + 1) = 1..i \cup {i + 1}
      BY <2>1
    <3>. QED  BY <3>1
  <2>. HIDE DEF s, sel, line
  <2>7. Meant(lines, name, i + 1)
    <3>. SUFFICES ASSUME ~s[i + 1].bail
                  PROVE  /\ s[i + 1].out = sel[i + 1]
                         /\ s[i + 1].skipping <=> Header(lines, i + 1) = Host({name})
                         /\ s[i + 1].found <=> \E j \in 1..(i + 1) : lines[j] = Host({name})
      BY DEF Meant, s, sel
    <3>1. After(s[i], line, name, s[i + 1])
      BY <2>1, <2>2, ScanLineCases
    <3>2. /\ s[i].out = sel[i]
          /\ s[i].skipping <=> Header(lines, i) = Host({name})
          /\ s[i].found <=> \E j \in 1..i : lines[j] = Host({name})
      BY <1>2, <3>1 DEF Meant, After, s, sel
    <3>3. CASE line = Host({name})
      BY <2>3, <2>4, <2>5, <2>6, <3>1, <3>2, <3>3 DEF After
    <3>4. CASE line.is = "host" /\ line # Host({name})
      BY <2>3, <2>4, <2>5, <2>6, <3>1, <3>2, <3>4 DEF After
    <3>5. CASE line.is # "host" /\ s[i].skipping
      <4>1. line # Host({name})
        BY <3>5 DEF Host
      <4>. QED  BY <2>3, <2>4, <2>5, <2>6, <3>1, <3>2, <3>5, <4>1 DEF After
    <3>6. CASE line.is # "host" /\ ~s[i].skipping
      <4>1. line # Host({name})
        BY <3>6 DEF Host
      <4>. QED  BY <2>3, <2>4, <2>5, <2>6, <3>1, <3>2, <3>6, <4>1 DEF After
    <3>. QED  BY <3>3, <3>4, <3>5, <3>6
  <2>. QED  BY <2>1, <2>7
<1>. HIDE DEF S, n
<1>3. \A i \in 0..n : i \in S
  BY <1>0, <1>1, <1>2, UpTo
<1>. QED  BY <1>3 DEF S, n

(* A block has a ProxyCommand the code takes for ours, up to some line.    *)
Served(lines, i, b) ==
    \E j \in 1..i : Block(lines, j) = b /\ lines[j].is \in Ours

(* Every block of the name so far has one, but for the block the pass is   *)
(* in while has_pigeons_proxy is false.                                    *)
Serves(lines, name, i) ==
    LET acc == Scans(lines, name)[i]
    IN  ~acc.bail =>
            \A b \in 1..i :
                lines[b] = Host({name}) /\ (b = Block(lines, i) => acc.ours) => Served(lines, i, b)

(* So it is, if no block of the name follows another: a block that ended   *)
(* had to have one for the pass to go on.                                  *)
LEMMA ScanServes ==
    ASSUME NEW lines \in Seq(Lines), NEW name, ~RunsOn(lines, name)
    PROVE  \A i \in 0..Len(lines) : Serves(lines, name, i)
<1>. DEFINE n == Len(lines)
            s == Scans(lines, name)
            S == {i \in 0..n : Serves(lines, name, i)}
<1>0. n \in Nat
  OBVIOUS
<1>1. 0 \in S
  BY <1>0 DEF Serves
<1>2. ASSUME NEW i \in 0..(n - 1), i \in S
      PROVE  i + 1 \in S
  <2>. DEFINE line == lines[i + 1]
  <2>1. i + 1 \in 1..n /\ i \in 0..n /\ i \in Nat /\ line \in Lines
    BY <1>0
  <2>2. s[i] \in Acc /\ s[i + 1] = ScanLine(s[i], line, name)
    BY <2>1, ScansSteps
  <2>3. Block(lines, i + 1) = IF line.is = "host" THEN i + 1 ELSE Block(lines, i)
    BY <2>1, BlockNext
  <2>4. \A b : Served(lines, i, b) => Served(lines, i + 1, b)
    BY <2>1 DEF Served
  <2>. HIDE DEF s, line
  <2>5. ASSUME ~s[i + 1].bail, NEW b \in 1..(i + 1),
               lines[b] = Host({name}), b = Block(lines, i + 1) => s[i + 1].ours
        PROVE  Served(lines, i + 1, b)
    <3>1. After(s[i], line, name, s[i + 1])
      BY <2>1, <2>2, <2>5, ScanLineCases
    <3>2. b \in 1..i /\ (b = Block(lines, i) => s[i].ours) => Served(lines, i, b)
      BY <1>2, <2>5, <3>1 DEF Serves, After, s
    <3>3. CASE line = Host({name})
      <4>1. line.is = "host" /\ ~s[i + 1].ours
        BY <3>1, <3>3 DEF After
      <4>2. b \in 1..i
        BY <2>1, <2>3, <2>5, <4>1
      <4>3. CASE b = Block(lines, i)
        <5>1. \A k \in 1..i : k > b => lines[k].is # "host"
          BY <2>1, <4>3, BlockIs
        <5>2. \A k \in (b + 1)..((i + 1) - 1) : lines[k].is # "host"
          BY <2>1, <4>2, <5>1
        <5>3. b \in DOMAIN lines /\ i + 1 \in DOMAIN lines /\ b < i + 1
          BY <2>1, <4>2
        <5>4. lines[b] = Host({name}) /\ lines[i + 1] = Host({name})
          BY <2>5, <3>3 DEF line
        <5>. QED  BY <5>2, <5>3, <5>4 DEF RunsOn
      <4>. QED  BY <2>4, <3>2, <4>2, <4>3
    <3>4. CASE line.is = "host" /\ line # Host({name})
      <4>1. b \in 1..i
        BY <2>1, <2>5, <3>4 DEF line
      <4>2. s[i].found
        <5>1. Meant(lines, name, i)
          BY <2>1, ScanMeans
        <5>. QED  BY <2>5, <3>1, <4>1, <5>1 DEF Meant, After, s
      <4>3. s[i].ours
        BY <3>1, <3>4, <4>2 DEF After
      <4>. QED  BY <2>4, <3>2, <4>1, <4>3
    <3>5. CASE line.is # "host" /\ s[i].skipping
      <4>1. b \in 1..i
        <5>1. b # i + 1
          BY <2>5, <3>5 DEF line, Host
        <5>. QED  BY <2>1, <5>1
      <4>2. s[i + 1].ours <=> (s[i].ours \/ line.is \in Ours)
        BY <3>1, <3>5 DEF After
      <4>3. CASE b = Block(lines, i) /\ line.is \in Ours
        BY <2>1, <2>3, <3>5, <4>3 DEF Served, line
      <4>4. CASE ~(b = Block(lines, i) /\ line.is \in Ours)
        BY <2>3, <2>4, <2>5, <3>2, <3>5, <4>1, <4>2, <4>4
      <4>. QED  BY <4>3, <4>4
    <3>6. CASE line.is # "host" /\ ~s[i].skipping
      <4>1. b \in 1..i
        <5>1. b # i + 1
          BY <2>5, <3>6 DEF line, Host
        <5>. QED  BY <2>1, <5>1
      <4>2. s[i + 1].ours = s[i].ours
        BY <3>1, <3>6 DEF After
      <4>. QED  BY <2>3, <2>4, <2>5, <3>2, <3>6, <4>1, <4>2
    <3>. QED  BY <3>3, <3>4, <3>5, <3>6
  <2>6. Serves(lines, name, i + 1)
    BY <2>5 DEF Serves, s
  <2>. QED  BY <2>1, <2>6
<1>. HIDE DEF S, n
<1>3. \A i \in 0..n : i \in S
  BY <1>0, <1>1, <1>2, UpTo
<1>. QED  BY <1>3 DEF S, n

(* What it returns: the kept lines, without the blank ones at the end.     *)
LEMMA RemoveReturns ==
    ASSUME NEW lines \in Seq(Lines), NEW name
    PROVE  /\ Select(lines, Kept(lines, name)) \in Seq(Lines)
           /\ RemoveHostBlock(lines, name).lines \in Seq(Lines)
           /\ ~RemoveHostBlock(lines, name).err =>
                  RemoveHostBlock(lines, name).lines = Tidy(Select(lines, Kept(lines, name)))
<1>. DEFINE n == Len(lines)
            end == Scans(lines, name)[n]
<1>1. n \in 0..n /\ end \in Acc
  BY ScansSteps
<1>2. Selects(lines, Kept(lines, name))[n] \in Seq(Lines)
  BY <1>1, SelectsSteps
<1>3. Meant(lines, name, n)
  BY <1>1, ScanMeans
<1>. HIDE DEF n
<1>4. ~end.bail => end.out = Select(lines, Kept(lines, name))
  BY <1>3 DEF Meant, Select, n
<1>5. /\ RemoveHostBlock(lines, name).err = (end.bail \/ (end.found /\ ~end.ours))
      /\ RemoveHostBlock(lines, name).lines = Tidy(end.out)
  BY DEF RemoveHostBlock, n
<1>6. Tidy(end.out) \in Seq(Lines)
  <2>1. end.out \in Seq(Lines)
    BY <1>1 DEF Acc
  <2>. HIDE DEF end
  <2>. QED  BY <2>1, TidyFacts
<1>. QED  BY <1>2, <1>4, <1>5, <1>6 DEF Select, n

(* If it returns them, and neither exception holds, every block of the     *)
(* name was one of ours.                                                   *)
LEMMA RemoveServes ==
    ASSUME NEW lines \in Seq(Lines), NEW name,
           ~RunsOn(lines, name), ~OnlyMentions(lines, name),
           ~RemoveHostBlock(lines, name).err, NEW i \in DOMAIN lines
    PROVE  OfRoute(lines, i, name) <=> i \notin Kept(lines, name)
<1>. DEFINE n == Len(lines)
            end == Scans(lines, name)[n]
            b == Block(lines, i)
<1>0. n \in 0..n /\ DOMAIN lines = 1..n /\ i \in 1..n /\ i \in Nat
  OBVIOUS
<1>1. b \in 0..i
  BY <1>0, BlockIs
<1>2. Header(lines, i) = Host({name}) <=> b # 0 /\ lines[b] = Host({name})
  BY DEF Header, Heading, Block, Blank, Host
<1>3. ASSUME b # 0, lines[b] = Host({name})
      PROVE  OfRoute(lines, i, name)
  <2>1. ~end.bail /\ (end.found => end.ours)
    BY DEF RemoveHostBlock
  <2>2. Meant(lines, name, n) /\ Serves(lines, name, n)
    BY <1>0, ScanMeans, ScanServes
  <2>3. b \in 1..n
    BY <1>0, <1>1, <1>3
  <2>4. Section(lines, i) = b /\ Under(lines, i, name)
    BY <1>3, SectionIsBlock
  <2>. HIDE DEF n, b
  <2>5. end.ours
    BY <1>3, <2>1, <2>2, <2>3 DEF Meant
  <2>6. Served(lines, n, b)
    BY <1>3, <2>1, <2>2, <2>3, <2>5 DEF Serves
  <2>7. PICK j \in DOMAIN lines : Block(lines, j) = b /\ lines[j].is \in Ours
    BY <1>0, <2>6 DEF Served
  <2>8. Section(lines, j) = b /\ Under(lines, j, name)
    BY <1>3, <2>7, SectionIsBlock
  <2>9. Has(lines, i, Runners)
    <3>1. CASE lines[j].is = "mention"
      <4>1. Has(lines, j, Runners)
        BY <2>8, <3>1 DEF OnlyMentions
      <4>. QED  BY <2>4, <2>8, <4>1 DEF Has
    <3>2. CASE lines[j].is # "mention"
      <4>1. lines[j].is \in Runners
        BY <2>7, <3>2 DEF Ours, Runners
      <4>. QED  BY <2>4, <2>8, <4>1 DEF Has
    <3>. QED  BY <3>1, <3>2
  <2>. QED  BY <2>4, <2>9 DEF OfRoute
<1>4. OfRoute(lines, i, name) => Header(lines, i) = Host({name})
  BY <1>0, UnderIs DEF OfRoute
<1>. QED  BY <1>0, <1>2, <1>3, <1>4 DEF Kept

(* The lines with text among some lines.                                   *)
Text(lines) == {i \in DOMAIN lines : lines[i] # Blank}

(* The text among selected lines is the selection of the lines with text.  *)
LEMMA TextOfSelected ==
    ASSUME NEW lines \in Seq(Lines), NEW P
    PROVE  Select(Select(lines, P), Text(Select(lines, P))) =
               Select(lines, P \cap Text(lines))
<1>. DEFINE n == Len(lines)
            sel == Selects(lines, P)
            txt == Selects(lines, P \cap Text(lines))
            S == {i \in 0..n : Select(sel[i], Text(sel[i])) = txt[i]}
<1>0. n \in Nat
  OBVIOUS
<1>1. 0 \in S
  <2>1. sel[0] = <<>> /\ txt[0] = <<>>
    BY SelectsSteps
  <2>2. Select(<<>>, Text(<<>>)) = <<>>
    <3>1. <<>> \in Seq(Lines) /\ Len(<<>>) = 0
      OBVIOUS
    <3>2. Selects(<<>>, Text(<<>>))[0] = <<>>
      BY <3>1, SelectsSteps
    <3>. QED  BY <3>1, <3>2 DEF Select
  <2>. QED  BY <1>0, <2>1, <2>2
<1>2. ASSUME NEW i \in 0..(n - 1), i \in S
      PROVE  i + 1 \in S
  <2>. DEFINE line == lines[i + 1]
              x == sel[i]
              y == Append(x, line)
  <2>1. i + 1 \in 1..n /\ i \in 0..n /\ i \in Nat /\ line \in Lines
    BY <1>0
  <2>2. x \in Seq(Lines)
    BY <2>1, SelectsSteps
  <2>3. sel[i + 1] = IF i + 1 \in P THEN y ELSE x
    BY <2>1, SelectsSteps
  <2>4. txt[i + 1] = IF i + 1 \in P /\ line # Blank THEN Append(txt[i], line) ELSE txt[i]
    <3>1. i + 1 \in P \cap Text(lines) <=> i + 1 \in P /\ line # Blank
      BY <2>1 DEF Text
    <3>. QED  BY <2>1, <3>1, SelectsSteps
  <2>5. Select(x, Text(x)) = txt[i]
    BY <1>2
  <2>. HIDE DEF n, sel, txt, line
  <2>6. /\ y \in Seq(Lines) /\ Len(y) = Len(x) + 1 /\ Len(x) \in Nat
        /\ \A j \in 1..Len(x) : y[j] = x[j]
        /\ y[Len(x) + 1] = line
    BY <2>1, <2>2, AppendProperties
  <2>7. Select(y, Text(y)) = IF line # Blank THEN Append(Select(x, Text(x)), line)
                             ELSE Select(x, Text(x))
    <3>. HIDE DEF x, y
    <3>1. \A j \in 1..Len(x) : x[j] = y[j] /\ (j \in Text(x) <=> j \in Text(y))
      <4>1. DOMAIN x = 1..Len(x) /\ DOMAIN y = 1..Len(y)
        BY <2>2, <2>6
      <4>. QED  BY <2>6, <4>1 DEF Text
    <3>2. Selects(x, Text(x))[Len(x)] = Selects(y, Text(y))[Len(x)]
      BY <2>2, <2>6, <3>1, SelectsAgree
    <3>3. Len(x) + 1 \in Text(y) <=> line # Blank
      BY <2>6 DEF Text
    <3>4. Len(x) \in 0..(Len(y) - 1)
      BY <2>6
    <3>5. Selects(y, Text(y))[Len(x) + 1] =
              IF Len(x) + 1 \in Text(y)
              THEN Append(Selects(y, Text(y))[Len(x)], y[Len(x) + 1])
              ELSE Selects(y, Text(y))[Len(x)]
      BY <2>6, <3>4, SelectsSteps
    <3>. QED  BY <2>6, <3>2, <3>3, <3>5 DEF Select
  <2>. HIDE DEF x, y
  <2>8. Select(sel[i + 1], Text(sel[i + 1])) = txt[i + 1]
    <3>1. CASE i + 1 \in P
      BY <2>3, <2>4, <2>5, <2>7, <3>1
    <3>2. CASE i + 1 \notin P
      BY <2>3, <2>4, <2>5, <3>2
    <3>. QED  BY <3>1, <3>2
  <2>. QED  BY <2>1, <2>8 DEF n
<1>3. n \in 0..n
  BY <1>0
<1>. HIDE DEF S, n
<1>4. n \in S
  BY <1>0, <1>1, <1>2, <1>3, UpTo
<1>. QED  BY <1>4 DEF S, Select, n

(* Each kept line is a line of the file, in the same block and section.    *)
LEMMA Origin ==
    ASSUME NEW lines \in Seq(Lines), NEW name
    PROVE  LET out == Select(lines, Kept(lines, name))
           IN  \A m \in 1..Len(out) :
                   \E k \in Kept(lines, name) :
                       /\ lines[k] = out[m] /\ Header(lines, k) = Header(out, m)
                       /\ Title(lines, k) = Title(out, m)
<1>. DEFINE n == Len(lines)
            sel == Selects(lines, Kept(lines, name))
            From(i) == \A m \in 1..Len(sel[i]) :
                           \E k \in Kept(lines, name) :
                               /\ lines[k] = sel[i][m] /\ Header(lines, k) = Header(sel[i], m)
                               /\ Title(lines, k) = Title(sel[i], m)
            Ends(i) == Header(lines, i) # Host({name}) =>
                           /\ Header(sel[i], Len(sel[i])) = Header(lines, i)
                           /\ Title(sel[i], Len(sel[i])) = Title(lines, i)
            S == {i \in 0..n : From(i) /\ Ends(i)}
<1>0. n \in Nat
  OBVIOUS
<1>1. 0 \in S
  <2>1. sel[0] = <<>> /\ Len(<<>>) = 0
    BY SelectsSteps
  <2>2. \A others : Header(others, 0) = Blank /\ Title(others, 0) = Blank
    BY HeaderNext, TitleNext
  <2>. QED  BY <1>0, <2>1, <2>2
<1>2. ASSUME NEW i \in 0..(n - 1), i \in S
      PROVE  i + 1 \in S
  <2>. DEFINE line == lines[i + 1]
              x == sel[i]
              y == Append(x, line)
  <2>1. i + 1 \in 1..n /\ i \in 0..n /\ i \in Nat /\ line \in Lines
    BY <1>0
  <2>2. x \in Seq(Lines) /\ Len(x) \in Nat
    BY <2>1, SelectsSteps
  <2>3. sel[i + 1] = IF i + 1 \in Kept(lines, name) THEN y ELSE x
    BY <2>1, SelectsSteps
  <2>4. i + 1 \in Kept(lines, name) <=> Header(lines, i + 1) # Host({name})
    BY <2>1 DEF Kept
  <2>5. Header(lines, i + 1) = IF line.is = "host" THEN line ELSE Header(lines, i)
    BY <2>1, HeaderNext
  <2>5a. Title(lines, i + 1) =
             IF line.is \in {"host", "match"} THEN line ELSE Title(lines, i)
    BY <2>1, TitleNext
  <2>6. From(i) /\ Ends(i)
    BY <1>2
  <2>7. CASE i + 1 \notin Kept(lines, name)
    BY <2>1, <2>3, <2>4, <2>6, <2>7
  <2>8. CASE i + 1 \in Kept(lines, name)
    <3>1. /\ y \in Seq(Lines) /\ Len(y) = Len(x) + 1
          /\ \A m \in 1..Len(x) : y[m] = x[m]
          /\ y[Len(x) + 1] = line
      BY <2>1, <2>2, AppendProperties
    <3>2. sel[i + 1] = y
      BY <2>3, <2>8
    <3>. HIDE DEF y, n
    <3>3. \A m \in 0..Len(x) : Header(y, m) = Header(x, m) /\ Title(y, m) = Title(x, m)
      <4>. TAKE m \in 0..Len(x)
      <4>1. m \in Nat /\ \A k \in 1..m : y[k] = x[k]
        BY <2>2, <3>1
      <4>. QED  BY <4>1, SameLatest DEF Header, Title
    <3>4a. Title(y, Len(x) + 1) = Title(lines, i + 1)
      <4>1. Title(y, Len(x) + 1) =
                IF line.is \in {"host", "match"} THEN line ELSE Title(y, Len(x))
        BY <2>2, <3>1, TitleNext
      <4>2. line.is \notin {"host", "match"} => Title(y, Len(x)) = Title(lines, i)
        BY <2>2, <2>4, <2>5, <2>6, <2>8, <3>3
      <4>. QED  BY <2>5a, <4>1, <4>2
    <3>4. Header(y, Len(x) + 1) = Header(lines, i + 1)
      <4>1. Header(y, Len(x) + 1) = IF line.is = "host" THEN line ELSE Header(y, Len(x))
        BY <2>2, <3>1, HeaderNext
      <4>2. line.is # "host" => Header(y, Len(x)) = Header(lines, i)
        BY <2>2, <2>4, <2>5, <2>6, <2>8, <3>3
      <4>. QED  BY <2>5, <4>1, <4>2
    <3>5. From(i + 1)
      <4>. SUFFICES ASSUME NEW m \in 1..Len(y)
                    PROVE  \E k \in Kept(lines, name) :
                               /\ lines[k] = y[m] /\ Header(lines, k) = Header(y, m)
                               /\ Title(lines, k) = Title(y, m)
        BY <3>2
      <4>1. CASE m = Len(x) + 1
        BY <2>8, <3>1, <3>4, <3>4a, <4>1
      <4>2. CASE m # Len(x) + 1
        <5>1. m \in 1..Len(x)
          BY <2>2, <3>1, <4>2
        <5>2. PICK k \in Kept(lines, name) :
                  /\ lines[k] = x[m] /\ Header(lines, k) = Header(x, m)
                  /\ Title(lines, k) = Title(x, m)
          BY <2>6, <5>1
        <5>. QED  BY <3>1, <3>3, <5>1, <5>2
      <4>. QED  BY <4>1, <4>2
    <3>6. Ends(i + 1)
      BY <3>1, <3>2, <3>4, <3>4a
    <3>. QED  BY <2>1, <3>5, <3>6 DEF n
  <2>. QED  BY <2>7, <2>8
<1>3. n \in 0..n
  BY <1>0
<1>. HIDE DEF S, n
<1>4. n \in S
  BY <1>0, <1>1, <1>2, <1>3, UpTo
<1>. QED  BY <1>4 DEF S, Select, n

(* No line of the name is left.                                            *)
LEMMA NoneLeft ==
    ASSUME NEW lines \in Seq(Lines), NEW name, ~RemoveHostBlock(lines, name).err
    PROVE  LET left == RemoveHostBlock(lines, name).lines
           IN  \A m \in 1..Len(left) :
                   /\ left[m] # Host({name})
                   /\ \E k \in Kept(lines, name) :
                          /\ lines[k] = left[m] /\ Header(lines, k) = Header(left, m)
                          /\ Title(lines, k) = Title(left, m)
<1>. DEFINE out == Select(lines, Kept(lines, name))
            left == RemoveHostBlock(lines, name).lines
<1>1. out \in Seq(Lines) /\ left = Tidy(out)
  BY RemoveReturns
<1>2. PICK n \in 0..Len(out) : Len(left) = n /\ \A m \in 1..n : left[m] = out[m]
  <2>. HIDE DEF out, left
  <2>. QED  BY <1>1, TidyFacts
<1>3. \A m \in 1..Len(out) :
          \E k \in Kept(lines, name) :
              /\ lines[k] = out[m] /\ Header(lines, k) = Header(out, m)
              /\ Title(lines, k) = Title(out, m)
  BY Origin
<1>. HIDE DEF out, left
<1>4. SUFFICES ASSUME NEW m \in 1..Len(left)
               PROVE  /\ left[m] # Host({name})
                      /\ \E k \in Kept(lines, name) :
                             /\ lines[k] = left[m] /\ Header(lines, k) = Header(left, m)
                             /\ Title(lines, k) = Title(left, m)
  BY DEF left
<1>5. m \in 1..n /\ m \in 1..Len(out) /\ m \in Nat
  BY <1>1, <1>2
<1>6. Header(left, m) = Header(out, m) /\ Title(left, m) = Title(out, m)
  <2>1. \A k \in 1..m : left[k] = out[k]
    BY <1>2, <1>5
  <2>. QED  BY <1>5, <2>1, SameLatest DEF Header, Title
<1>7. PICK k \in Kept(lines, name) :
          /\ lines[k] = out[m] /\ Header(lines, k) = Header(out, m)
          /\ Title(lines, k) = Title(out, m)
  BY <1>3, <1>5
<1>8. lines[k] # Host({name})
  <2>1. k \in 1..Len(lines) /\ Header(lines, k) # Host({name})
    BY DEF Kept
  <2>2. (k - 1) \in Nat /\ (k - 1) + 1 = k
    BY <2>1
  <2>3. Header(lines, k) = IF lines[k].is = "host" THEN lines[k] ELSE Header(lines, k - 1)
    BY <2>2, HeaderNext
  <2>. QED  BY <2>1, <2>3, LineFacts
<1>. QED  BY <1>2, <1>5, <1>6, <1>7, <1>8

(* The lines that are not of its routes are the same after an edit that    *)
(* leaves what remove_host_block returns, and below it has only blank      *)
(* lines and lines of a new route.                                         *)
LEMMA ForeignStays ==
    ASSUME NEW lines \in Seq(Lines), NEW name, NEW new \in Seq(Lines),
           ~RemoveHostBlock(lines, name).err,
           ~RunsOn(lines, name), ~OnlyMentions(lines, name),
           NEW left, left = RemoveHostBlock(lines, name).lines,
           Len(left) <= Len(new),
           \A i \in 1..Len(left) : new[i] = left[i],
           \A i \in (Len(left) + 1)..Len(new) : new[i] = Blank \/ OfRoute(new, i, name)
    PROVE  Foreign(new, name) = Foreign(lines, name)
<1>. DEFINE out == Select(lines, Kept(lines, name))
            after == {i \in DOMAIN new : new[i] # Blank /\ ~OfRoute(new, i, name)}
            before == {i \in DOMAIN lines : lines[i] # Blank /\ ~OfRoute(lines, i, name)}
<1>1. out \in Seq(Lines) /\ left = Tidy(out) /\ left \in Seq(Lines)
  BY RemoveReturns
<1>2. Foreign(lines, name) = Select(out, Text(out))
  <2>1. before = Kept(lines, name) \cap Text(lines)
    BY RemoveServes DEF Kept, Text
  <2>2. Foreign(lines, name) = Select(lines, before)
    BY DEF Foreign
  <2>3. Select(out, Text(out)) = Select(lines, Kept(lines, name) \cap Text(lines))
    BY TextOfSelected
  <2>. QED  BY <2>1, <2>2, <2>3
<1>. HIDE DEF out
<1>3. Select(left, Text(left)) = Select(out, Text(out))
  <2>0. \E m \in 0..Len(out) : /\ \A i \in (m + 1)..Len(out) : out[i] = Blank
                              /\ Len(Tidy(out)) = m
                              /\ \A i \in 1..m : Tidy(out)[i] = out[i]
    BY <1>1, TidyFacts
  <2>1. PICK m \in 0..Len(out) : /\ \A i \in (m + 1)..Len(out) : out[i] = Blank
                                 /\ Len(left) = m
                                 /\ \A i \in 1..m : left[i] = out[i]
    BY <1>1, <2>0
  <2>2. /\ \A i \in 1..m : i \in Text(left) <=> i \in Text(out)
        /\ \A i \in (m + 1)..Len(out) : i \notin Text(out)
    BY <1>1, <2>1 DEF Text
  <2>. QED  BY <1>1, <2>1, <2>2, SelectAgrees
<1>4. Foreign(new, name) = Select(left, Text(left))
  <2>1. ASSUME NEW i \in 1..Len(left)
        PROVE  ~OfRoute(new, i, name)
    <3>1. i \in Nat /\ Len(left) \in Nat
      BY <1>1
    <3>2. Section(new, i) \in 0..i
      BY <3>1, SectionIs
    <3>3. Section(new, i) # 0 => Section(new, i) \in 1..Len(left)
      BY <3>1, <3>2
    <3>4. \A m \in 1..Len(left) : left[m] # Host({name})
      BY NoneLeft
    <3>. QED  BY <3>3, <3>4 DEF OfRoute, Under
  <2>2. /\ \A i \in 1..Len(left) : i \in Text(left) <=> i \in after
        /\ \A i \in (Len(left) + 1)..Len(new) : i \notin after
    <3>1. DOMAIN left = 1..Len(left) /\ DOMAIN new = 1..Len(new) /\ Len(left) \in Nat
      BY <1>1
    <3>. QED  BY <2>1, <3>1 DEF Text
  <2>3. Foreign(new, name) = Select(new, after)
    BY DEF Foreign
  <2>. HIDE DEF after
  <2>4. Select(left, Text(left)) = Select(new, after)
    BY <1>1, <2>2, SelectAgrees
  <2>. QED  BY <2>3, <2>4
<1>. QED  BY <1>2, <1>3, <1>4

(***************************************************************************)
(* add_tunnel_host: a new block below some lines.                          *)
(***************************************************************************)
Below(left, name, id) ==
    left \o (IF left = <<>> THEN <<>> ELSE <<Blank>>) \o <<Host({name}), Fly(id), Option>>

(* The lines of the new file: those left, a blank one if there are any,    *)
(* and from p + 1 the block, which is a route of the name.                 *)
Placed(left, name, id, new, p) ==
    /\ new \in Seq(Lines) /\ Len(new) = p + 3
    /\ p = (IF left = <<>> THEN 0 ELSE Len(left) + 1)
    /\ \A i \in 1..Len(left) : new[i] = left[i]
    /\ \A i \in (Len(left) + 1)..p : new[i] = Blank
    /\ new[p + 1] = Host({name}) /\ new[p + 2] = Fly(id) /\ new[p + 3] = Option
    /\ \A i \in (p + 1)..(p + 3) : Section(new, i) = p + 1 /\ OfRoute(new, i, name)

(* That is what add_tunnel_host makes.                                     *)
LEMMA BelowIs ==
    ASSUME NEW left \in Seq(Lines), NEW name \in Names, NEW id \in Ids,
           NEW new, new = Below(left, name, id)
    PROVE  \E p \in Nat : Placed(left, name, id, new, p)
<1>. DEFINE gap == IF left = <<>> THEN <<>> ELSE <<Blank>>
            block == <<Host({name}), Fly(id), Option>>
            p == IF left = <<>> THEN 0 ELSE Len(left) + 1
<1>1. gap \in Seq(Lines) /\ block \in Seq(Lines) /\ Len(block) = 3
  BY LineFacts
<1>2. /\ left \o gap \in Seq(Lines) /\ Len(left \o gap) = p /\ p \in Nat
      /\ \A i \in 1..Len(left) : (left \o gap)[i] = left[i]
      /\ \A i \in (Len(left) + 1)..p : (left \o gap)[i] = Blank
  <2>1. CASE left = <<>>
    BY <2>1
  <2>2. CASE left # <<>>
    <3>1. gap = <<Blank>> /\ Len(gap) = 1 /\ gap[1] = Blank
      BY <2>2
    <3>2. p = Len(left) + 1
      BY <2>2
    <3>. HIDE DEF gap, p
    <3>. QED  BY <1>1, <3>1, <3>2, ConcatProperties
  <2>. QED  BY <2>1, <2>2
<1>3. Len(left) <= p /\ Len(left) \in Nat
  OBVIOUS
<1>4. /\ new \in Seq(Lines) /\ Len(new) = p + 3
      /\ \A i \in 1..p : new[i] = (left \o gap)[i]
      /\ \A i \in 1..3 : new[p + i] = block[i]
  <2>. DEFINE above == left \o gap
  <2>0. above \in Seq(Lines) /\ Len(above) = p
    BY <1>2
  <2>1. new = above \o block
    BY DEF Below
  <2>. HIDE DEF gap, p, block, above
  <2>2. /\ above \o block \in Seq(Lines) /\ Len(above \o block) = Len(above) + Len(block)
        /\ \A i \in 1..(Len(above) + Len(block)) :
               (above \o block)[i] = IF i <= Len(above) THEN above[i] ELSE block[i - Len(above)]
    BY <1>1, <2>0, ConcatProperties
  <2>3. /\ new \in Seq(Lines) /\ Len(new) = p + 3
        /\ \A i \in 1..(p + 3) : new[i] = IF i <= p THEN above[i] ELSE block[i - p]
    BY <1>1, <2>0, <2>1, <2>2
  <2>4. \A i \in 1..3 : p + i \in 1..(p + 3) /\ ~(p + i <= p) /\ (p + i) - p = i
    BY <1>2
  <2>. QED  BY <1>2, <2>3, <2>4 DEF above
<1>5. new[p + 1] = Host({name}) /\ new[p + 2] = Fly(id) /\ new[p + 3] = Option
  BY <1>4
<1>. HIDE DEF gap, block, p
<1>6. /\ \A i \in 1..Len(left) : new[i] = left[i]
      /\ \A i \in (Len(left) + 1)..p : new[i] = Blank
  <2>1. \A i \in 1..Len(left) : i \in 1..p
    BY <1>2, <1>3
  <2>2. \A i \in (Len(left) + 1)..p : i \in 1..p
    BY <1>2, <1>3
  <2>. QED  BY <1>2, <1>4, <2>1, <2>2
<1>7. ASSUME NEW i \in (p + 1)..(p + 3)
      PROVE  Section(new, i) = p + 1
  <2>0. new[p + 1].is \in {"host", "match"}
    BY <1>5, LineFacts
  <2>1. p + 1 \in 0..i /\ i \in Nat
    BY <1>2
  <2>2. \A k \in 1..i : k > p + 1 => new[k].is \notin {"host", "match"}
    <3>1. \A k \in 1..i : k > p + 1 => k = p + 2 \/ k = p + 3
      BY <1>2
    <3>. QED  BY <1>5, <3>1, LineFacts
  <2>. QED  BY <2>0, <2>1, <2>2, LatestUnique DEF Section
<1>8. ASSUME NEW i \in (p + 1)..(p + 3)
      PROVE  OfRoute(new, i, name)
  <2>1. p + 2 \in (p + 1)..(p + 3) /\ p + 2 \in DOMAIN new /\ p + 1 # 0
    BY <1>2, <1>4
  <2>2. Section(new, p + 2) = Section(new, i) /\ new[p + 2].is \in Runners
    BY <1>5, <1>7, <2>1, LineFacts DEF Runners
  <2>. QED  BY <1>5, <1>7, <2>1, <2>2 DEF OfRoute, Under, Has
<1>9. p = (IF left = <<>> THEN 0 ELSE Len(left) + 1)
  BY DEF p
<1>. QED  BY <1>2, <1>4, <1>5, <1>6, <1>7, <1>8, <1>9 DEF Placed

(* The edit of an add or a remove, when there is no error.                 *)
LEMMA EditedIs ==
    ASSUME NEW file, file.lines \in Seq(Lines), NEW c \in Commands
    PROVE  LET left == RemoveHostBlock(file.lines, c.name).lines
           IN  /\ c.name \in Names
               /\ c.op = "add" => /\ c.id \in Ids
                                  /\ Edited(file, c).lines = Below(left, c.name, c.id)
               /\ c.op # "add" => c.op = "remove" /\ Edited(file, c).lines = left
               /\ Edited(file, c).lines \in Seq(Lines)
               /\ ~Edited(file, c).err => ~RemoveHostBlock(file.lines, c.name).err
<1>. DEFINE left == RemoveHostBlock(file.lines, c.name).lines
<1>1. left \in Seq(Lines)
  BY RemoveReturns
<1>2. CASE c \in [op : {"add"}, name : Names, id : Ids]
  <2>1. c.op = "add" /\ c.name \in Names /\ c.id \in Ids
    BY <1>2
  <2>2. Edited(file, c) = Added(file.lines, c.name, c.id)
    BY <2>1 DEF Edited
  <2>3. /\ Edited(file, c).lines = Below(left, c.name, c.id)
        /\ Edited(file, c).err = RemoveHostBlock(file.lines, c.name).err
    <3>1. Added(file.lines, c.name, c.id) =
              [err |-> RemoveHostBlock(file.lines, c.name).err,
               lines |-> Below(left, c.name, c.id)]
      BY DEF Added, Below
    <3>. HIDE DEF left
    <3>. QED  BY <2>2, <3>1
  <2>. HIDE DEF left
  <2>4. Below(left, c.name, c.id) \in Seq(Lines)
    <3>1. PICK p \in Nat : Placed(left, c.name, c.id, Below(left, c.name, c.id), p)
      BY <1>1, <2>1, BelowIs
    <3>. QED  BY <3>1 DEF Placed
  <2>. QED  BY <2>1, <2>3, <2>4 DEF left
<1>3. CASE c \in [op : {"remove"}, name : Names]
  <2>1. c.op = "remove" /\ c.name \in Names
    BY <1>3
  <2>2. Edited(file, c) = Removed(file, c.name)
    BY <2>1 DEF Edited
  <2>. QED  BY <1>1, <2>1, <2>2 DEF Removed
<1>. QED  BY <1>2, <1>3 DEF Commands

(* An edit that is no error leaves the lines that are not of the name's    *)
(* routes.                                                                 *)
LEMMA EditKeepsForeign ==
    ASSUME NEW file, file.lines \in Seq(Lines), NEW c \in Commands,
           ~Edited(file, c).err,
           ~RunsOn(file.lines, c.name), ~OnlyMentions(file.lines, c.name)
    PROVE  Foreign(Edited(file, c).lines, c.name) = Foreign(file.lines, c.name)
<1>. DEFINE left == RemoveHostBlock(file.lines, c.name).lines
            new == Edited(file, c).lines
<1>1. /\ left \in Seq(Lines) /\ new \in Seq(Lines) /\ c.name \in Names
      /\ ~RemoveHostBlock(file.lines, c.name).err
  BY EditedIs, RemoveReturns
<1>2. CASE c.op = "add"
  <2>1. c.id \in Ids /\ new = Below(left, c.name, c.id)
    BY <1>2, EditedIs
  <2>. HIDE DEF left, new
  <2>2. PICK p \in Nat : Placed(left, c.name, c.id, new, p)
    BY <1>1, <2>1, BelowIs
  <2>3. Len(left) <= Len(new)
    BY <1>1, <2>2 DEF Placed
  <2>4. ASSUME NEW i \in (Len(left) + 1)..Len(new)
        PROVE  new[i] = Blank \/ OfRoute(new, i, c.name)
    <3>1. i \in (Len(left) + 1)..p \/ i \in (p + 1)..(p + 3)
      BY <1>1, <2>2 DEF Placed
    <3>. QED  BY <2>2, <3>1 DEF Placed
  <2>5. \A i \in 1..Len(left) : new[i] = left[i]
    BY <2>2 DEF Placed
  <2>6. left = RemoveHostBlock(file.lines, c.name).lines
    BY DEF left
  <2>7. Foreign(new, c.name) = Foreign(file.lines, c.name)
    BY <1>1, <2>3, <2>4, <2>5, <2>6, ForeignStays
  <2>. QED  BY <2>7 DEF new
<1>3. CASE c.op # "add"
  <2>1. new = left
    BY <1>3, EditedIs
  <2>. QED  BY <1>1, <2>1, ForeignStays
<1>. QED  BY <1>2, <1>3

(* Whether a ProxyCommand applies, by the line its section begins with.    *)
LEMMA RoutingBy ==
    ASSUME NEW lines, NEW i \in DOMAIN lines, NEW name, i \in Nat
    PROVE  i \in Routing(lines, name) <=>
               /\ lines[i].is \in Proxies
               /\ Title(lines, i).is \in {"host", "match"} => name \in Title(lines, i).of
<1>1. Section(lines, i) # 0 <=> Title(lines, i).is \in {"host", "match"}
  BY LatestIs, LineFacts DEF Title, Heading, Section
<1>2. Section(lines, i) # 0 => Title(lines, i) = lines[Section(lines, i)]
  BY DEF Title, Heading, Section
<1>. QED  BY <1>1, <1>2 DEF Routing

(* After an add ssh takes the new line: of the lines that are left none    *)
(* applies to the name, as none did before outside its own blocks.         *)
LEMMA AddRoutes ==
    ASSUME NEW file, file.lines \in Seq(Lines), NEW c \in Commands, c.op = "add",
           ~Edited(file, c).err, Unclaimed(file.lines, c.name)
    PROVE  Route(Edited(file, c).lines, c.name) = Fly(c.id)
<1>. DEFINE lines == file.lines
            name == c.name
            left == RemoveHostBlock(lines, name).lines
            new == Edited(file, c).lines
<1>1. /\ left \in Seq(Lines) /\ name \in Names /\ c.id \in Ids
      /\ new = Below(left, name, c.id) /\ ~RemoveHostBlock(lines, name).err
  BY EditedIs, RemoveReturns
<1>2. \A m \in 1..Len(left) :
          \E k \in Kept(lines, name) :
              lines[k] = left[m] /\ Title(lines, k) = Title(left, m)
  BY <1>1, NoneLeft
<1>. HIDE DEF lines, name, left, new
<1>0. PICK p \in Nat : Placed(left, name, c.id, new, p)
  BY <1>1, BelowIs
<1>3. /\ new \in Seq(Lines) /\ Len(new) = p + 3
      /\ p = (IF left = <<>> THEN 0 ELSE Len(left) + 1)
      /\ \A i \in 1..Len(left) : new[i] = left[i]
      /\ \A i \in (Len(left) + 1)..p : new[i] = Blank
      /\ new[p + 1] = Host({name}) /\ new[p + 2] = Fly(c.id) /\ new[p + 3] = Option
      /\ \A i \in (p + 1)..(p + 3) : Section(new, i) = p + 1
  BY <1>0 DEF Placed
<1>4. DOMAIN new = 1..(p + 3) /\ Len(left) \in Nat /\ Len(left) <= p
  BY <1>1, <1>3
<1>5. ASSUME NEW i \in 1..Len(left)
      PROVE  i \notin Routing(new, name)
  <2>. SUFFICES ASSUME i \in Routing(new, name)
                PROVE  FALSE
    OBVIOUS
  <2>1. i \in Nat /\ i \in DOMAIN new
    BY <1>4
  <2>2. Title(new, i) = Title(left, i)
    <3>1. \A k \in 1..i : new[k] = left[k]
      BY <1>3
    <3>. QED  BY <2>1, <3>1, SameLatest DEF Title
  <2>3. PICK k \in Kept(lines, name) : lines[k] = left[i] /\ Title(lines, k) = Title(left, i)
    BY <1>2
  <2>4. k \in DOMAIN lines /\ k \in Nat /\ Header(lines, k) # Host({name})
    <3>1. lines \in Seq(Lines)
      BY DEF lines
    <3>. QED  BY <3>1 DEF Kept
  <2>5. k \in Routing(lines, name)
    <3>1. /\ new[i].is \in Proxies
          /\ Title(new, i).is \in {"host", "match"} => name \in Title(new, i).of
      BY <2>1, RoutingBy
    <3>2. lines[k] = new[i] /\ Title(lines, k) = Title(new, i)
      BY <1>3, <2>2, <2>3
    <3>. QED  BY <2>4, <3>1, <3>2, RoutingBy
  <2>6. Under(lines, k, name)
    BY <2>5 DEF Unclaimed, lines, name
  <2>. QED  BY <2>4, <2>6, UnderIs
<1>6. p + 2 \in Routing(new, name)
  <2>1. p + 2 \in DOMAIN new /\ p + 2 \in (p + 1)..(p + 3)
    BY <1>4
  <2>2. Section(new, p + 2) = p + 1 /\ new[p + 2].is = "fly"
    BY <1>3, <2>1, LineFacts
  <2>3. name \in new[p + 1].of
    BY <1>3 DEF Host
  <2>. QED  BY <2>1, <2>2, <2>3 DEF Routing, Proxies, Runners
<1>7. ASSUME NEW i \in Routing(new, name)
      PROVE  i = p + 2
  <2>1. i \in 1..(p + 3) /\ new[i].is \in {"fly", "wrapped", "mention", "proxy"}
    BY <1>4 DEF Routing, Proxies, Runners
  <2>2. i \notin 1..Len(left)
    BY <1>5
  <2>3. i \notin (Len(left) + 1)..p
    BY <1>3, <2>1, LineFacts
  <2>4. i # p + 1
    <3>1. Host({name}).is = "host"
      BY LineFacts
    <3>2. new[p + 1].is = "host"
      BY <1>3, <3>1
    <3>. QED  BY <2>1, <3>2
  <2>5. i # p + 3
    <3>1. Option.is = "option"
      BY LineFacts
    <3>2. new[p + 3].is = "option"
      BY <1>3, <3>1
    <3>. QED  BY <2>1, <3>2
  <2>. QED  BY <1>4, <2>1, <2>2, <2>3, <2>4, <2>5
<1>8. Routing(new, name) = {p + 2}
  BY <1>6, <1>7
<1>9. Route(new, name) = new[p + 2]
  <2>1. (CHOOSE i \in {p + 2} : \A j \in {p + 2} : i <= j) = p + 2
    BY <1>3
  <2>. QED  BY <1>8, <2>1 DEF Route
<1>. QED  BY <1>3, <1>9 DEF new, name

(* Membership in a file, by the number of the line.                        *)
LEMMA ToSetHas ==
    ASSUME NEW lines \in Seq(Lines), NEW line
    PROVE  line \in ToSet(lines) <=> \E i \in 1..Len(lines) : lines[i] = line
<1>1. DOMAIN lines = 1..Len(lines)
  OBVIOUS
<1>2. ToSet(lines) = {lines[i] : i \in DOMAIN lines}
  BY DEF ToSet
<1>. QED  BY <1>1, <1>2

(* The state of the loop as long as no line of the name has come.          *)
Outside(kept) == [Scan0 EXCEPT !.out = kept]

(* Without a line of the name, all lines are kept.                         *)
LEMMA NothingToRemove ==
    ASSUME NEW lines \in Seq(Lines), NEW name, NEW m \in 0..Len(lines),
           \A i \in 1..m : lines[i] # Host({name})
    PROVE  Scans(lines, name)[m] = Outside(SubSeq(lines, 1, m))
<1>. DEFINE s == Scans(lines, name)
            S == {i \in 0..m : s[i] = Outside(SubSeq(lines, 1, i))}
<1>0. m \in Nat /\ Len(lines) \in Nat
  OBVIOUS
<1>1. 0 \in S
  <2>1. SubSeq(lines, 1, 0) = <<>>
    BY SubSeqEmpty
  <2>2. s[0] = Scan0
    BY ScansSteps
  <2>. HIDE DEF s
  <2>. QED  BY <1>0, <2>1, <2>2 DEF Scan0, Outside
<1>2. ASSUME NEW i \in 0..(m - 1), i \in S
      PROVE  i + 1 \in S
  <2>. DEFINE line == lines[i + 1]
  <2>1. i \in 0..(Len(lines) - 1) /\ i + 1 \in 1..Len(lines) /\ i + 1 \in 1..m
    BY <1>0
  <2>2. s[i + 1] = ScanLine(s[i], line, name)
    BY <2>1, ScansSteps
  <2>3. line # Host({name})
    BY <2>1
  <2>4. SubSeq(lines, 1, i + 1) = Append(SubSeq(lines, 1, i), line)
    BY <2>1
  <2>5. s[i] = Outside(SubSeq(lines, 1, i))
    BY <1>2
  <2>. HIDE DEF s, line
  <2>6. s[i + 1] = Outside(Append(SubSeq(lines, 1, i), line))
    <3>1. /\ ~s[i].bail /\ ~s[i].found /\ ~s[i].skipping
          /\ Outside(Append(SubSeq(lines, 1, i), line)) =
                 [s[i] EXCEPT !.skipping = FALSE, !.out = Append(@, line)]
      BY <2>5 DEF Scan0, Outside
    <3>. QED  BY <2>2, <2>3, <3>1 DEF ScanLine
  <2>7. s[i + 1] = Outside(SubSeq(lines, 1, i + 1))
    BY <2>4, <2>6
  <2>8. i + 1 \in 0..m
    BY <2>1
  <2>. QED  BY <2>7, <2>8
<1>3. m \in 0..m
  BY <1>0
<1>. HIDE DEF S
<1>4. m \in S
  BY <1>0, <1>1, <1>2, <1>3, UpTo
<1>. QED  BY <1>4 DEF S

(* Without a block of the name, nothing is removed but blank lines at the  *)
(* end.                                                                    *)
LEMMA NoBlock ==
    ASSUME NEW lines \in Seq(Lines), NEW name, Host({name}) \notin ToSet(lines)
    PROVE  /\ ~RemoveHostBlock(lines, name).err
           /\ RemoveHostBlock(lines, name).lines = Tidy(lines)
<1>. DEFINE end == Scans(lines, name)[Len(lines)]
<1>1. \A i \in 1..Len(lines) : lines[i] # Host({name})
  BY ToSetHas
<1>2. end = Outside(SubSeq(lines, 1, Len(lines)))
  <2>. DEFINE n == Len(lines)
  <2>1. n \in 0..n
    OBVIOUS
  <2>2. \A i \in 1..n : lines[i] # Host({name})
    BY <1>1
  <2>3. n \in 0..Len(lines)
    OBVIOUS
  <2>. HIDE DEF n
  <2>4. Scans(lines, name)[n] = Outside(SubSeq(lines, 1, n))
    BY <2>2, <2>3, NothingToRemove
  <2>. QED  BY <2>4 DEF n
<1>3. SubSeq(lines, 1, Len(lines)) = lines
  BY SubSeqFull
<1>. HIDE DEF end
<1>4. end.out = lines /\ ~end.bail /\ ~end.found
  BY <1>2, <1>3 DEF Scan0, Outside
<1>. QED  BY <1>4 DEF RemoveHostBlock, end

(* A remove that is no error, of a file without those, found a block.      *)
LEMMA RemoveFinds ==
    ASSUME NEW file, file.lines \in Seq(Lines), NEW c \in Commands, c.op = "remove",
           ~Edited(file, c).err, file = File(Tidy(file.lines), TRUE)
    PROVE  /\ Host({c.name}) \in ToSet(file.lines)
           /\ Host({c.name}) \notin ToSet(Edited(file, c).lines)
<1>. DEFINE left == RemoveHostBlock(file.lines, c.name).lines
<1>1. /\ Edited(file, c).lines = left /\ ~RemoveHostBlock(file.lines, c.name).err
      /\ left \in Seq(Lines)
  BY EditedIs, RemoveReturns
<1>2. Host({c.name}) \notin ToSet(left)
  <2>1. \A m \in 1..Len(left) : left[m] # Host({c.name})
    BY <1>1, NoneLeft
  <2>. HIDE DEF left
  <2>. QED  BY <1>1, <2>1, ToSetHas
<1>3. ASSUME Host({c.name}) \notin ToSet(file.lines)
      PROVE  FALSE
  <2>1. left = Tidy(file.lines)
    BY <1>3, NoBlock
  <2>2. file.lines = Tidy(file.lines) /\ file.nl /\ ~file.crlf
    BY DEF File
  <2>3. Edited(file, c) = Removed(file, c.name)
    BY DEF Edited
  <2>4. left = file.lines
    BY <2>1, <2>2
  <2>5. Removed(file, c.name).err
    BY <2>2, <2>4 DEF Removed
  <2>. QED  BY <2>3, <2>5
<1>. QED  BY <1>1, <1>2, <1>3

(* Adding a name that is not there, then removing it, gives the file back. *)
LEMMA AddUndone ==
    ASSUME NEW lines \in Seq(Lines), NEW name \in Names, NEW id \in Ids,
           Host({name}) \notin ToSet(lines)
    PROVE  LET added   == Added(lines, name, id)
               removed == Removed(File(added.lines, TRUE), name)
           IN  ~added.err /\ ~removed.err /\ removed.lines = Tidy(lines)
<1>. DEFINE left == Tidy(lines)
            new == Below(left, name, id)
            s == Scans(new, name)
<1>1. ~Added(lines, name, id).err /\ Added(lines, name, id).lines = new
  BY NoBlock DEF Added, Below
<1>2. PICK m \in 0..Len(lines) :
          /\ m = 0 <=> lines = <<>>
          /\ m > 1 => lines[m] # Blank
          /\ left \in Seq(Lines) /\ Len(left) = m
          /\ \A i \in 1..m : left[i] = lines[i]
  BY TidyFacts
<1>3. PICK p \in Nat : Placed(left, name, id, new, p)
  <2>. HIDE DEF left
  <2>. QED  BY <1>2, BelowIs
<1>. HIDE DEF left, new
<1>4. /\ new \in Seq(Lines) /\ Len(new) = p + 3
      /\ p = (IF left = <<>> THEN 0 ELSE m + 1)
      /\ \A i \in 1..m : new[i] = left[i]
      /\ \A i \in (m + 1)..p : new[i] = Blank
      /\ new[p + 1] = Host({name}) /\ new[p + 2] = Fly(id) /\ new[p + 3] = Option
  BY <1>2, <1>3 DEF Placed
<1>. DEFINE above == SubSeq(new, 1, p)
<1>5. above \in Seq(Lines) /\ Len(above) = p /\ \A i \in 1..p : above[i] = new[i]
  <2>1. \A i \in 1..p : new[i] \in Lines
    BY <1>4
  <2>. QED  BY <2>1, SubSeqProperties
<1>6. left = <<>> <=> m = 0
  BY <1>2
<1>7. Tidy(above) = left
  <2>1. m \in Nat /\ m <= p
    BY <1>2, <1>4, <1>6
  <2>. HIDE DEF above
  <2>2. m = 0 <=> above = <<>>
    BY <1>4, <1>5, <1>6, <2>1
  <2>3. m > 1 => above[m] # Blank
    BY <1>2, <1>4, <1>5, <2>1
  <2>4. \A i \in (m + 1)..Len(above) : above[i] = Blank
    BY <1>4, <1>5, <2>1
  <2>5. Tidy(above) = SubSeq(above, 1, m)
    BY <1>5, <2>1, <2>2, <2>3, <2>4, TidyUnique
  <2>6. /\ SubSeq(above, 1, m) \in Seq(Lines) /\ Len(SubSeq(above, 1, m)) = m
        /\ \A i \in 1..m : SubSeq(above, 1, m)[i] = above[i]
    <3>1. \A i \in 1..m : above[i] \in Lines
      BY <1>5, <2>1
    <3>. QED  BY <2>1, <3>1, SubSeqProperties
  <2>7. \A i \in 1..m : above[i] = left[i]
    BY <1>4, <1>5, <2>1
  <2>. QED  BY <1>2, <2>5, <2>6, <2>7, SeqEqual
<1>8. s[p + 3].out = above /\ ~s[p + 3].bail /\ s[p + 3].found /\ s[p + 3].ours
  <2>1. \A i \in 1..p : new[i] # Host({name})
    <3>1. \A i \in 1..m : lines[i] # Host({name})
      BY ToSetHas
    <3>2. Blank # Host({name})
      BY DEF Blank, Host
    <3>3. TAKE i \in 1..p
    <3>4. i \in 1..m \/ i \in (m + 1)..p
      BY <1>2
    <3>. QED  BY <1>2, <1>4, <3>1, <3>2, <3>4
  <2>2. s[p] = Outside(above)
    <3>1. p \in 0..Len(new)
      BY <1>4
    <3>2. new \in Seq(Lines)
      BY <1>4
    <3>3. Scans(new, name)[p] = Outside(SubSeq(new, 1, p))
      <4>. HIDE DEF new
      <4>. QED  BY <2>1, <3>1, <3>2, NothingToRemove
    <3>. QED  BY <3>3
  <2>3. p \in 0..(Len(new) - 1) /\ p + 1 \in 0..(Len(new) - 1) /\ p + 2 \in 0..(Len(new) - 1)
    BY <1>4
  <2>4. /\ s[p + 1] = ScanLine(s[p], new[p + 1], name)
        /\ s[(p + 1) + 1] = ScanLine(s[p + 1], new[(p + 1) + 1], name)
        /\ s[(p + 2) + 1] = ScanLine(s[p + 2], new[(p + 2) + 1], name)
    BY <1>4, <2>3, ScansSteps
  <2>. HIDE DEF s, above
  <2>5. (p + 1) + 1 = p + 2 /\ (p + 2) + 1 = p + 3
    OBVIOUS
  <2>6. s[p + 1] = [out |-> above, skipping |-> TRUE, found |-> TRUE, ours |-> FALSE, bail |-> FALSE]
    BY <1>4, <2>2, <2>4 DEF ScanLine, Outside, Scan0
  <2>7. \A i \in 0..Len(new) : s[i] \in Acc
    BY <1>4, ScansSteps DEF s
  <2>8. /\ Fly(id).is = "fly" /\ Option.is = "option"
        /\ Fly(id) # Host({name}) /\ Option # Host({name})
    BY DEF Fly, Host, Option
  <2>9. /\ s[p + 2].out = above /\ s[p + 2].skipping /\ s[p + 2].found /\ s[p + 2].ours
        /\ ~s[p + 2].bail
    <3>1. s[p + 2] = ScanLine(s[p + 1], Fly(id), name)
      BY <1>4, <2>4, <2>5
    <3>2. ~ScanLine(s[p + 1], Fly(id), name).bail
      BY <2>6, <2>8 DEF ScanLine
    <3>3. After(s[p + 1], Fly(id), name, s[p + 2])
      BY <2>3, <2>7, <3>1, <3>2, LineFacts, ScanLineCases
    <3>4. s[p + 1].out = above /\ s[p + 1].skipping /\ s[p + 1].found
      BY <2>6
    <3>. QED  BY <2>8, <3>1, <3>2, <3>3, <3>4 DEF After, Ours
  <2>10. /\ s[p + 3].out = above /\ s[p + 3].skipping /\ s[p + 3].found /\ s[p + 3].ours
         /\ ~s[p + 3].bail
    <3>1. s[p + 3] = ScanLine(s[p + 2], Option, name)
      BY <1>4, <2>4, <2>5
    <3>2. ~ScanLine(s[p + 2], Option, name).bail
      <4>1. p + 2 \in 0..Len(new)
        BY <1>4
      <4>2. s[p + 2] \in Acc
        BY <2>7, <4>1
      <4>. QED  BY <2>8, <2>9, <4>2 DEF ScanLine, Acc
    <3>3. After(s[p + 2], Option, name, s[p + 3])
      <4>1. p + 2 \in 0..Len(new)
        BY <1>4
      <4>. QED  BY <2>7, <3>1, <3>2, <4>1, LineFacts, ScanLineCases
    <3>. QED  BY <2>8, <2>9, <3>1, <3>2, <3>3 DEF After
  <2>. QED  BY <2>10
<1>9. ~RemoveHostBlock(new, name).err /\ RemoveHostBlock(new, name).lines = left
  BY <1>4, <1>7, <1>8 DEF RemoveHostBlock
<1>10. left # new
  BY <1>2, <1>4, <1>6
<1>. QED  BY <1>1, <1>9, <1>10 DEF Removed, File, left

(***************************************************************************)
(* list_tunnel_hosts.                                                      *)
(***************************************************************************)
(* The entries of the endpoints among the first i lines.                   *)
Shown(lines, i) ==
    {[host |-> Header(lines, j).of, to |-> lines[j].of] :
        j \in {k \in 1..i : lines[k].is = "fly" /\ Header(lines, k).is = "host"}}

(* What the state stands for after i lines.                                *)
ListsWell(lines, i) ==
    LET acc == Lists(lines)[i]
    IN  /\ acc.host = Header(lines, i).of
        /\ acc.to # {} => \E j \in 1..i : Block(lines, j) = Block(lines, i) /\ lines[j].is = "fly"
        /\ ToSet(Flush(acc)) = Shown(lines, i)

(* A flush adds the block's entry if it has a name and an endpoint.        *)
LEMMA FlushIs ==
    ASSUME NEW acc \in Listed
    PROVE  /\ Flush(acc) \in Seq([host : SUBSET Names, to : SUBSET Ids])
           /\ acc.host = {} \/ acc.to = {} => Flush(acc) = acc.entries
           /\ acc.host # {} /\ acc.to # {} =>
                  ToSet(Flush(acc)) =
                      ToSet(acc.entries) \cup {[host |-> acc.host, to |-> acc.to]}
<1>. DEFINE e == [host |-> acc.host, to |-> acc.to]
            E == [host : SUBSET Names, to : SUBSET Ids]
            old == acc.entries
            new == Append(old, e)
<1>1. e \in E /\ old \in Seq(E)
  BY DEF Listed
<1>. HIDE DEF e, E, old
<1>2. /\ new \in Seq(E) /\ Len(new) = Len(old) + 1 /\ Len(old) \in Nat
      /\ \A i \in 1..Len(old) : new[i] = old[i]
      /\ new[Len(old) + 1] = e
  BY <1>1, AppendProperties
<1>3. ToSet(new) = ToSet(old) \cup {e}
  <2>1. ToSet(new) = {new[i] : i \in 1..(Len(old) + 1)} /\ ToSet(old) = {old[i] : i \in 1..Len(old)}
    <3>1. DOMAIN new = 1..(Len(old) + 1) /\ DOMAIN old = 1..Len(old)
      BY <1>1, <1>2
    <3>. QED  BY <3>1 DEF ToSet
  <2>2. 1..(Len(old) + 1) = 1..Len(old) \cup {Len(old) + 1}
    BY <1>2
  <2>. HIDE DEF new
  <2>. QED  BY <1>2, <2>1, <2>2
<1>4. Flush(acc) = IF acc.host = {} \/ acc.to = {} THEN old ELSE new
  BY DEF Flush, old, e
<1>. QED  BY <1>1, <1>2, <1>3, <1>4 DEF E, old, e

(* Only a Host line has names.                                             *)
LEMMA HeaderIs ==
    ASSUME NEW lines \in Seq(Lines), NEW i \in 0..Len(lines)
    PROVE  Header(lines, i).is = "host" <=> Header(lines, i).of # {}
<1>1. /\ Block(lines, i) \in 0..i /\ i \in Nat
      /\ Block(lines, i) # 0 => lines[Block(lines, i)].is = "host"
  BY BlockIs
<1>2. Block(lines, i) # 0 => lines[Block(lines, i)] \in Lines
  BY <1>1
<1>. QED  BY <1>1, <1>2, LineFacts DEF Header, Heading, Block

(* The entries, line by line.                                              *)
LEMMA ShownNext ==
    ASSUME NEW lines, NEW i \in Nat
    PROVE  Shown(lines, i + 1) =
               Shown(lines, i) \cup
                   (IF lines[i + 1].is = "fly" /\ Header(lines, i + 1).is = "host"
                    THEN {[host |-> Header(lines, i + 1).of, to |-> lines[i + 1].of]} ELSE {})
<1>. DEFINE At(n) == {k \in 1..n : lines[k].is = "fly" /\ Header(lines, k).is = "host"}
            e(k) == [host |-> Header(lines, k).of, to |-> lines[k].of]
<1>1. 1..(i + 1) = 1..i \cup {i + 1}
  OBVIOUS
<1>2. At(i + 1) = At(i) \cup (IF lines[i + 1].is = "fly" /\ Header(lines, i + 1).is = "host"
                              THEN {i + 1} ELSE {})
  BY <1>1
<1>3. Shown(lines, i + 1) = {e(k) : k \in At(i + 1)} /\ Shown(lines, i) = {e(k) : k \in At(i)}
  BY DEF Shown
<1>. HIDE DEF At, e
<1>4. Shown(lines, i + 1) =
          Shown(lines, i) \cup
              (IF lines[i + 1].is = "fly" /\ Header(lines, i + 1).is = "host"
               THEN {e(i + 1)} ELSE {})
  BY <1>2, <1>3
<1>. QED  BY <1>4 DEF e

(* In a plain file, a route is in the section of its block's Host line.    *)
LEMMA FlySection ==
    ASSUME NEW lines \in Seq(Lines), Plain(lines), NEW i \in DOMAIN lines,
           lines[i].is = "fly"
    PROVE  Section(lines, i) = Block(lines, i)
<1>1. i \in Nat
  OBVIOUS
<1>2. Section(lines, i) # 0 => lines[Section(lines, i)].is = "host"
  BY DEF Plain
<1>. QED  BY <1>1, <1>2, SectionIs

(* The state stands for that after any number of lines, if no section has  *)
(* two ProxyCommands.                                                      *)
LEMMA ListsShow ==
    ASSUME NEW lines \in Seq(Lines), Plain(lines)
    PROVE  \A i \in 0..Len(lines) : ListsWell(lines, i)
<1>. DEFINE n == Len(lines)
            s == Lists(lines)
            S == {i \in 0..n : ListsWell(lines, i)}
<1>0. n \in Nat
  OBVIOUS
<1>1. 0 \in S
  <2>1. s[0] = List0
    BY ListsSteps
  <2>2. Header(lines, 0).of = {}
    BY HeaderNext, LineFacts
  <2>3. Shown(lines, 0) = {}
    BY DEF Shown
  <2>4. Flush(List0) = <<>> /\ List0.host = {} /\ List0.to = {}
    BY DEF Flush, List0
  <2>5. ToSet(<<>>) = {}
    BY DEF ToSet
  <2>6. ToSet(Flush(s[0])) = Shown(lines, 0)
    BY <2>1, <2>3, <2>4, <2>5
  <2>7. ListsWell(lines, 0)
    BY <2>1, <2>2, <2>4, <2>6 DEF ListsWell
  <2>. QED  BY <1>0, <2>7
<1>2. ASSUME NEW i \in 0..(n - 1), i \in S
      PROVE  i + 1 \in S
  <2>. DEFINE line == lines[i + 1]
              acc == s[i]
              new == s[i + 1]
  <2>1. i + 1 \in 1..n /\ i + 1 \in 0..n /\ i \in 0..n /\ i \in Nat /\ line \in Lines
    BY <1>0
  <2>2. acc \in Listed /\ new \in Listed /\ new = ListLine(acc, line)
    BY <2>1, ListsSteps
  <2>3. /\ Block(lines, i + 1) = IF line.is = "host" THEN i + 1 ELSE Block(lines, i)
        /\ Header(lines, i + 1) = IF line.is = "host" THEN line ELSE Header(lines, i)
    BY <2>1, BlockNext, HeaderNext
  <2>4. Shown(lines, i + 1) =
            Shown(lines, i) \cup
                (IF line.is = "fly" /\ Header(lines, i + 1).is = "host"
                 THEN {[host |-> Header(lines, i + 1).of, to |-> line.of]} ELSE {})
    BY <2>1, ShownNext
  <2>5. /\ acc.host = Header(lines, i).of
        /\ acc.to # {} => \E j \in 1..i : Block(lines, j) = Block(lines, i) /\ lines[j].is = "fly"
        /\ ToSet(Flush(acc)) = Shown(lines, i)
    BY <1>2 DEF ListsWell
  <2>6. Header(lines, i + 1).is = "host" <=> Header(lines, i + 1).of # {}
    BY <2>1, HeaderIs
  <2>7. line.is = "fly" => line.of # {}
    <3>1. \A id : Fly(id).of # {}
      BY DEF Fly
    <3>2. line.is = "fly" => \E id \in Ids : line = Fly(id)
      BY <2>1, LineFacts
    <3>. QED  BY <3>1, <3>2
  <2>. HIDE DEF line, acc, new, s, n
  <2>8. CASE line.is = "host"
    <3>1. new = [host |-> line.of, to |-> {}, entries |-> Flush(acc)]
      BY <2>2, <2>8 DEF ListLine
    <3>2. Flush(new) = Flush(acc)
      BY <3>1 DEF Flush
    <3>3. Shown(lines, i + 1) = Shown(lines, i)
      BY <2>4, <2>8
    <3>4. new.host = line.of /\ new.to = {} /\ Header(lines, i + 1) = line
      BY <2>3, <2>8, <3>1
    <3>5. ListsWell(lines, i + 1)
      BY <2>5, <3>2, <3>3, <3>4 DEF ListsWell, new, s
    <3>. QED  BY <2>1, <3>5
  <2>9. CASE line.is = "fly"
    <3>1. new.host = acc.host /\ new.to = line.of /\ new.entries = acc.entries
      BY <2>2, <2>9 DEF ListLine, Listed
    <3>2. acc.to = {}
      <4>. SUFFICES ASSUME NEW j \in 1..i, Block(lines, j) = Block(lines, i), lines[j].is = "fly"
                    PROVE  FALSE
        BY <2>5
      <4>1. j \in DOMAIN lines /\ i + 1 \in DOMAIN lines /\ j # i + 1
        BY <2>1 DEF n
      <4>2. Block(lines, j) = Block(lines, i + 1)
        BY <2>3, <2>9
      <4>3. lines[j].is = "fly" /\ lines[i + 1].is = "fly"
        BY <2>9 DEF line
      <4>4. Section(lines, j) = Block(lines, j) /\ Section(lines, i + 1) = Block(lines, i + 1)
        BY <4>1, <4>3, FlySection
      <4>5. {lines[j].is, lines[i + 1].is} \subseteq Proxies
        BY <4>3 DEF Proxies, Runners
      <4>6. Section(lines, j) = Section(lines, i + 1)
        BY <4>2, <4>4
      <4>. QED  BY <4>1, <4>5, <4>6 DEF Plain
    <3>3. ToSet(acc.entries) = Shown(lines, i)
      BY <2>2, <2>5, <3>2, FlushIs
    <3>4. Header(lines, i + 1) = Header(lines, i) /\ Block(lines, i + 1) = Block(lines, i)
      BY <2>3, <2>9
    <3>5. ToSet(Flush(new)) = Shown(lines, i + 1)
      <4>1. CASE new.host = {}
        BY <2>2, <2>4, <2>5, <2>6, <3>1, <3>3, <3>4, <4>1, FlushIs
      <4>2. CASE new.host # {}
        <5>1. ToSet(Flush(new)) = ToSet(new.entries) \cup {[host |-> new.host, to |-> new.to]}
          BY <2>2, <2>7, <2>9, <3>1, <4>2, FlushIs
        <5>. QED  BY <2>4, <2>5, <2>6, <2>9, <3>1, <3>3, <3>4, <4>2, <5>1
      <4>. QED  BY <4>1, <4>2
    <3>6. \E j \in 1..(i + 1) : Block(lines, j) = Block(lines, i + 1) /\ lines[j].is = "fly"
      BY <2>1, <2>9 DEF line
    <3>7. ListsWell(lines, i + 1)
      BY <2>5, <3>1, <3>4, <3>5, <3>6 DEF ListsWell, new, s
    <3>. QED  BY <2>1, <3>7
  <2>10. CASE line.is \notin {"host", "fly"}
    <3>1. new = acc
      BY <2>2, <2>10 DEF ListLine
    <3>2. /\ Shown(lines, i + 1) = Shown(lines, i)
          /\ Header(lines, i + 1) = Header(lines, i) /\ Block(lines, i + 1) = Block(lines, i)
      BY <2>3, <2>4, <2>10
    <3>3. acc.to # {} => \E j \in 1..(i + 1) :
              Block(lines, j) = Block(lines, i + 1) /\ lines[j].is = "fly"
      BY <2>1, <2>5, <3>2
    <3>4. ListsWell(lines, i + 1)
      BY <2>5, <3>1, <3>2, <3>3 DEF ListsWell, new, s
    <3>. QED  BY <2>1, <3>4
  <2>. QED  BY <2>8, <2>9, <2>10
<1>. HIDE DEF S, n
<1>3. \A i \in 0..n : i \in S
  BY <1>0, <1>1, <1>2, UpTo
<1>. QED  BY <1>3 DEF S, n

(* The first ProxyCommand that applies is the route, if there is one.      *)
LEMMA RouteIs ==
    ASSUME NEW lines \in Seq(Lines), NEW name, Routing(lines, name) # {}
    PROVE  \E i \in Routing(lines, name) :
               /\ \A j \in Routing(lines, name) : i <= j
               /\ Route(lines, name) = lines[i]
<1>. DEFINE is == Routing(lines, name)
<1>1. is \subseteq Nat
  BY DEF Routing
<1>2. Route(lines, name) = lines[CHOOSE i \in is : \A j \in is : i <= j]
  BY DEF Route
<1>. HIDE DEF is
<1>3. is # {}
  BY DEF is
<1>4. \E i \in is : \A j \in is : i <= j
  BY <1>1, <1>3, Least
<1>. QED  BY <1>2, <1>4 DEF is

(* What is listed for a name is where ssh goes for it, unless a            *)
(* ProxyCommand of another section comes first.                            *)
LEMMA ListTells ==
    ASSUME NEW lines \in Seq(Lines), Plain(lines), NEW name \in Names, NEW id \in Ids,
           OwnFirst(lines, name)
    PROVE  [host |-> {name}, to |-> {id}] \in ListTunnelHosts(lines)
               <=> Route(lines, name) = Fly(id)
<1>. DEFINE n == Len(lines)
            Own(i) == lines[i] = Fly(id) /\ Under(lines, i, name)
<1>1. n \in Nat /\ n \in 0..n /\ DOMAIN lines = 1..n
  OBVIOUS
<1>2. ListTunnelHosts(lines) = Shown(lines, n)
  BY <1>1, ListsShow DEF ListTunnelHosts, ListsWell
<1>. HIDE DEF n
<1>3. ASSUME NEW i \in 1..n
      PROVE  /\ lines[i].is = "fly" /\ lines[i].of = {id} <=> lines[i] = Fly(id)
             /\ Header(lines, i).is = "host" /\ Header(lines, i).of = {name} <=>
                    Header(lines, i) = Host({name})
  <2>1. lines[i] \in Lines /\ i \in Nat
    BY <1>1
  <2>2. Block(lines, i) \in 0..i /\ (Block(lines, i) # 0 => Block(lines, i) \in DOMAIN lines)
    BY <1>1, <2>1, BlockIs
  <2>3. Block(lines, i) # 0 => lines[Block(lines, i)] \in Lines
    BY <2>2
  <2>4. lines[i].is = "fly" => \E d \in Ids : lines[i] = Fly(d)
    BY <2>1, LineFacts
  <2>5. \A d : Fly(d).is = "fly" /\ Fly(d).of = {d}
    BY DEF Fly
  <2>6. lines[i].is = "fly" /\ lines[i].of = {id} <=> lines[i] = Fly(id)
    BY <2>4, <2>5
  <2>7. Header(lines, i).is = "host" /\ Header(lines, i).of = {name} <=>
            Header(lines, i) = Host({name})
    <3>1. Blank.is # "host" /\ Host({name}).is = "host" /\ Host({name}).of = {name}
      BY DEF Blank, Host
    <3>2. Block(lines, i) # 0 /\ lines[Block(lines, i)].is = "host" =>
              lines[Block(lines, i)] = Host(lines[Block(lines, i)].of)
      BY <2>3, LineFacts
    <3>. QED  BY <3>1, <3>2 DEF Header, Heading, Block
  <2>. QED  BY <2>6, <2>7
<1>4. [host |-> {name}, to |-> {id}] \in Shown(lines, n) <=>
          \E i \in 1..n : /\ lines[i].is = "fly" /\ lines[i].of = {id}
                          /\ Header(lines, i).is = "host" /\ Header(lines, i).of = {name}
  <2>1. \A h, t, x, y : [host |-> h, to |-> t] = [host |-> x, to |-> y] <=> h = x /\ t = y
    OBVIOUS
  <2>. QED  BY <2>1 DEF Shown
<1>5. ASSUME NEW i \in 1..n, lines[i] = Fly(id)
      PROVE  Header(lines, i) = Host({name}) <=> Under(lines, i, name)
  <2>1. lines[i].is = "fly" /\ i \in Nat /\ i \in DOMAIN lines
    BY <1>1, <1>5 DEF Fly
  <2>2. Section(lines, i) = Block(lines, i)
    BY <2>1, FlySection
  <2>3. Header(lines, i) = Host({name}) => Under(lines, i, name)
    BY <2>2 DEF Header, Heading, Block, Blank, Host, Under
  <2>. QED  BY <2>1, <2>3, UnderIs
<1>6. [host |-> {name}, to |-> {id}] \in ListTunnelHosts(lines) <=> \E i \in 1..n : Own(i)
  BY <1>2, <1>3, <1>4, <1>5
<1>. HIDE DEF Own
<1>7. ASSUME NEW i \in 1..n, Own(i)
      PROVE  Route(lines, name) = Fly(id)
  <2>0. lines[i] = Fly(id) /\ Under(lines, i, name) /\ i \in DOMAIN lines
    BY <1>1, <1>7 DEF Own
  <2>1. i \in Routing(lines, name)
    BY <2>0 DEF Routing, Under, Proxies, Runners, Fly, Host
  <2>2. PICK f \in Routing(lines, name) :
            (\A j \in Routing(lines, name) : f <= j) /\ Route(lines, name) = lines[f]
    BY <2>1, RouteIs
  <2>3. f \in DOMAIN lines /\ f \in Nat /\ Routing(lines, name) \subseteq Nat
    BY <1>1 DEF Routing
  <2>4. Under(lines, f, name)
    <3>1. \A j \in Routing(lines, name) : ~(j < f)
      BY <2>2, <2>3
    <3>. QED  BY <3>1 DEF OwnFirst
  <2>5. Section(lines, f) = Section(lines, i)
    <3>1. Section(lines, f) \in 0..f /\ Section(lines, i) \in 0..i
      BY <2>0, <2>3, SectionIs
    <3>2. Section(lines, f) \in DOMAIN lines /\ Section(lines, i) \in DOMAIN lines
      BY <1>1, <2>0, <2>3, <2>4, <3>1 DEF Under
    <3>3. /\ lines[Section(lines, f)] = lines[Section(lines, i)]
          /\ lines[Section(lines, f)].is = "host"
      BY <2>0, <2>4 DEF Under, Host
    <3>. QED  BY <3>2, <3>3 DEF Plain
  <2>6. {lines[f].is, lines[i].is} \subseteq Proxies
    BY <2>1 DEF Routing
  <2>7. f = i
    BY <2>0, <2>3, <2>5, <2>6 DEF Plain
  <2>. QED  BY <2>0, <2>2, <2>7
<1>8. ASSUME Route(lines, name) = Fly(id)
      PROVE  \E i \in 1..n : Own(i)
  <2>1. Routing(lines, name) # {}
    BY <1>8 DEF Route, Option, Fly
  <2>2. PICK f \in Routing(lines, name) :
            (\A j \in Routing(lines, name) : f <= j) /\ Route(lines, name) = lines[f]
    BY <2>1, RouteIs
  <2>3. f \in 1..n /\ Routing(lines, name) \subseteq Nat
    BY <1>1 DEF Routing
  <2>4. Under(lines, f, name)
    <3>1. \A j \in Routing(lines, name) : ~(j < f)
      BY <2>2, <2>3
    <3>. QED  BY <3>1 DEF OwnFirst
  <2>. QED  BY <1>8, <2>2, <2>3, <2>4 DEF Own
<1>. QED  BY <1>6, <1>7, <1>8
=============================================================================
