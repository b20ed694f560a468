---------------------------- MODULE HelperProofs ----------------------------
(***************************************************************************)
(* Theorems about the helpers of kindlebt_utils.c and kindlebt_log.c, for  *)
(* inputs of any length: what Conversions and LogBuffer have TLC look at   *)
(* for short ones.                                                         *)
(***************************************************************************)
EXTENDS Conversions, LogBuffer, SequenceTheorems, FiniteSetTheorems, TLAPS

(* A set of numbers has a least one.                                       *)
LEMMA LeastOf ==
  ASSUME NEW I \in SUBSET Nat, I # {}
  PROVE  \E i \in I : \A j \in I : i <= j
  <1> DEFINE Below == {1 .. i : i \in I}
  <1>1. \A i \in I : IsFiniteSet(1 .. i) /\ 1 .. i \in SUBSET Nat
    BY FS_Interval
  <1>2. Below \subseteq FiniteSubsetsOf(Nat) /\ Below # {}
    BY <1>1 DEF FiniteSubsetsOf
  <1> HIDE DEF Below
  <1>3. PICK K \in Below : \A L \in Below : ~ (<<L, K>> \in StrictSubsetOrdering(Nat))
    BY <1>2, FS_StrictSubsetOrderingWellFounded, WFMin
  <1>4. PICK i \in I : K = 1 .. i
    BY <1>3 DEF Below
  <1>5. ASSUME NEW j \in I, j < i PROVE FALSE
    <2>1. 1 .. j \in Below /\ 1 .. j \subseteq 1 .. i /\ 1 .. j # 1 .. i /\ 1 .. i \in SUBSET Nat
      BY <1>5 DEF Below
    <2> QED
      BY <2>1, <1>3, <1>4 DEF StrictSubsetOrdering
  <1> QED
    BY <1>5

(* A set of indices has a greatest one, which Max finds.                   *)
LEMMA MaxOf ==
  ASSUME NEW n \in Nat, NEW s \in SUBSET (1 .. n), s # {}
  PROVE  Max(s) \in s /\ \A i \in s : i <= Max(s)
  <1> DEFINE I == {n - i : i \in s}
  <1>1. I \in SUBSET Nat /\ I # {}
    OBVIOUS
  <1>2. PICK d \in I : \A e \in I : d <= e
    <2> HIDE DEF I
    <2> QED
      BY <1>1, LeastOf
  <1>3. PICK m \in s : d = n - m
    BY <1>2
  <1>4. ASSUME NEW i \in s PROVE m >= i
    <2>1. n - i \in I
      OBVIOUS
    <2>2. n - m <= n - i
      BY <1>2, <1>3, <2>1
    <2> QED
      BY <2>2
  <1> QED
    BY <1>3, <1>4 DEF Max

(* The greatest of 1 .. k is k, and the others are 1 .. k - 1.             *)
LEMMA MaxOfPrefix ==
  ASSUME NEW n \in Nat, NEW k \in 1 .. n
  PROVE  /\ 1 .. k \in SUBSET (1 .. n) /\ 1 .. k # {} /\ 1 .. k - 1 \in SUBSET (1 .. n)
         /\ Max(1 .. k) = k
         /\ (1 .. k) \ {Max(1 .. k)} = 1 .. k - 1
  <1>1. 1 .. k \in SUBSET (1 .. n) /\ 1 .. k # {}
    OBVIOUS
  <1>2. Max(1 .. k) \in 1 .. k /\ k <= Max(1 .. k)
    <2>1. PICK s : s = 1 .. k
      OBVIOUS
    <2>2. s \in SUBSET (1 .. n) /\ s # {} /\ k \in s
      BY <1>1, <2>1
    <2>3. Max(s) \in s /\ k <= Max(s)
      BY <2>2, MaxOf
    <2> QED
      BY <2>1, <2>3
  <1> QED
    BY <1>1, <1>2
----------------------------------------------------------------------------
(* The folds of the community modules: iter, the function that they define *)
(* by recursion over sets of indices, exists; and what holds at the start  *)
(* and is carried from each index to the next holds of the result. That is *)
(* induction, with a function and sets where an operator and a predicate   *)
(* would stand.                                                            *)

\* iter of a fold over n indices, whose operator is the function step.
IsIter(f, base, step, n) ==
  f = [s \in SUBSET (1 .. n) |->
         IF s = {} THEN base ELSE step[<<f[s \ {Max(s)}], Max(s)>>]]

(* A fold over indices is a function on the sets of them: there is one.    *)
LEMMA FoldExists ==
  ASSUME NEW V, NEW base \in V, NEW n \in Nat, NEW step \in [V \X (1 .. n) -> V]
  PROVE  \E f \in [SUBSET (1 .. n) -> V] : IsIter(f, base, step, n)
  <1> DEFINE Bad == {m \in 0 .. n : ~ \E f \in [SUBSET (1 .. m) -> V] : IsIter(f, base, step, m)}
  <1>1. SUFFICES ASSUME Bad # {} PROVE FALSE
    BY n \in 0 .. n
  <1>2. PICK m \in Bad : \A j \in Bad : m <= j
    <2>1. Bad \in SUBSET Nat
      OBVIOUS
    <2> HIDE DEF Bad
    <2> QED
      BY <1>1, <2>1, LeastOf
  <1>3. m # 0
    <2> SUFFICES ASSUME m = 0 PROVE FALSE
      OBVIOUS
    <2> DEFINE f == [s \in SUBSET (1 .. m) |-> base]
    <2>1. \A s \in SUBSET (1 .. m) : s = {}
      OBVIOUS
    <2>2. f \in [SUBSET (1 .. m) -> V] /\ IsIter(f, base, step, m)
      BY <2>1 DEF IsIter
    <2> QED
      BY <1>2, <2>2
  <1>4. m \in 1 .. n /\ m - 1 \in 0 .. n /\ m - 1 \notin Bad
    <2>1. m \in 0 .. n
      BY <1>2
    <2>2. m \in 1 .. n /\ m - 1 \in 0 .. n /\ ~ m <= m - 1
      BY <1>3, <2>1
    <2> HIDE DEF Bad
    <2> QED
      BY <1>2, <2>2
  <1>5. PICK f \in [SUBSET (1 .. m - 1) -> V] : IsIter(f, base, step, m - 1)
    BY <1>4
  <1> DEFINE g == [s \in SUBSET (1 .. m) |->
                     IF m \in s THEN step[<<f[s \ {m}], m>>] ELSE f[s]]
  <1>6. \A s \in SUBSET (1 .. m) : /\ s \ {m} \in SUBSET (1 .. m - 1)
                                   /\ m \notin s => s \in SUBSET (1 .. m - 1)
    BY <1>4
  <1>7. g \in [SUBSET (1 .. m) -> V]
    <2>1. ASSUME NEW s \in SUBSET (1 .. m) PROVE g[s] \in V
      <3>1. f[s \ {m}] \in V /\ (m \notin s => f[s] \in V)
        BY <1>5, <1>6
      <3> QED
        BY <1>4, <3>1
    <2> QED
      BY <2>1
  <1>8. ASSUME NEW s \in SUBSET (1 .. m)
        PROVE  g[s] = IF s = {} THEN base ELSE step[<<g[s \ {Max(s)}], Max(s)>>]
    <2>1. CASE s = {}
      BY <1>4, <1>5, <2>1 DEF IsIter
    <2>2. CASE m \in s
      <3>1. Max(s) = m
        <4>1. m \in Nat /\ s # {}
          BY <1>4, <2>2
        <4>2. Max(s) \in s /\ m <= Max(s)
          BY <2>2, <4>1, MaxOf
        <4>3. Max(s) \in 1 .. m
          BY <4>2
        <4> QED
          BY <4>1, <4>2, <4>3
      <3>2. s \ {m} \in SUBSET (1 .. m) /\ m \notin s \ {m}
        OBVIOUS
      <3>3. g[s \ {m}] = f[s \ {m}]
        BY <3>2
      <3> QED
        BY <2>2, <3>1, <3>3
    <2>3. CASE s # {} /\ m \notin s
      <3>1. Max(s) \in s
        <4>1. m \in Nat /\ s # {}
          BY <1>4, <2>3
        <4> QED
          BY <4>1, MaxOf
      <3>2. s \ {Max(s)} \in SUBSET (1 .. m) /\ m \notin s \ {Max(s)}
        BY <2>3
      <3>3. g[s] = f[s] /\ g[s \ {Max(s)}] = f[s \ {Max(s)}]
        BY <2>3, <3>2
      <3>4. f[s] = step[<<f[s \ {Max(s)}], Max(s)>>]
        BY <1>5, <1>6, <2>3 DEF IsIter
      <3> QED
        BY <2>3, <3>3, <3>4
    <2> QED
      BY <2>1, <2>2, <2>3
  <1>9. IsIter(g, base, step, m)
    BY <1>8 DEF IsIter
  <1> QED
    BY <1>2, <1>7, <1>9

\* What iter is to start from and how it goes on, along 1, 2, ...
Follows(f, base, step, n) ==
  /\ f[{}] = base
  /\ \A k \in 1 .. n : f[1 .. k] = step[<<f[1 .. k - 1], k>>]

(* It goes from index to index.                                            *)
LEMMA IterFollows ==
  ASSUME NEW f, NEW base, NEW n \in Nat, NEW step, IsIter(f, base, step, n)
  PROVE  Follows(f, base, step, n)
  <1>1. f[{}] = base
    BY DEF IsIter
  <1>2. ASSUME NEW k \in 1 .. n PROVE f[1 .. k] = step[<<f[1 .. k - 1], k>>]
    <2>1. PICK s : s = 1 .. k
      OBVIOUS
    <2>2. s \in SUBSET (1 .. n) /\ s # {} /\ Max(s) = k /\ s \ {Max(s)} = 1 .. k - 1
      BY <2>1, MaxOfPrefix
    <2>3. f[s] = step[<<f[s \ {Max(s)}], Max(s)>>]
      BY <2>2 DEF IsIter
    <2> QED
      BY <2>1, <2>2, <2>3
  <1> QED
    BY <1>1, <1>2 DEF Follows

\* J[k] is a set that the fold over k indices is in.
LEMMA FoldInduction ==
  ASSUME NEW n \in Nat, NEW f, NEW J,
         f[{}] \in J[0],
         \A k \in 1 .. n : f[1 .. k - 1] \in J[k - 1] => f[1 .. k] \in J[k]
  PROVE  f[1 .. n] \in J[n]
  <1> DEFINE Bad == {k \in 0 .. n : f[1 .. k] \notin J[k]}
  <1>1. SUFFICES ASSUME Bad # {} PROVE FALSE
    BY n \in 0 .. n
  <1>2. PICK k \in Bad : \A j \in Bad : k <= j
    <2>1. Bad \in SUBSET Nat
      OBVIOUS
    <2> HIDE DEF Bad
    <2> QED
      BY <1>1, <2>1, LeastOf
  <1>3. k # 0
    BY 1 .. 0 = {}
  <1>4. k \in 1 .. n /\ k - 1 \in 0 .. n /\ k - 1 \notin Bad
    BY <1>2, <1>3
  <1> QED
    BY <1>2, <1>4
----------------------------------------------------------------------------
(* The buffer of a dump                                                    *)

Buffer == [ptr : {"valid", "lost", "crashed"}, size : Int, offset : Int, text : Int]

\* What append_to_buffer makes of a buffer when nothing goes wrong.
Written(b, needed) ==
  LET size == Grown(b, needed)
      copied == Smaller(Smaller(needed, Temporary - 1), size - b.offset - 1)
  IN [ptr |-> "valid", size |-> size, offset |-> NextOffset(b, needed),
      text |-> IF b.text = b.offset THEN b.offset + copied ELSE b.text]

(* The buffer grows beyond what is to be written.                          *)
LEMMA GrownEnough ==
  ASSUME NEW b \in Buffer, NEW needed \in Nat
  PROVE  Grown(b, needed) \in Int /\ (b.offset >= 0 => b.offset + needed < Grown(b, needed))
  <1>1. b.offset \in Int /\ b.size \in Int
    BY DEF Buffer
  <1> QED
    BY <1>1 DEF Grown, IsFull

(* What a write makes of the fields of a buffer.                           *)
LEMMA WrittenFields ==
  ASSUME NEW b \in Buffer, NEW needed \in Nat
  PROVE  /\ Written(b, needed) \in Buffer
         /\ Written(b, needed).ptr = "valid"
         /\ Written(b, needed).size = Grown(b, needed)
         /\ Written(b, needed).offset = b.offset + needed
         /\ b.text # b.offset => Written(b, needed).text = b.text
         /\ b.text = b.offset /\ b.offset >= 0 =>
              /\ Written(b, needed).text \in b.offset .. b.offset + needed
              /\ needed < Temporary => Written(b, needed).text = b.offset + needed
  <1> DEFINE size == Grown(b, needed)
             copied == Smaller(Smaller(needed, Temporary - 1), size - b.offset - 1)
             text == IF b.text = b.offset THEN b.offset + copied ELSE b.text
             w == Written(b, needed)
  <1>1. b.offset \in Int /\ b.size \in Int /\ b.text \in Int
    BY DEF Buffer
  <1>2. size \in Int /\ (b.offset >= 0 => b.offset + needed < size)
    BY GrownEnough
  <1>3. copied \in Int
    <2> HIDE DEF size
    <2> QED
      BY <1>1, <1>2 DEF Smaller, Temporary
  <1>4. b.offset >= 0 => copied \in 0 .. needed /\ (needed < Temporary => copied = needed)
    <2> HIDE DEF size
    <2> QED
      BY <1>1, <1>2 DEF Smaller, Temporary
  <1>5. w.ptr = "valid" /\ w.size = size /\ w.offset = NextOffset(b, needed) /\ w.text = text
    BY DEF Written
  <1>6. w = [ptr |-> "valid", size |-> size, offset |-> NextOffset(b, needed), text |-> text]
    BY DEF Written
  <1> HIDE DEF size, copied, w
  <1>7. text \in Int
    BY <1>1, <1>3
  <1>8. NextOffset(b, needed) = b.offset + needed /\ NextOffset(b, needed) \in Int
    BY <1>1 DEF NextOffset
  <1>9. w \in Buffer
    <2> HIDE DEF text
    <2> QED
      BY <1>2, <1>6, <1>7, <1>8 DEF Buffer
  <1>10. b.text # b.offset => w.text = b.text
    BY <1>5
  <1>11. b.text = b.offset /\ b.offset >= 0 =>
           w.text \in b.offset .. b.offset + needed /\ (needed < Temporary => w.text = b.offset + needed)
    <2>1. text \in Int
      BY <1>7
    <2>2. b.text = b.offset /\ b.offset >= 0 =>
            text \in b.offset .. b.offset + needed /\ (needed < Temporary => text = b.offset + needed)
      BY <1>1, <1>3, <1>4
    <2>3. w.text = text
      BY <1>5
    <2> HIDE DEF text
    <2> QED
      BY <2>2, <2>3
  <1>12. w.size = Grown(b, needed)
    BY <1>5 DEF size
  <1> QED
    BY <1>5, <1>8, <1>9, <1>10, <1>11, <1>12 DEF w

(* The ways of append_to_buffer.                                           *)
LEMMA AppendCases ==
  ASSUME NEW b \in Buffer, NEW needed \in Nat, NEW memory \in BOOLEAN
  PROVE  LET c == append_to_buffer(b, needed, memory)
         IN \/ c = Written(b, needed) /\ (b.ptr = "valid" \/ memory)
            \/ c \in Buffer /\ c.ptr = "lost" /\ c.offset = b.offset /\ c.text = b.text /\ ~memory
            \/ c \in Buffer /\ c.ptr = "crashed" /\ c.offset = b.offset /\ c.text = b.text
                 /\ b.ptr # "valid"
  <1> DEFINE size == Grown(b, needed)
             c == append_to_buffer(b, needed, memory)
  <1>1. size \in Int
    BY GrownEnough
  <1>2. c = CASE b.ptr = "crashed" -> b
              [] b.ptr # "crashed" /\ size # b.size /\ ~memory -> [b EXCEPT !.ptr = "lost", !.size = size]
              [] b.ptr = "lost" /\ size = b.size -> [b EXCEPT !.ptr = "crashed"]
              [] OTHER -> Written(b, needed)
    BY DEF append_to_buffer, Written
  <1> HIDE DEF size, c
  <1>3. CASE b.ptr = "crashed"
    <2>1. c = b
      BY <1>2, <1>3
    <2> QED
      BY <1>3, <2>1 DEF c
  <1>4. CASE b.ptr # "crashed" /\ size # b.size /\ ~memory
    <2>1. c = [b EXCEPT !.ptr = "lost", !.size = size]
      BY <1>2, <1>4
    <2> QED
      BY <1>1, <1>4, <2>1 DEF Buffer, c
  <1>5. CASE b.ptr = "lost" /\ size = b.size
    <2>1. c = [b EXCEPT !.ptr = "crashed"]
      BY <1>2, <1>5
    <2> QED
      BY <1>5, <2>1 DEF Buffer, c
  <1>6. CASE b.ptr # "crashed" /\ ~(size # b.size /\ ~memory) /\ ~(b.ptr = "lost" /\ size = b.size)
    <2>1. c = Written(b, needed)
      BY <1>2, <1>6
    <2>2. b.ptr = "valid" \/ memory
      BY <1>6 DEF Buffer
    <2> QED
      BY <2>1, <2>2 DEF c
  <1> QED
    BY <1>3, <1>4, <1>5, <1>6

(* Appended goes from line to line.                                        *)
LEMMA AppendedUnfolds ==
  ASSUME NEW b \in Buffer, NEW lines \in Seq(Nat), NEW memory \in BOOLEAN
  PROVE  \E f : /\ f[{}] = b
                /\ \A k \in 1 .. Len(lines) :
                     f[1 .. k] = append_to_buffer(f[1 .. k - 1], lines[k], memory)
                /\ Appended(b, lines, memory) = f[1 .. Len(lines)]
  <1> DEFINE n == Len(lines)
             Iter(f) == [s \in SUBSET (1 .. n) |->
                           IF s = {} THEN b
                           ELSE append_to_buffer(f[s \ {Max(s)}], lines[Max(s)], memory)]
  <1>1. n \in Nat /\ DOMAIN lines = 1 .. n /\ \A k \in 1 .. n : lines[k] \in Nat
    BY LenProperties, ElementOfSeq
  <1>2. Appended(b, lines, memory) = (CHOOSE f : f = Iter(f))[1 .. n]
    BY <1>1 DEF Appended, FoldLeft, MapThenFoldSet
  <1>3. \E f : f = Iter(f)
    <2> DEFINE step == [p \in Buffer \X (1 .. n) |-> append_to_buffer(p[1], lines[p[2]], memory)]
    <2>1. ASSUME NEW c \in Buffer, NEW k \in 1 .. n
          PROVE  append_to_buffer(c, lines[k], memory) \in Buffer
      BY <1>1, AppendCases, WrittenFields
    <2>2. step \in [Buffer \X (1 .. n) -> Buffer]
      BY <2>1
    <2>3. PICK f \in [SUBSET (1 .. n) -> Buffer] : IsIter(f, b, step, n)
      <3> HIDE DEF step, n
      <3> QED
        BY <1>1, <2>2, FoldExists
    <2>4. ASSUME NEW s \in SUBSET (1 .. n), s # {}
          PROVE  step[<<f[s \ {Max(s)}], Max(s)>>]
                   = append_to_buffer(f[s \ {Max(s)}], lines[Max(s)], memory)
      <3>1. Max(s) \in s /\ s \ {Max(s)} \in SUBSET (1 .. n)
        BY <1>1, <2>4, MaxOf
      <3>2. f[s \ {Max(s)}] \in Buffer
        BY <3>1
      <3> QED
        BY <3>1, <3>2
    <2>5. f = Iter(f)
      <3> HIDE DEF step
      <3> QED
        BY <2>3, <2>4 DEF IsIter
    <2> QED
      BY <2>5
  <1>4. PICK f : f = Iter(f) /\ Appended(b, lines, memory) = f[1 .. n]
    <2> HIDE DEF Iter, n
    <2> QED
      BY <1>2, <1>3
  <1>5. f[{}] = b
    BY <1>4
  <1>6. ASSUME NEW k \in 1 .. n
        PROVE  f[1 .. k] = append_to_buffer(f[1 .. k - 1], lines[k], memory)
    <2>1. PICK s : s = 1 .. k
      OBVIOUS
    <2>2. s \in SUBSET (1 .. n) /\ s # {} /\ Max(s) = k /\ s \ {Max(s)} = 1 .. k - 1
      BY <1>1, <2>1, MaxOfPrefix
    <2>3. f[s] = append_to_buffer(f[s \ {Max(s)}], lines[Max(s)], memory)
      BY <1>4, <2>2
    <2> QED
      BY <2>1, <2>2, <2>3
  <1> QED
    BY <1>4, <1>5, <1>6

(* So does Total.                                                          *)
LEMMA TotalUnfolds ==
  ASSUME NEW lines \in Seq(Nat)
  PROVE  \E f : /\ f[{}] = 0
                /\ \A k \in 1 .. Len(lines) : f[1 .. k] = f[1 .. k - 1] + lines[k]
                /\ Total(lines) = f[1 .. Len(lines)]
  <1> DEFINE n == Len(lines)
             Iter(f) == [s \in SUBSET (1 .. n) |->
                           IF s = {} THEN 0 ELSE f[s \ {Max(s)}] + lines[Max(s)]]
  <1>1. n \in Nat /\ DOMAIN lines = 1 .. n /\ \A k \in 1 .. n : lines[k] \in Nat
    BY LenProperties, ElementOfSeq
  <1>2. Total(lines) = (CHOOSE f : f = Iter(f))[1 .. n]
    BY <1>1 DEF Total, FoldLeft, MapThenFoldSet
  <1>3. \E f : f = Iter(f)
    <2> DEFINE step == [p \in Nat \X (1 .. n) |-> p[1] + lines[p[2]]]
    <2>1. ASSUME NEW c \in Nat, NEW k \in 1 .. n PROVE c + lines[k] \in Nat
      BY <1>1
    <2>2. step \in [Nat \X (1 .. n) -> Nat]
      BY <2>1
    <2>3. PICK f \in [SUBSET (1 .. n) -> Nat] : IsIter(f, 0, step, n)
      <3> HIDE DEF step, n
      <3> QED
        BY <1>1, <2>2, FoldExists, 0 \in Nat
    <2>4. ASSUME NEW s \in SUBSET (1 .. n), s # {}
          PROVE  step[<<f[s \ {Max(s)}], Max(s)>>] = f[s \ {Max(s)}] + lines[Max(s)]
      <3>1. Max(s) \in s /\ s \ {Max(s)} \in SUBSET (1 .. n)
        BY <1>1, <2>4, MaxOf
      <3>2. f[s \ {Max(s)}] \in Nat
        BY <3>1
      <3> QED
        BY <3>1, <3>2
    <2>5. f = Iter(f)
      <3> HIDE DEF step
      <3> QED
        BY <2>3, <2>4 DEF IsIter
    <2> QED
      BY <2>5
  <1>4. PICK f : f = Iter(f) /\ Total(lines) = f[1 .. n]
    <2> HIDE DEF Iter, n
    <2> QED
      BY <1>2, <1>3
  <1>5. f[{}] = 0
    BY <1>4
  <1>6. ASSUME NEW k \in 1 .. n PROVE f[1 .. k] = f[1 .. k - 1] + lines[k]
    <2>1. PICK s : s = 1 .. k
      OBVIOUS
    <2>2. s \in SUBSET (1 .. n) /\ s # {} /\ Max(s) = k /\ s \ {Max(s)} = 1 .. k - 1
      BY <1>1, <2>1, MaxOfPrefix
    <2>3. f[s] = f[s \ {Max(s)}] + lines[Max(s)]
      BY <1>4, <2>2
    <2> QED
      BY <2>1, <2>2, <2>3
  <1> QED
    BY <1>4, <1>5, <1>6

\* Whatever was cut off, the offset is inside, and only want of memory makes
\* a difference.
Sound(memory) ==
  {b \in Buffer :
     /\ 0 <= b.offset /\ b.text <= b.offset
     /\ b.ptr = "valid" => b.offset < b.size
     /\ b.ptr # "valid" => ~memory}

\* Nothing was cut off: t characters can be read.
Whole(t) == {b \in Buffer : b.ptr = "valid" /\ b.text = t /\ b.offset = t /\ b.offset < b.size}

(* Appending keeps offset and text in the buffer, or crashes for want of memory.*)
LEMMA AppendSound ==
  ASSUME NEW memory \in BOOLEAN, NEW b \in Sound(memory), NEW needed \in Nat
  PROVE  append_to_buffer(b, needed, memory) \in Sound(memory)
  <1> DEFINE c == append_to_buffer(b, needed, memory)
  <1>1. b \in Buffer /\ b.offset \in Nat /\ b.text \in Int /\ b.text <= b.offset
    BY DEF Sound, Buffer
  <1>2. CASE c = Written(b, needed) /\ (b.ptr = "valid" \/ memory)
    <2>1. c.ptr = "valid" /\ c \in Buffer
      BY <1>1, <1>2, WrittenFields
    <2>2. c.offset = b.offset + needed /\ c.offset < c.size
      <3>1. Written(b, needed).offset = b.offset + needed /\ Written(b, needed).size = Grown(b, needed)
        BY <1>1, WrittenFields
      <3>2. b.offset + needed < Grown(b, needed)
        BY <1>1, GrownEnough
      <3>3. c = Written(b, needed)
        BY <1>2
      <3> HIDE DEF c
      <3> QED
        BY <3>1, <3>2, <3>3
    <2>3. c.text <= c.offset
      <3>1. CASE b.text = b.offset
        <4>1. c.text \in b.offset .. b.offset + needed
          BY <1>1, <1>2, <3>1, WrittenFields
        <4> QED
          BY <1>1, <2>2, <4>1
      <3>2. CASE b.text # b.offset
        <4>1. c.text = b.text
          BY <1>1, <1>2, <3>2, WrittenFields
        <4> QED
          BY <1>1, <2>2, <4>1
      <3> QED
        BY <3>1, <3>2
    <2>4. 0 <= c.offset
      BY <1>1, <2>2
    <2> HIDE DEF c
    <2> QED
      BY <2>1, <2>2, <2>3, <2>4 DEF Sound, c
  <1>3. CASE c \in Buffer /\ c.ptr = "lost" /\ c.offset = b.offset /\ c.text = b.text /\ ~memory
    BY <1>3 DEF Sound
  <1>4. CASE c \in Buffer /\ c.ptr = "crashed" /\ c.offset = b.offset /\ c.text = b.text
               /\ b.ptr # "valid"
    BY <1>4 DEF Sound
  <1> QED
    BY <1>1, <1>2, <1>3, <1>4, AppendCases

(* Appending a line that fits into temp adds the whole of it.              *)
LEMMA AppendWhole ==
  ASSUME NEW t \in Nat, NEW b \in Whole(t), NEW needed \in 0 .. Temporary - 1
  PROVE  append_to_buffer(b, needed, TRUE) \in Whole(t + needed)
  <1> DEFINE c == append_to_buffer(b, needed, TRUE)
  <1>1. needed \in Nat /\ needed < Temporary
    BY DEF Temporary
  <1>2. b \in Buffer /\ b.ptr = "valid" /\ b.text = t /\ b.offset = t
    BY DEF Whole
  <1>3. c = Written(b, needed)
    BY <1>1, <1>2, AppendCases
  <1>4. /\ Written(b, needed) \in Buffer /\ Written(b, needed).ptr = "valid"
        /\ Written(b, needed).offset = b.offset + needed
        /\ Written(b, needed).size = Grown(b, needed)
    BY <1>1, <1>2, WrittenFields
  <1>5. Written(b, needed).text = b.offset + needed
    <2>1. b.text = b.offset /\ b.offset >= 0
      BY <1>2
    <2> QED
      BY <1>1, <1>2, <2>1, WrittenFields
  <1>6. b.offset + needed < Grown(b, needed)
    <2>1. b.offset >= 0
      BY <1>2
    <2> QED
      BY <1>1, <1>2, <2>1, GrownEnough
  <1> HIDE DEF c
  <1> QED
    BY <1>2, <1>3, <1>4, <1>5, <1>6 DEF Whole, c

(* A new buffer is empty.                                                  *)
LEMMA NewBufferFits ==
  ASSUME NEW size \in Nat \ {0}, NEW memory \in BOOLEAN
  PROVE  NewBuffer(size) \in Sound(memory) /\ NewBuffer(size) \in Whole(0)
  <1>1. /\ NewBuffer(size) \in Buffer /\ NewBuffer(size).ptr = "valid"
        /\ NewBuffer(size).offset = 0 /\ NewBuffer(size).text = 0 /\ NewBuffer(size).size = size
    BY DEF NewBuffer, Buffer
  <1>2. 0 <= 0 /\ 0 < size
    OBVIOUS
  <1> QED
    BY <1>1, <1>2 DEF Sound, Whole

(* Any lines leave the buffer sound.                                       *)
LEMMA LinesSound ==
  ASSUME NEW memory \in BOOLEAN, NEW b \in Sound(memory), NEW lines \in Seq(Nat)
  PROVE  Appended(b, lines, memory) \in Sound(memory)
  <1>1. b \in Buffer
    BY DEF Sound
  <1>2. PICK f : /\ f[{}] = b
                 /\ \A k \in 1 .. Len(lines) :
                      f[1 .. k] = append_to_buffer(f[1 .. k - 1], lines[k], memory)
                 /\ Appended(b, lines, memory) = f[1 .. Len(lines)]
    BY <1>1, AppendedUnfolds
  <1> DEFINE n == Len(lines)
             J == [k \in 0 .. n |-> Sound(memory)]
  <1>3. n \in Nat /\ \A k \in 1 .. n : lines[k] \in Nat
    BY LenProperties, ElementOfSeq
  <1>4. f[{}] \in J[0] /\ J[n] = Sound(memory)
    BY <1>2, <1>3
  <1>5. ASSUME NEW k \in 1 .. n, f[1 .. k - 1] \in J[k - 1] PROVE f[1 .. k] \in J[k]
    <2>1. f[1 .. k - 1] \in Sound(memory)
      BY <1>3, <1>5
    <2>2. append_to_buffer(f[1 .. k - 1], lines[k], memory) \in Sound(memory)
      BY <1>3, <2>1, AppendSound
    <2> QED
      BY <1>2, <1>3, <2>2
  <1>6. f[1 .. n] \in J[n]
    <2> HIDE DEF J, n
    <2> QED
      BY <1>3, <1>4, <1>5, FoldInduction
  <1> QED
    BY <1>2, <1>4, <1>6

(* Lines that fit into tmp can all be read, if there is memory.            *)
LEMMA LinesWhole ==
  ASSUME NEW b \in Whole(0), NEW lines \in Seq(0 .. Temporary - 1)
  PROVE  Total(lines) \in Nat /\ Appended(b, lines, TRUE) \in Whole(Total(lines))
  <1>1. b \in Buffer /\ lines \in Seq(Nat)
    <2>1. 0 .. Temporary - 1 \subseteq Nat
      OBVIOUS
    <2> QED
      BY <2>1, SeqMonotonic DEF Whole
  <1>2. PICK f : /\ f[{}] = b
                 /\ \A k \in 1 .. Len(lines) :
                      f[1 .. k] = append_to_buffer(f[1 .. k - 1], lines[k], TRUE)
                 /\ Appended(b, lines, TRUE) = f[1 .. Len(lines)]
    BY <1>1, AppendedUnfolds
  <1>3. PICK g : /\ g[{}] = 0
                 /\ \A k \in 1 .. Len(lines) : g[1 .. k] = g[1 .. k - 1] + lines[k]
                 /\ Total(lines) = g[1 .. Len(lines)]
    BY <1>1, TotalUnfolds
  <1> DEFINE n == Len(lines)
             J == [k \in 0 .. n |-> IF g[1 .. k] \in Nat THEN Whole(g[1 .. k]) ELSE {}]
  <1>4. n \in Nat /\ \A k \in 1 .. n : lines[k] \in 0 .. Temporary - 1 /\ lines[k] \in Nat
    BY <1>1, LenProperties, ElementOfSeq
  <1>5. f[{}] \in J[0]
    <2>1. 1 .. 0 = {} /\ g[1 .. 0] = 0
      BY <1>3
    <2>2. J[0] = Whole(0)
      BY <1>4, <2>1
    <2> QED
      BY <1>2, <2>2
  <1>6. ASSUME NEW k \in 1 .. n, f[1 .. k - 1] \in J[k - 1] PROVE f[1 .. k] \in J[k]
    <2>1. g[1 .. k - 1] \in Nat /\ f[1 .. k - 1] \in Whole(g[1 .. k - 1])
      BY <1>4, <1>6
    <2>2. append_to_buffer(f[1 .. k - 1], lines[k], TRUE) \in Whole(g[1 .. k - 1] + lines[k])
      BY <1>4, <2>1, AppendWhole
    <2>3. f[1 .. k] \in Whole(g[1 .. k])
      BY <1>2, <1>3, <2>2
    <2>4. g[1 .. k] \in Nat
      BY <1>3, <1>4, <2>1
    <2> QED
      BY <1>4, <2>3, <2>4
  <1>7. f[1 .. n] \in J[n]
    <2> HIDE DEF J, n
    <2> QED
      BY <1>4, <1>5, <1>6, FoldInduction
  <1>8. g[1 .. n] \in Nat /\ f[1 .. n] \in Whole(g[1 .. n])
    BY <1>4, <1>7
  <1> QED
    BY <1>2, <1>3, <1>8

(* FlattenSeq puts sequences of a kind together to one of that kind.       *)
LEMMA FlattenedIn ==
  ASSUME NEW S, NEW seqs \in Seq(Seq(S))
  PROVE  FlattenSeq(seqs) \in Seq(S)
  <1> DEFINE n == Len(seqs)
             Flat(f) == [i \in 1 .. n |-> IF i = 1 THEN seqs[i] ELSE f[i - 1] \o seqs[i]]
  <1>1. n \in Nat /\ \A i \in 1 .. n : seqs[i] \in Seq(S)
    BY LenProperties, ElementOfSeq
  <1>2. CASE n = 0
    <2>1. FlattenSeq(seqs) = seqs
      BY <1>2 DEF FlattenSeq
    <2>2. seqs = <<>>
      BY <1>2, EmptySeq
    <2> QED
      BY <2>1, <2>2, EmptySeq
  <1>3. CASE n # 0
    <2>1. FlattenSeq(seqs) = (CHOOSE f : f = Flat(f))[n]
      BY <1>3 DEF FlattenSeq
    <2>2. \E f : f = Flat(f)
      <3> DEFINE step == [p \in Seq(S) \X (1 .. n) |-> p[1] \o seqs[p[2]]]
      <3>1. step \in [Seq(S) \X (1 .. n) -> Seq(S)]
        <4>1. ASSUME NEW c \in Seq(S), NEW k \in 1 .. n PROVE c \o seqs[k] \in Seq(S)
          BY <1>1, ConcatProperties
        <4> QED
          BY <4>1
      <3>2. PICK g \in [SUBSET (1 .. n) -> Seq(S)] : IsIter(g, <<>>, step, n)
        <4>1. <<>> \in Seq(S)
          BY EmptySeq
        <4> HIDE DEF step, n
        <4> QED
          BY <1>1, <3>1, <4>1, FoldExists
      <3>3. g[{}] = <<>> /\ \A k \in 1 .. n : g[1 .. k] = step[<<g[1 .. k - 1], k>>]
        <4>1. Follows(g, <<>>, step, n)
          <5> HIDE DEF step, n
          <5> QED
            BY <1>1, <3>2, IterFollows
        <4> HIDE DEF step, n
        <4> QED
          BY <4>1 DEF Follows
      <3>4. ASSUME NEW k \in 1 .. n PROVE g[1 .. k] = g[1 .. k - 1] \o seqs[k] /\ g[1 .. k - 1] \in Seq(S)
        <4>1. 1 .. k - 1 \in SUBSET (1 .. n)
          BY <1>1
        <4>2. g[1 .. k - 1] \in Seq(S)
          BY <3>2, <4>1
        <4> QED
          BY <3>3, <4>2
      <3> DEFINE h == [i \in 1 .. n |-> g[1 .. i]]
      <3>5. ASSUME NEW i \in 1 .. n PROVE h[i] = IF i = 1 THEN seqs[i] ELSE h[i - 1] \o seqs[i]
        <4>1. CASE i = 1
          <5>1. 1 .. i - 1 = {} /\ g[1 .. i - 1] = <<>>
            BY <3>3, <4>1
          <5>2. <<>> \o seqs[i] = seqs[i]
            BY <1>1, ConcatEmptySeq
          <5> QED
            BY <3>4, <4>1, <5>1, <5>2
        <4>2. CASE i # 1
          <5>1. i - 1 \in 1 .. n /\ h[i - 1] = g[1 .. i - 1]
            BY <1>1, <4>2
          <5> QED
            BY <3>4, <4>2, <5>1
        <4> QED
          BY <4>1, <4>2
      <3>6. h = Flat(h)
        BY <3>5
      <3> QED
        BY <3>6
    <2>3. PICK f : f = Flat(f) /\ FlattenSeq(seqs) = f[n]
      <3> HIDE DEF Flat, n
      <3> QED
        BY <2>1, <2>2
    <2>4. \A i \in 1 .. n : f[i] = IF i = 1 THEN seqs[i] ELSE f[i - 1] \o seqs[i]
      BY <2>3
    <2> DEFINE Bad == {i \in 1 .. n : f[i] \notin Seq(S)}
    <2>5. SUFFICES ASSUME Bad # {} PROVE FALSE
      <3>1. n \in 1 .. n
        BY <1>1, <1>3
      <3>2. Bad = {} => f[n] \in Seq(S)
        BY <3>1
      <3> QED
        BY <1>3, <2>3, <3>2
    <2>6. PICK i \in Bad : \A j \in Bad : i <= j
      <3>1. Bad \in SUBSET Nat
        OBVIOUS
      <3> HIDE DEF Bad
      <3> QED
        BY <2>5, <3>1, LeastOf
    <2>7. i # 1
      BY <1>1, <2>4, <2>6
    <2>8. i \in 1 .. n /\ i - 1 \in 1 .. n /\ i - 1 \notin Bad
      <3>1. i \in 1 .. n
        BY <2>6
      <3>2. i - 1 \in 1 .. n /\ ~ i <= i - 1
        BY <1>1, <2>7, <3>1
      <3> HIDE DEF Bad
      <3> QED
        BY <2>6, <3>1, <3>2
    <2>9. f[i - 1] \in Seq(S) /\ f[i] = f[i - 1] \o seqs[i]
      BY <2>4, <2>7, <2>8
    <2>10. f[i] \in Seq(S)
      <3>1. seqs[i] \in Seq(S)
        BY <1>1, <2>8
      <3> QED
        BY <2>9, <3>1, ConcatProperties
    <2> QED
      BY <2>6, <2>10
  <1> QED
    BY <1>2, <1>3

(* The lines of a server fit into tmp.                                     *)
Fitting == 0 .. Temporary - 1

(* Equal lines that fit.                                                   *)
LEMMA TimesFit ==
  ASSUME NEW line \in Fitting, NEW m \in Nat
  PROVE  Times(line, m) \in Seq(Fitting)
  <1>1. Times(line, m) \in [1 .. m -> Fitting]
    BY DEF Times
  <1> QED
    BY <1>1, SeqDef

(* A single line that fits.                                                *)
LEMMA OneFits ==
  ASSUME NEW line \in Fitting
  PROVE  <<line>> \in Seq(Fitting)
  OBVIOUS

(* The lines of utilsDumpServer fit into temp.                             *)
LEMMA LinesFit ==
  /\ ServiceLine \in Fitting /\ IncludedLine \in Fitting /\ DescriptorLine \in Fitting
  /\ \A notify \in BOOLEAN : CharacteristicLine(notify) \in Fitting
  BY DEF ServiceLine, IncludedLine, DescriptorLine, CharacteristicLine, Fitting, Temporary

Described == [notify : BOOLEAN, single : 0 .. 1, listed : Nat]

(* So do those of a whole server.                                          *)
LEMMA DumpFits ==
  ASSUME NEW included \in Nat, NEW chars \in Seq(Described)
  PROVE  DumpLines(included, chars) \in Seq(Fitting)
  <1> DEFINE Block(char) == <<CharacteristicLine(char.notify /\ char.single = 1)>>
                              \o Times(DescriptorLine, DescriptorLines(char))
             blocks == [i \in 1 .. Len(chars) |-> Block(chars[i])]
             front == <<ServiceLine>> \o Times(IncludedLine, included)
  <1>1. Len(chars) \in Nat /\ \A i \in 1 .. Len(chars) : chars[i] \in Described
    BY LenProperties, ElementOfSeq
  <1>2. ASSUME NEW char \in Described PROVE Block(char) \in Seq(Fitting)
    <2>1. (char.notify /\ char.single = 1) \in BOOLEAN
      OBVIOUS
    <2>2. <<CharacteristicLine(char.notify /\ char.single = 1)>> \in Seq(Fitting)
      BY <2>1, LinesFit, OneFits
    <2>3. DescriptorLines(char) \in Nat
      BY DEF DescriptorLines, Described
    <2>4. Times(DescriptorLine, DescriptorLines(char)) \in Seq(Fitting)
      BY <2>3, LinesFit, TimesFit
    <2> QED
      BY <2>2, <2>4, ConcatProperties
  <1>3. front \in Seq(Fitting)
    <2>1. <<ServiceLine>> \in Seq(Fitting) /\ Times(IncludedLine, included) \in Seq(Fitting)
      BY LinesFit, OneFits, TimesFit
    <2> QED
      BY <2>1, ConcatProperties
  <1>4. blocks \in Seq(Seq(Fitting))
    <2>1. blocks \in [1 .. Len(chars) -> Seq(Fitting)]
      <3> HIDE DEF Block
      <3> QED
        BY <1>1, <1>2
    <2> HIDE DEF blocks
    <2> QED
      BY <1>1, <2>1, SeqDef
  <1>5. FlattenSeq(blocks) \in Seq(Fitting)
    <2> HIDE DEF blocks
    <2> QED
      BY <1>4, FlattenedIn
  <1>6. DumpLines(included, chars) = front \o FlattenSeq(blocks)
    BY DEF DumpLines
  <1> HIDE DEF front, blocks
  <1> QED
    BY <1>3, <1>5, <1>6, ConcatProperties

(* Whatever the server, and whatever lines are appended with or without    *)
(* memory, to a buffer of any size: nothing is cut off from a dump, and    *)
(* nothing is written behind the buffer (utilsDumpServer,                  *)
(* append_to_buffer).                                                      *)
THEOREM EveryDumpIsWhole ==
  ASSUME \/ dump \in [of : {"server"}, chars : Seq(Described), included : Nat, size : Nat \ {0}]
         \/ dump \in [of : {"lines"}, lines : Seq(Nat), size : Nat \ {0}, memory : BOOLEAN]
  PROVE  DumpIsWhole
  <1>1. CASE dump \in [of : {"server"}, chars : Seq(Described), included : Nat, size : Nat \ {0}]
    <2>1. dump.included \in Nat /\ dump.chars \in Seq(Described) /\ dump.size \in Nat \ {0}
      BY <1>1
    <2> DEFINE lines == DumpLines(dump.included, dump.chars)
               b == utilsDumpServer(dump.included, dump.chars, NewBuffer(dump.size), TRUE)
    <2>2. lines \in Seq(Fitting) /\ NewBuffer(dump.size) \in Whole(0)
      BY <2>1, DumpFits, NewBufferFits
    <2>3. b = Appended(NewBuffer(dump.size), lines, TRUE)
      BY DEF utilsDumpServer
    <2> HIDE DEF lines, b
    <2>4. Total(lines) \in Nat /\ b \in Whole(Total(lines))
      BY <2>2, <2>3, LinesWhole DEF Fitting
    <2>5. b.ptr = "valid" /\ b.text = b.offset /\ b.text = Total(lines) /\ b.text < b.size
      BY <2>4 DEF Whole
    <2>6. dump.of = "server"
      BY <1>1
    <2> QED
      BY <2>5, <2>6 DEF DumpIsWhole, lines, b
  <1>2. CASE dump \in [of : {"lines"}, lines : Seq(Nat), size : Nat \ {0}, memory : BOOLEAN]
    <2>1. dump.lines \in Seq(Nat) /\ dump.size \in Nat \ {0} /\ dump.memory \in BOOLEAN
      BY <1>2
    <2> DEFINE b == Appended(NewBuffer(dump.size), dump.lines, dump.memory)
    <2>2. b \in Sound(dump.memory)
      BY <2>1, NewBufferFits, LinesSound
    <2> HIDE DEF b
    <2>3. (b.ptr = "valid" => b.text <= b.offset /\ b.offset < b.size) /\ (b.ptr # "valid" => ~dump.memory)
      BY <2>2 DEF Sound
    <2>4. dump.of = "lines"
      BY <1>2
    <2> QED
      BY <2>3, <2>4 DEF DumpIsWhole, b
  <1> QED
    BY <1>1, <1>2
----------------------------------------------------------------------------
(* The bytes of hex digits                                                 *)

(* The length of a sequence that is given as a function.                   *)
LEMMA LenOfFunction ==
  ASSUME NEW n \in Nat, NEW S, NEW f \in [1 .. n -> S]
  PROVE  f \in Seq(S) /\ Len(f) = n
  <1>1. f \in Seq(S)
    BY SeqDef
  <1>2. Len(f) \in Nat /\ DOMAIN f = 1 .. Len(f)
    BY <1>1, LenProperties
  <1>3. 1 .. n = 1 .. Len(f)
    BY <1>2
  <1> QED
    BY <1>1, <1>2, <1>3

(* The arithmetic of digits and bytes, in 8 bits.                          *)
LEMMA Halves ==
  ASSUME NEW n \in Nat
  PROVE  /\ (n % 256) \in 0 .. 255 /\ n % 256 <= n /\ (n < 256 => n % 256 = n)
         /\ ((n % 256) + 1) \div 2 \in Nat
         /\ ((n % 256) + 1) \div 2 <= (n + 1) \div 2
         /\ n < 256 => ((n % 256) + 1) \div 2 = (n + 1) \div 2
  OBVIOUS
----------------------------------------------------------------------------
(* The search for a characteristic                                         *)

Record == {NoRecord} \cup (Nat \X Nat)

(* A record that was found is not NULL.                                    *)
LEMMA PlaceIsRecord ==
  ASSUME NEW i \in Nat, NEW j \in Nat
  PROVE  <<i, j>> # NoRecord
  <1>1. <<i, j>> \in Seq(Nat) /\ Len(<<i, j>>) = 2
    OBVIOUS
  <1>2. Len(<<>>) = 0
    OBVIOUS
  <1> QED
    BY <1>1, <1>2 DEF NoRecord

\* The characteristics of the services 1 .. k that have the UUID.
Hits(services, uuid, len, k) ==
  {p \in (1 .. k) \X Nat : p[2] \in 1 .. Len(services[p[1]])
                           /\ SameUuid(services[p[1]][p[2]], uuid, len)}

IsBefore(p, q) == p[1] < q[1] \/ (p[1] = q[1] /\ p[2] <= q[2])

\* The results that are right after k services.
Right(services, uuid, len, k) ==
  {r \in Record :
     IF Hits(services, uuid, len, k) = {} THEN r = NoRecord
     ELSE r \in Hits(services, uuid, len, k) /\ \A p \in Hits(services, uuid, len, k) : IsBefore(r, p)}

(* What a service adds.                                                    *)
LEMMA SearchCases ==
  ASSUME NEW U, NEW services \in Seq(Seq(U)), NEW uuid, NEW len, NEW found,
         NEW i \in 1 .. Len(services)
  PROVE  LET hits == {j \in 1 .. Len(services[i]) : SameUuid(services[i][j], uuid, len)}
             r == Search(services, uuid, len, found, i)
         IN /\ hits \in SUBSET Nat
            /\ found # NoRecord \/ hits = {} => r = found
            /\ found = NoRecord /\ hits # {} =>
                 \E j \in hits : r = <<i, j>> /\ \A k \in hits : j <= k
  <1> DEFINE hits == {j \in 1 .. Len(services[i]) : SameUuid(services[i][j], uuid, len)}
             r == Search(services, uuid, len, found, i)
             first == CHOOSE j \in hits : \A k \in hits : j <= k
  <1>1. hits \in SUBSET Nat
    OBVIOUS
  <1>2. r = IF found # NoRecord \/ hits = {} THEN found ELSE <<i, first>>
    BY DEF Search
  <1>3. hits # {} => first \in hits /\ \A k \in hits : first <= k
    <2> HIDE DEF hits
    <2> QED
      BY <1>1, LeastOf
  <1> HIDE DEF hits, r, first
  <1>4. /\ hits \in SUBSET Nat
        /\ found # NoRecord \/ hits = {} => r = found
        /\ found = NoRecord /\ hits # {} =>
             \E j \in hits : r = <<i, j>> /\ \A k \in hits : j <= k
    BY <1>1, <1>2, <1>3
  <1> QED
    BY <1>4 DEF hits, r

(* A step of the search gives a record, or NULL.                           *)
LEMMA SearchIsRecord ==
  ASSUME NEW U, NEW services \in Seq(Seq(U)), NEW uuid, NEW len, NEW found \in Record,
         NEW i \in 1 .. Len(services)
  PROVE  Search(services, uuid, len, found, i) \in Record
  BY SearchCases DEF Record

(* The search goes from service to service.                                *)
LEMMA SearchUnfolds ==
  ASSUME NEW U, NEW services \in Seq(Seq(U)), NEW uuid, NEW len
  PROVE  \E f : /\ f[{}] = NoRecord
                /\ \A k \in 1 .. Len(services) :
                     f[1 .. k] = Search(services, uuid, len, f[1 .. k - 1], k)
                /\ utilsFindCharRec(services, uuid, len) = f[1 .. Len(services)]
  <1> DEFINE n == Len(services)
             index == [i \in DOMAIN services |-> i]
             Iter(f) == [s \in SUBSET (1 .. n) |->
                           IF s = {} THEN NoRecord
                           ELSE Search(services, uuid, len, f[s \ {Max(s)}], index[Max(s)])]
  <1>1. n \in Nat /\ DOMAIN services = 1 .. n
    BY LenProperties
  <1>2. utilsFindCharRec(services, uuid, len) = (CHOOSE f : f = Iter(f))[1 .. n]
    BY <1>1 DEF utilsFindCharRec, FoldLeftDomain, FoldLeft, MapThenFoldSet
  <1>3. \E f : f = Iter(f)
    <2> DEFINE step == [p \in Record \X (1 .. n) |-> Search(services, uuid, len, p[1], p[2])]
    <2>1. step \in [Record \X (1 .. n) -> Record]
      BY SearchIsRecord
    <2>2. PICK f \in [SUBSET (1 .. n) -> Record] : IsIter(f, NoRecord, step, n)
      <3>1. NoRecord \in Record
        BY DEF Record
      <3> HIDE DEF step, n
      <3> QED
        BY <1>1, <2>1, <3>1, FoldExists
    <2>3. ASSUME NEW s \in SUBSET (1 .. n), s # {}
          PROVE  step[<<f[s \ {Max(s)}], Max(s)>>]
                   = Search(services, uuid, len, f[s \ {Max(s)}], index[Max(s)])
      <3>1. Max(s) \in s /\ s \ {Max(s)} \in SUBSET (1 .. n)
        BY <1>1, <2>3, MaxOf
      <3>2. f[s \ {Max(s)}] \in Record /\ index[Max(s)] = Max(s)
        BY <1>1, <3>1
      <3> HIDE DEF index
      <3> QED
        BY <3>1, <3>2
    <2>4. f = Iter(f)
      <3> HIDE DEF step, index
      <3> QED
        BY <2>2, <2>3 DEF IsIter
    <2> QED
      BY <2>4
  <1>4. PICK f : f = Iter(f) /\ utilsFindCharRec(services, uuid, len) = f[1 .. n]
    <2> HIDE DEF Iter, n
    <2> QED
      BY <1>2, <1>3
  <1>5. f[{}] = NoRecord
    BY <1>4
  <1>6. ASSUME NEW k \in 1 .. n
        PROVE  f[1 .. k] = Search(services, uuid, len, f[1 .. k - 1], k)
    <2>1. PICK s : s = 1 .. k
      OBVIOUS
    <2>2. s \in SUBSET (1 .. n) /\ s # {} /\ Max(s) = k /\ s \ {Max(s)} = 1 .. k - 1
      BY <1>1, <2>1, MaxOfPrefix
    <2>3. f[s] = Search(services, uuid, len, f[s \ {Max(s)}], index[Max(s)])
      BY <1>4, <2>2
    <2>4. index[Max(s)] = k
      BY <1>1, <2>2
    <2> HIDE DEF index
    <2> QED
      BY <2>1, <2>2, <2>3, <2>4
  <1> QED
    BY <1>4, <1>5, <1>6

(* A right result stays right when one more service is searched.           *)
LEMMA SearchStaysRight ==
  ASSUME NEW U, NEW services \in Seq(Seq(U)), NEW uuid, NEW len,
         NEW k \in 1 .. Len(services), NEW found \in Right(services, uuid, len, k - 1)
  PROVE  Search(services, uuid, len, found, k) \in Right(services, uuid, len, k)
  <1> DEFINE hits == {j \in 1 .. Len(services[k]) : SameUuid(services[k][j], uuid, len)}
             before == Hits(services, uuid, len, k - 1)
             now == Hits(services, uuid, len, k)
             r == Search(services, uuid, len, found, k)
  <1>1. found \in Record /\ IF before = {} THEN found = NoRecord
                            ELSE found \in before /\ \A p \in before : IsBefore(found, p)
    BY DEF Right
  <1>2. k \in Nat /\ k - 1 \in Nat
    BY LenProperties
  <1>3. now = before \cup {<<k, j>> : j \in hits}
    <2>1. ASSUME NEW p \in now PROVE p \in before \/ p \in {<<k, j>> : j \in hits}
      <3>1. /\ p[1] \in 1 .. k /\ p[2] \in Nat /\ p = <<p[1], p[2]>>
            /\ p[2] \in 1 .. Len(services[p[1]]) /\ SameUuid(services[p[1]][p[2]], uuid, len)
        BY <2>1 DEF Hits
      <3>2. CASE p[1] = k
        BY <3>1, <3>2
      <3>3. CASE p[1] # k
        <4>1. p[1] \in 1 .. k - 1
          BY <1>2, <3>1, <3>3
        <4> QED
          BY <3>1, <4>1 DEF Hits
      <3> QED
        BY <3>2, <3>3
    <2>2. before \subseteq now
      <3>1. 1 .. k - 1 \subseteq 1 .. k
        BY <1>2
      <3> QED
        BY <3>1 DEF Hits
    <2>3. ASSUME NEW j \in hits PROVE <<k, j>> \in now
      <3>1. k \in 1 .. k /\ j \in Nat
        BY <1>2
      <3> QED
        BY <3>1 DEF Hits
    <2> HIDE DEF before, now, hits
    <2> QED
      BY <2>1, <2>2, <2>3
  <1>4. \A p \in before : p[1] < k /\ p # NoRecord /\ p[1] \in Nat
    <2> SUFFICES ASSUME NEW p \in before PROVE p[1] < k /\ p # NoRecord /\ p[1] \in Nat
      OBVIOUS
    <2>1. p[1] \in 1 .. k - 1 /\ p[2] \in Nat /\ p = <<p[1], p[2]>>
      BY DEF Hits
    <2>2. p[1] \in Nat /\ p[1] < k
      BY <1>2, <2>1
    <2>3. <<p[1], p[2]>> # NoRecord
      BY <2>1, <2>2, PlaceIsRecord
    <2> QED
      BY <2>1, <2>2, <2>3
  <1>5. /\ hits \in SUBSET Nat
        /\ found # NoRecord \/ hits = {} => r = found
        /\ found = NoRecord /\ hits # {} =>
             \E j \in hits : r = <<k, j>> /\ \A i \in hits : j <= i
    BY SearchCases
  <1> HIDE DEF hits, before, now, r
  <1>6. r \in Record
    BY <1>1, SearchIsRecord DEF r
  <1>7. CASE before # {}
    <2>1. found \in before /\ \A p \in before : IsBefore(found, p)
      BY <1>1, <1>7
    <2>2. r = found /\ r \in now
      BY <1>3, <1>4, <1>5, <2>1
    <2>3. ASSUME NEW j \in hits PROVE IsBefore(found, <<k, j>>)
      BY <1>4, <2>1 DEF IsBefore
    <2>4. \A p \in now : IsBefore(r, p)
      BY <1>3, <2>1, <2>2, <2>3
    <2> QED
      BY <1>6, <2>2, <2>4 DEF Right, now, r
  <1>8. CASE before = {} /\ hits = {}
    <2>1. r = NoRecord /\ now = {}
      BY <1>1, <1>3, <1>5, <1>8
    <2> QED
      BY <1>6, <2>1 DEF Right, now, r
  <1>9. CASE before = {} /\ hits # {}
    <2>1. PICK j \in hits : r = <<k, j>> /\ \A i \in hits : j <= i
      BY <1>1, <1>5, <1>9
    <2>2. r \in now
      BY <1>3, <2>1
    <2>3. ASSUME NEW i \in hits PROVE IsBefore(r, <<k, i>>)
      BY <2>1 DEF IsBefore
    <2>4. \A p \in now : IsBefore(r, p)
      BY <1>3, <1>9, <2>3
    <2> QED
      BY <1>6, <2>2, <2>4 DEF Right, now, r
  <1> QED
    BY <1>7, <1>8, <1>9

(* The search through all services is right.                               *)
LEMMA SearchRight ==
  ASSUME NEW U, NEW services \in Seq(Seq(U)), NEW uuid, NEW len
  PROVE  utilsFindCharRec(services, uuid, len) \in Right(services, uuid, len, Len(services))
  <1>1. PICK f : /\ f[{}] = NoRecord
                 /\ \A k \in 1 .. Len(services) :
                      f[1 .. k] = Search(services, uuid, len, f[1 .. k - 1], k)
                 /\ utilsFindCharRec(services, uuid, len) = f[1 .. Len(services)]
    BY SearchUnfolds
  <1> DEFINE n == Len(services)
             J == [k \in 0 .. n |-> Right(services, uuid, len, k)]
  <1>2. n \in Nat
    BY LenProperties
  <1>3. f[{}] \in J[0]
    <2>1. Hits(services, uuid, len, 0) = {}
      BY DEF Hits
    <2>2. NoRecord \in Right(services, uuid, len, 0)
      BY <2>1 DEF Right, Record
    <2> QED
      BY <1>1, <1>2, <2>2
  <1>4. ASSUME NEW k \in 1 .. n, f[1 .. k - 1] \in J[k - 1] PROVE f[1 .. k] \in J[k]
    <2>1. k \in 0 .. n /\ k - 1 \in 0 .. n
      BY <1>2
    <2>2. f[1 .. k - 1] \in Right(services, uuid, len, k - 1)
      BY <1>4, <2>1
    <2>3. f[1 .. k] \in Right(services, uuid, len, k)
      BY <1>1, <2>2, SearchStaysRight
    <2> QED
      BY <2>1, <2>3
  <1>5. f[1 .. n] \in J[n]
    <2> HIDE DEF J, n
    <2> QED
      BY <1>2, <1>3, <1>4, FoldInduction
  <1> QED
    BY <1>1, <1>2, <1>5

(* In every database the characteristic that utilsFindCharRec returns has  *)
(* the UUID and is the first that has, and it returns none only if none    *)
(* has it.                                                                 *)
THEOREM SearchFindsFirst ==
  ASSUME NEW U,
         input \in [of : {"search"}, services : Seq(Seq(U)), len : Nat]
  PROVE  FindsFirst
  <1> DEFINE services == input.services
             found == utilsFindCharRec(services, <<1, 2>>, input.len)
             places == UNION {{<<i, j>> : j \in 1 .. Len(services[i])} : i \in 1 .. Len(services)}
             hits == {p \in places : SameUuid(services[p[1]][p[2]], <<1, 2>>, input.len)}
             all == Hits(services, <<1, 2>>, input.len, Len(services))
  <1>1. services \in Seq(Seq(U)) /\ input.len \in Nat
    OBVIOUS
  <1>2. Len(services) \in Nat
    BY <1>1, LenProperties
  <1>3. found \in Right(services, <<1, 2>>, input.len, Len(services))
    BY <1>1, SearchRight
  <1>4. hits = all
    <2> DEFINE Place(i) == {<<i, j>> : j \in 1 .. Len(services[i])}
    <2> HIDE DEF services
    <2>1. ASSUME NEW p \in hits PROVE p \in all
      <3>1. PICK i \in 1 .. Len(services) : p \in Place(i)
        BY <2>1
      <3>2. PICK j \in 1 .. Len(services[i]) : p = <<i, j>>
        BY <3>1
      <3>3. j \in Nat /\ p[1] = i /\ p[2] = j /\ SameUuid(services[i][j], <<1, 2>>, input.len)
        BY <2>1, <3>2
      <3> QED
        BY <3>2, <3>3 DEF Hits
    <2>2. ASSUME NEW p \in all PROVE p \in hits
      <3>1. /\ p[1] \in 1 .. Len(services) /\ p = <<p[1], p[2]>>
            /\ p[2] \in 1 .. Len(services[p[1]]) /\ SameUuid(services[p[1]][p[2]], <<1, 2>>, input.len)
        BY <2>2 DEF Hits
      <3>2. p \in Place(p[1])
        BY <3>1
      <3>3. p \in places
        BY <3>1, <3>2
      <3> HIDE DEF places
      <3> QED
        BY <3>1, <3>3
    <2> HIDE DEF hits, all
    <2> QED
      BY <2>1, <2>2
  <1>5. IF all = {} THEN found = NoRecord
        ELSE found \in all /\ \A p \in all : IsBefore(found, p)
    BY <1>3 DEF Right
  <1>6. \A p, q \in all : IsBefore(q, p) => p[1] > q[1] \/ (p[1] = q[1] /\ p[2] >= q[2])
    <2>1. \A p \in all : p[1] \in Int /\ p[2] \in Int
      BY DEF Hits
    <2> HIDE DEF all
    <2> QED
      BY <2>1 DEF IsBefore
  <1> HIDE DEF found, hits, all
  <1>7. IF hits = {} THEN found = NoRecord
        ELSE found \in hits /\ \A p \in hits : p[1] > found[1] \/ (p[1] = found[1] /\ p[2] >= found[2])
    BY <1>4, <1>5, <1>6
  <1> QED
    BY <1>7 DEF FindsFirst, found, hits
----------------------------------------------------------------------------
(* Addresses                                                               *)

Chars == {"0", "1", "2", "3", "4", "5", "6", "7", "8", "9", "A", "B", "C", "D", "E", "F",
          "a", "b", "c", "d", "e", "f", ":"}

(* The digits that snprintf prints.                                        *)
LEMMA UpperIs ==
  /\ Upper \in Seq(Chars) /\ Len(Upper) = 16 /\ DOMAIN Upper = 1 .. 16
  /\ Upper[1] = "0" /\ Upper[2] = "1" /\ Upper[3] = "2" /\ Upper[4] = "3"
  /\ Upper[5] = "4" /\ Upper[6] = "5" /\ Upper[7] = "6" /\ Upper[8] = "7"
  /\ Upper[9] = "8" /\ Upper[10] = "9" /\ Upper[11] = "A" /\ Upper[12] = "B"
  /\ Upper[13] = "C" /\ Upper[14] = "D" /\ Upper[15] = "E" /\ Upper[16] = "F"
  <1>1. Len(Upper) = 16 /\ DOMAIN Upper = 1 .. 16
    BY DEF Upper
  <1>2. Upper \in Seq(Chars)
    BY DEF Upper, Chars
  <1> QED
    BY <1>1, <1>2 DEF Upper

(* The digits in lower case.                                               *)
LEMMA LowerIs ==
  /\ Lower \in Seq(Chars) /\ Len(Lower) = 16 /\ DOMAIN Lower = 1 .. 16
  /\ \A i \in 1 .. 10 : Lower[i] = Upper[i]
  /\ Lower[11] = "a" /\ Lower[12] = "b" /\ Lower[13] = "c" /\ Lower[14] = "d"
  /\ Lower[15] = "e" /\ Lower[16] = "f"
  <1> DEFINE digits == SubSeq(Upper, 1, 10)
             letters == <<"a", "b", "c", "d", "e", "f">>
  <1>1. digits \in Seq(Chars) /\ Len(digits) = 10 /\ \A i \in 1 .. 10 : digits[i] = Upper[i]
    <2>1. \A i \in 1 .. 10 : Upper[i] \in Chars
      <3>1. \A i \in 1 .. 10 : i \in 1 .. Len(Upper)
        BY UpperIs
      <3> QED
        BY <3>1, UpperIs, ElementOfSeq
    <2>2. /\ digits \in Seq(Chars)
          /\ Len(digits) = IF 1 <= 10 THEN 10 - 1 + 1 ELSE 0
          /\ \A i \in 1 .. 10 - 1 + 1 : digits[i] = Upper[1 + i - 1]
      BY <2>1, SubSeqProperties, 1 \in Int, 10 \in Int
    <2> HIDE DEF digits
    <2> QED
      BY <2>2
  <1>2. letters \in Seq(Chars) /\ Len(letters) = 6 /\ letters[1] = "a" /\ letters[2] = "b"
        /\ letters[3] = "c" /\ letters[4] = "d" /\ letters[5] = "e" /\ letters[6] = "f"
    BY DEF Chars
  <1>3. Lower = digits \o letters
    BY DEF Lower
  <1> HIDE DEF digits, letters
  <1>4. /\ Lower \in Seq(Chars) /\ Len(Lower) = 16
        /\ \A i \in 1 .. 16 : Lower[i] = IF i <= 10 THEN digits[i] ELSE letters[i - 10]
    <2>1. /\ Lower \in Seq(Chars) /\ Len(Lower) = Len(digits) + Len(letters)
          /\ \A i \in 1 .. Len(digits) + Len(letters) :
               Lower[i] = IF i <= Len(digits) THEN digits[i] ELSE letters[i - Len(digits)]
      BY ZenonT(60), <1>1, <1>2, <1>3, ConcatProperties
    <2> QED
      BY <1>1, <1>2, <2>1
  <1> QED
    BY <1>1, <1>2, <1>4, LenProperties

\* The value of a digit, in either case.
DigitValue(c) ==
  CASE c = "0" -> 0 [] c = "1" -> 1 [] c = "2" -> 2 [] c = "3" -> 3
    [] c = "4" -> 4 [] c = "5" -> 5 [] c = "6" -> 6 [] c = "7" -> 7
    [] c = "8" -> 8 [] c = "9" -> 9 [] c \in {"A", "a"} -> 10 [] c \in {"B", "b"} -> 11
    [] c \in {"C", "c"} -> 12 [] c \in {"D", "d"} -> 13
    [] c \in {"E", "e"} -> 14 [] OTHER -> 15

(* No two digits have the same value.                                      *)
LEMMA ValueOfDigits ==
  ASSUME NEW n \in 0 .. 15
  PROVE  DigitValue(Upper[n + 1]) = n /\ DigitValue(Lower[n + 1]) = n
  <1>1. CASE n < 10
    <2>1. n + 1 \in 1 .. 10 /\ n \in 0 .. 9
      BY <1>1
    <2>2. Lower[n + 1] = Upper[n + 1]
      BY <2>1, LowerIs
    <2>3. DigitValue(Upper[n + 1]) = n
      BY <2>1, UpperIs DEF DigitValue
    <2> QED
      BY <2>2, <2>3
  <1>2. CASE n >= 10
    <2>1. n \in 10 .. 15
      BY <1>2
    <2> QED
      BY <2>1, UpperIs, LowerIs DEF DigitValue
  <1> QED
    BY <1>1, <1>2

(* A printed digit is read as what it was.                                 *)
LEMMA HexOfUpper ==
  ASSUME NEW n \in 0 .. 15
  PROVE  utilsConvertCharToHex(Upper[n + 1]) = n /\ IsHex(Upper[n + 1]) /\ Upper[n + 1] # ":"
  <1>1. IsHex(Upper[n + 1])
    <2>1. n + 1 \in DOMAIN Upper
      BY UpperIs
    <2> QED
      BY <2>1 DEF IsHex, ToSet
  <1>2. ASSUME NEW m \in 0 .. 15, Upper[n + 1] \in {Upper[m + 1], Lower[m + 1]} PROVE m = n
    <2>1. DigitValue(Upper[n + 1]) = n /\ DigitValue(Upper[m + 1]) = m /\ DigitValue(Lower[m + 1]) = m
      BY ValueOfDigits
    <2> QED
      BY <1>2, <2>1
  <1>3. Upper[n + 1] # ":"
    BY UpperIs
  <1> QED
    BY <1>1, <1>2, <1>3 DEF utilsConvertCharToHex

(* So is a digit in small letters.                                         *)
LEMMA HexOfLower ==
  ASSUME NEW n \in 0 .. 15
  PROVE  utilsConvertCharToHex(Lower[n + 1]) = n
  <1>1. IsHex(Lower[n + 1])
    <2>1. n + 1 \in DOMAIN Lower
      BY LowerIs
    <2> QED
      BY <2>1 DEF IsHex, ToSet
  <1>2. ASSUME NEW m \in 0 .. 15, Lower[n + 1] \in {Upper[m + 1], Lower[m + 1]} PROVE m = n
    <2>1. DigitValue(Lower[n + 1]) = n /\ DigitValue(Upper[m + 1]) = m /\ DigitValue(Lower[m + 1]) = m
      BY ValueOfDigits
    <2> QED
      BY <1>2, <2>1
  <1> QED
    BY <1>1, <1>2 DEF utilsConvertCharToHex

(* A byte holds two digits.                                                *)
LEMMA DigitsOfByte ==
  ASSUME NEW a \in 0 .. 15, NEW b \in 0 .. 15
  PROVE  16 * a + b \in Nat /\ (16 * a + b) \div 16 = a /\ (16 * a + b) % 16 = b
  OBVIOUS

(* The places of digits and of their bytes.                                *)
LEMMA PlacesInBytes ==
  ASSUME NEW n \in Nat, NEW k \in 1 .. 2 * ((n + 1) \div 2)
  PROVE  /\ k % 2 = 1 => /\ (k + 1) \div 2 \in 1 .. (n + 1) \div 2
                         /\ 2 * ((k + 1) \div 2) - 1 = k
                         /\ k <= n
         /\ k % 2 # 1 => /\ k \div 2 \in 1 .. (n + 1) \div 2
                         /\ 2 * (k \div 2) = k
                         /\ 2 * (k \div 2) - 1 \in 1 .. n
         /\ k <= n + 1
  OBVIOUS

(* An odd digit takes a byte of its own.                                   *)
LEMMA RoundedUp ==
  ASSUME NEW n \in Nat
  PROVE  2 * ((n + 1) \div 2) = IF n % 2 = 0 THEN n ELSE n + 1
  OBVIOUS

(* Append, as a function.                                                  *)
LEMMA AppendIs ==
  ASSUME NEW S, NEW d \in Seq(S), NEW e \in S
  PROVE  Append(d, e) = [k \in 1 .. Len(d) + 1 |-> IF k <= Len(d) THEN d[k] ELSE e]
  <1>1. /\ Append(d, e) \in Seq(S) /\ Len(Append(d, e)) = Len(d) + 1 /\ Len(d) \in Nat
        /\ Append(d, e)[Len(d) + 1] = e
        /\ \A k \in 1 .. Len(d) : Append(d, e)[k] = d[k]
    BY AppendProperties
  <1>2. Append(d, e) = [k \in 1 .. Len(d) + 1 |-> Append(d, e)[k]]
    <2> DEFINE t == Append(d, e)
    <2>1. t \in Seq(S) /\ Len(t) = Len(d) + 1
      BY <1>1
    <2> HIDE DEF t
    <2>2. \E n \in Nat : t \in [1 .. n -> S]
      BY <2>1, SeqDef
    <2>3. DOMAIN t = 1 .. Len(d) + 1
      BY <2>1, LenProperties
    <2>4. t = [k \in 1 .. Len(d) + 1 |-> t[k]]
      BY <2>2, <2>3
    <2> QED
      BY <2>4 DEF t
  <1>3. \A k \in 1 .. Len(d) + 1 : Append(d, e)[k] = IF k <= Len(d) THEN d[k] ELSE e
    <2> TAKE k \in 1 .. Len(d) + 1
    <2>1. k \in 1 .. Len(d) \/ k = Len(d) + 1
      BY <1>1
    <2> QED
      BY <1>1, <2>1
  <1> QED
    BY <1>2, <1>3

(* utilsConvertHexStrToByteArray writes the digits of any string of up to  *)
(* 255, in either kind of letters, and never more bytes than a caller has  *)
(* room for who has made room for the digits.                              *)
THEOREM BytesAreAnyDigits ==
  ASSUME input \in [of : {"digits"}, digits : Seq(0 .. 15), letters : {Upper, Lower}]
  PROVE  BytesAreTheDigits
  <1> DEFINE d == input.digits
             n == Len(d)
             str == [i \in DOMAIN d |-> input.letters[d[i] + 1]]
             h == HexLength(str)
             m == Bytes(str)
             bytes == utilsConvertHexStrToByteArray(str)
             read == DigitsOf(bytes)
             second(i) == IF 2 * i <= h THEN utilsConvertCharToHex(str[2 * i]) ELSE 0
             byte(i) == 16 * utilsConvertCharToHex(str[2 * i - 1]) + second(i)
  <1>1. d \in Seq(0 .. 15) /\ n \in Nat /\ DOMAIN d = 1 .. n /\ \A i \in 1 .. n : d[i] \in 0 .. 15
    OBVIOUS
  <1>2. Len(str) = n
    <2>1. str \in [1 .. n -> {str[i] : i \in 1 .. n}]
      BY <1>1
    <2> HIDE DEF str, n
    <2> QED
      BY <1>1, <2>1, LenOfFunction
  <1>3. \A i \in 1 .. n : utilsConvertCharToHex(str[i]) = d[i]
    <2> TAKE i \in 1 .. n
    <2>1. str[i] = Upper[d[i] + 1] \/ str[i] = Lower[d[i] + 1]
      BY <1>1
    <2> QED
      BY <1>1, <2>1, HexOfUpper, HexOfLower
  <1>4. h = n % 256 /\ m = ((n % 256) + 1) \div 2
    BY <1>2 DEF Bytes, HexLength
  <1>5. m \in Nat /\ m <= (n + 1) \div 2 /\ (n < 256 => h = n /\ m = (n + 1) \div 2)
    <2> HIDE DEF n, h, m
    <2> QED
      BY <1>1, <1>4, Halves
  <1>6. bytes = [i \in 1 .. m |-> byte(i)]
    BY DEF utilsConvertHexStrToByteArray
  <1>7. Len(bytes) = m
    <2> HIDE DEF byte, m, bytes
    <2>1. bytes \in [1 .. m -> {byte(i) : i \in 1 .. m}]
      BY <1>6
    <2> QED
      BY <1>5, <2>1, LenOfFunction
  <1>8. DOMAIN read = 1 .. 2 * m /\ Len(read) = 2 * m
    <2> DEFINE digit(k) == IF k % 2 = 1 THEN bytes[(k + 1) \div 2] \div 16 ELSE bytes[k \div 2] % 16
    <2>1. read = [k \in 1 .. 2 * m |-> digit(k)]
      BY <1>7 DEF DigitsOf
    <2> HIDE DEF digit, m, bytes, read
    <2>2. read \in [1 .. 2 * m -> {digit(k) : k \in 1 .. 2 * m}]
      BY <2>1
    <2>3. 2 * m \in Nat
      BY <1>5
    <2> QED
      BY <2>2, <2>3, LenOfFunction
  <1>9. Len(read) <= n + 1
    <2> HIDE DEF read, m, n
    <2> QED
      BY <1>1, <1>5, <1>8
  <1>10. ASSUME n < 256, NEW k \in 1 .. 2 * m PROVE read[k] = IF k <= n THEN d[k] ELSE 0
    <2>0. read[k] = IF k % 2 = 1 THEN bytes[(k + 1) \div 2] \div 16 ELSE bytes[k \div 2] % 16
      BY <1>7 DEF DigitsOf
    <2> HIDE DEF read, bytes, m, h, n, str, d
    <2>1. h = n /\ m = (n + 1) \div 2
      BY <1>5, <1>10
    <2>2. k \in 1 .. 2 * ((n + 1) \div 2)
      BY <2>1
    <2>3. CASE k % 2 = 1
      <3> DEFINE i == (k + 1) \div 2
      <3>1. i \in 1 .. m /\ 2 * i - 1 = k /\ k \in 1 .. n
        BY <1>1, <2>1, <2>2, <2>3, PlacesInBytes
      <3>2. utilsConvertCharToHex(str[2 * i - 1]) = d[k] /\ d[k] \in 0 .. 15
        BY <1>1, <1>3, <3>1
      <3>3. second(i) \in 0 .. 15
        <4>1. 2 * i <= h => 2 * i \in 1 .. n
          BY <1>1, <2>1, <3>1
        <4> HIDE DEF i
        <4> QED
          BY <1>1, <1>3, <4>1
      <3> HIDE DEF second
      <3>4. bytes[i] = 16 * d[k] + second(i)
        BY <1>6, <3>1, <3>2
      <3>5. bytes[i] \div 16 = d[k]
        BY <3>2, <3>3, <3>4, DigitsOfByte
      <3> QED
        BY <2>0, <2>3, <3>1, <3>5
    <2>4. CASE k % 2 # 1
      <3> DEFINE i == k \div 2
      <3>1. i \in 1 .. m /\ 2 * i = k /\ 2 * i - 1 \in 1 .. n
        BY <1>1, <2>1, <2>2, <2>4, PlacesInBytes
      <3>2. utilsConvertCharToHex(str[2 * i - 1]) \in 0 .. 15
        BY <1>1, <1>3, <3>1
      <3>3. second(i) = (IF k <= n THEN d[k] ELSE 0) /\ second(i) \in 0 .. 15
        <4>1. second(i) = IF k <= n THEN utilsConvertCharToHex(str[k]) ELSE 0
          BY <2>1, <3>1
        <4>2. k <= n => k \in 1 .. n
          BY <2>2
        <4> HIDE DEF second
        <4> QED
          BY <1>1, <1>3, <4>1, <4>2
      <3> HIDE DEF second
      <3>4. bytes[i] = 16 * utilsConvertCharToHex(str[2 * i - 1]) + second(i)
        BY <1>6, <3>1
      <3>5. bytes[i] % 16 = second(i)
        <4> DEFINE a == utilsConvertCharToHex(str[2 * i - 1])
                   b == second(i)
        <4>1. a \in 0 .. 15 /\ b \in 0 .. 15 /\ bytes[i] = 16 * a + b
          BY <3>2, <3>3, <3>4
        <4> HIDE DEF a, b
        <4>2. bytes[i] % 16 = b
          BY <4>1, DigitsOfByte
        <4> QED
          BY <4>2 DEF b
      <3> QED
        BY <2>0, <2>4, <3>3, <3>5
    <2> QED
      BY <2>3, <2>4
  <1>11. ASSUME n < 256 PROVE read = IF n % 2 = 0 THEN d ELSE Append(d, 0)
    <2>1. read = [k \in 1 .. 2 * m |-> read[k]]
      BY <1>8 DEF DigitsOf
    <2> HIDE DEF read, m, h, n, d
    <2>2. m = (n + 1) \div 2
      BY <1>5, <1>11
    <2>3. CASE n % 2 = 0
      <3>1. 2 * m = n
        BY <1>1, <2>2, <2>3, RoundedUp
      <3>2. d = [k \in 1 .. n |-> d[k]]
        BY <1>1 DEF n
      <3>3. \A k \in 1 .. n : read[k] = d[k]
        BY <1>1, <1>10, <1>11, <3>1
      <3> QED
        BY <2>1, <2>3, <3>1, <3>2, <3>3
    <2>4. CASE n % 2 # 0
      <3>1. 2 * m = n + 1
        BY <1>1, <2>2, <2>4, RoundedUp
      <3>2. \A k \in 1 .. n + 1 : read[k] = IF k <= n THEN d[k] ELSE 0
        BY <1>10, <1>11, <3>1
      <3>3. Append(d, 0) = [k \in 1 .. n + 1 |-> IF k <= n THEN d[k] ELSE 0]
        <4>1. 0 \in 0 .. 15
          OBVIOUS
        <4> QED
          BY <1>1, <4>1, AppendIs DEF n
      <3> QED
        BY <2>1, <2>4, <3>1, <3>2, <3>3
    <2> QED
      BY <2>3, <2>4
  <1> HIDE DEF read
  <1> QED
    BY <1>9, <1>11 DEF BytesAreTheDigits, read

(* A colon is no digit.                                                    *)
LEMMA ColonIsNoHex == ~IsHex(":")
  <1>1. \A i \in 1 .. 16 : Upper[i] # ":" /\ Lower[i] # ":"
    BY UpperIs, LowerIs
  <1>2. DOMAIN Upper = 1 .. 16 /\ DOMAIN Lower = 1 .. 16
    BY UpperIs, LowerIs
  <1> QED
    BY <1>1, <1>2 DEF IsHex, ToSet

(* Where the digits stand among the colons of an address.                  *)
LEMMA PlacesOfDigits ==
  /\ \A k \in 1 .. 17 : k \in Colons <=> k % 3 = 0
  /\ \A k \in 1 .. 17 : k \in Colons => k - k \div 3 = (k - 1) - (k - 1) \div 3
  /\ \A k \in (1 .. 17) \ Colons :
       LET j == k - k \div 3
       IN j \in 1 .. 12 /\ j = (k - 1) - (k - 1) \div 3 + 1 /\ j + (j - 1) \div 2 = k
  /\ \A j \in 1 .. 12 : j + (j - 1) \div 2 \in (1 .. 17) \ Colons
  BY DEF Colons

(* remove_all_chars goes from character to character.                      *)
LEMMA RemovalUnfolds ==
  ASSUME NEW S, NEW str \in Seq(S), NEW c
  PROVE  \E f : /\ f[{}] = <<>>
                /\ \A k \in 1 .. Len(str) :
                     f[1 .. k] = IF str[k] = c THEN f[1 .. k - 1] ELSE Append(f[1 .. k - 1], str[k])
                /\ remove_all_chars(str, c) = f[1 .. Len(str)]
  <1> DEFINE n == Len(str)
             Keep(kept, x) == IF x = c THEN kept ELSE Append(kept, x)
             Iter(f) == [s \in SUBSET (1 .. n) |->
                           IF s = {} THEN <<>> ELSE Keep(f[s \ {Max(s)}], str[Max(s)])]
  <1>1. n \in Nat /\ DOMAIN str = 1 .. n /\ \A k \in 1 .. n : str[k] \in S
    BY LenProperties, ElementOfSeq
  <1>2. remove_all_chars(str, c) = (CHOOSE f : f = Iter(f))[1 .. n]
    BY <1>1 DEF remove_all_chars, FoldLeft, MapThenFoldSet
  <1>3. \E f : f = Iter(f)
    <2> DEFINE step == [p \in Seq(S) \X (1 .. n) |-> Keep(p[1], str[p[2]])]
    <2>1. ASSUME NEW kept \in Seq(S), NEW k \in 1 .. n PROVE Keep(kept, str[k]) \in Seq(S)
      BY <1>1, AppendProperties
    <2>2. step \in [Seq(S) \X (1 .. n) -> Seq(S)]
      <3> HIDE DEF Keep
      <3> QED
        BY <2>1
    <2>3. PICK f \in [SUBSET (1 .. n) -> Seq(S)] : IsIter(f, <<>>, step, n)
      <3>1. <<>> \in Seq(S)
        BY EmptySeq
      <3> HIDE DEF step, n
      <3> QED
        BY <1>1, <2>2, <3>1, FoldExists
    <2>4. ASSUME NEW s \in SUBSET (1 .. n), s # {}
          PROVE  step[<<f[s \ {Max(s)}], Max(s)>>] = Keep(f[s \ {Max(s)}], str[Max(s)])
      <3>1. Max(s) \in s /\ s \ {Max(s)} \in SUBSET (1 .. n)
        BY <1>1, <2>4, MaxOf
      <3>2. f[s \ {Max(s)}] \in Seq(S)
        BY <3>1
      <3> HIDE DEF Keep
      <3> QED
        BY <3>1, <3>2
    <2>5. f = Iter(f)
      <3> HIDE DEF step, Keep
      <3> QED
        BY <2>3, <2>4 DEF IsIter
    <2> QED
      BY <2>5
  <1>4. PICK f : f = Iter(f) /\ remove_all_chars(str, c) = f[1 .. n]
    <2> HIDE DEF Iter, n
    <2> QED
      BY <1>2, <1>3
  <1>5. f[{}] = <<>>
    BY <1>4
  <1>6. ASSUME NEW k \in 1 .. n PROVE f[1 .. k] = Keep(f[1 .. k - 1], str[k])
    <2>1. PICK s : s = 1 .. k
      OBVIOUS
    <2>2. s \in SUBSET (1 .. n) /\ s # {} /\ Max(s) = k /\ s \ {Max(s)} = 1 .. k - 1
      BY <1>1, <2>1, MaxOfPrefix
    <2>3. f[s] = Keep(f[s \ {Max(s)}], str[Max(s)])
      BY <1>4, <2>2
    <2> HIDE DEF Keep
    <2> QED
      BY <2>1, <2>2, <2>3
  <1> QED
    BY <1>4, <1>5, <1>6

NoOther(str, k) == \A i \in (1 .. k) \ Colons : str[i] # ":"

Digits(k) == k - k \div 3

\* What may be left of the first k characters of a string with colons at the
\* right places: a digit for each other place, if there are no more colons.
Left(S, str, k) ==
  {r \in Seq(S) :
     /\ Len(r) <= Digits(k)
     /\ Len(r) = Digits(k) <=> NoOther(str, k)
     /\ NoOther(str, k) => \A j \in 1 .. Digits(k) : r[j] = str[j + (j - 1) \div 2]}

(* One step of the loop of remove_all_chars.                               *)
LEMMA LeftNext ==
  ASSUME NEW S, NEW str \in Seq(S), \A i \in Colons : str[i] = ":",
         Len(str) = 17, NEW k \in 1 .. 17, NEW r \in Left(S, str, k - 1)
  PROVE  (IF str[k] = ":" THEN r ELSE Append(r, str[k])) \in Left(S, str, k)
  <1>1. /\ r \in Seq(S) /\ Len(r) <= Digits(k - 1)
        /\ Len(r) = Digits(k - 1) <=> NoOther(str, k - 1)
        /\ NoOther(str, k - 1) => \A j \in 1 .. Digits(k - 1) : r[j] = str[j + (j - 1) \div 2]
    BY DEF Left
  <1>2. Len(r) \in Nat /\ Digits(k) \in Nat /\ Digits(k - 1) \in Nat
    BY <1>1, LenProperties DEF Digits
  <1>3. CASE k \in Colons
    <2>1. str[k] = ":" /\ Digits(k) = Digits(k - 1)
      BY <1>3, PlacesOfDigits DEF Digits
    <2>2. NoOther(str, k) <=> NoOther(str, k - 1)
      BY <1>3 DEF NoOther
    <2> QED
      BY <1>1, <2>1, <2>2 DEF Left
  <1>4. CASE k \notin Colons
    <2>1. Digits(k) = Digits(k - 1) + 1 /\ Digits(k) + (Digits(k) - 1) \div 2 = k
      BY <1>4, PlacesOfDigits DEF Digits
    <2>2. NoOther(str, k) <=> NoOther(str, k - 1) /\ str[k] # ":"
      <3>1. (1 .. k) \ Colons = ((1 .. k - 1) \ Colons) \cup {k}
        BY <1>4
      <3> QED
        BY <3>1 DEF NoOther
    <2>3. CASE str[k] = ":"
      <3>1. ~NoOther(str, k) /\ Len(r) < Digits(k)
        BY <1>1, <1>2, <2>1, <2>2, <2>3
      <3> QED
        BY <1>1, <1>2, <2>3, <3>1 DEF Left
    <2>4. CASE str[k] # ":"
      <3> DEFINE a == Append(r, str[k])
      <3>1. str[k] \in S
        BY ElementOfSeq
      <3>2. /\ a \in Seq(S) /\ Len(a) = Len(r) + 1
            /\ \A j \in 1 .. Len(r) : a[j] = r[j]
            /\ a[Len(r) + 1] = str[k]
        BY <1>1, <3>1, AppendProperties
      <3> HIDE DEF a
      <3>3. Len(a) <= Digits(k) /\ (Len(a) = Digits(k) <=> NoOther(str, k))
        BY SMTT(20), <1>1, <1>2, <2>1, <2>2, <2>4, <3>2
      <3>4. ASSUME NoOther(str, k), NEW j \in 1 .. Digits(k)
            PROVE  a[j] = str[j + (j - 1) \div 2]
        <4>1. Len(r) = Digits(k - 1) /\ \A i \in 1 .. Digits(k - 1) : r[i] = str[i + (i - 1) \div 2]
          BY <1>1, <2>2, <3>4
        <4>2. CASE j = Digits(k)
          BY <2>1, <3>2, <4>1, <4>2
        <4>3. CASE j # Digits(k)
          <5>1. j \in 1 .. Digits(k - 1)
            BY <1>2, <2>1, <4>3
          <5> QED
            BY <3>2, <4>1, <5>1
        <4> QED
          BY <4>2, <4>3
      <3> QED
        BY <2>4, <3>2, <3>3, <3>4 DEF Left, a
    <2> QED
      BY <2>3, <2>4
  <1> QED
    BY <1>3, <1>4

(* The whole loop leaves the digits in order.                              *)
LEMMA ColonsRemoved ==
  ASSUME NEW S, NEW str \in Seq(S), Len(str) = 17, \A i \in Colons : str[i] = ":"
  PROVE  LET left == remove_all_chars(str, ":")
         IN /\ left \in Seq(S)
            /\ Len(left) = 12 <=> NoOther(str, 17)
            /\ NoOther(str, 17) => \A j \in 1 .. 12 : left[j] = str[j + (j - 1) \div 2]
  <1>1. PICK f : /\ f[{}] = <<>>
                 /\ \A k \in 1 .. 17 :
                      f[1 .. k] = IF str[k] = ":" THEN f[1 .. k - 1] ELSE Append(f[1 .. k - 1], str[k])
                 /\ remove_all_chars(str, ":") = f[1 .. 17]
    <2>1. PICK n : n = Len(str)
      OBVIOUS
    <2>2. \E f : /\ f[{}] = <<>>
                 /\ \A k \in 1 .. n :
                      f[1 .. k] = IF str[k] = ":" THEN f[1 .. k - 1] ELSE Append(f[1 .. k - 1], str[k])
                 /\ remove_all_chars(str, ":") = f[1 .. n]
      BY ZenonT(60), <2>1, RemovalUnfolds
    <2>3. n = 17
      BY <2>1
    <2> QED
      BY <2>2, <2>3
  <1> DEFINE J == [k \in 0 .. 17 |-> Left(S, str, k)]
  <1>2. f[{}] \in J[0]
    <2>1. <<>> \in Seq(S) /\ Len(<<>>) = 0 /\ Digits(0) = 0 /\ NoOther(str, 0)
      BY EmptySeq DEF Digits, NoOther
    <2>2. <<>> \in Left(S, str, 0)
      BY <2>1 DEF Left
    <2> QED
      BY <1>1, <2>2
  <1>3. ASSUME NEW k \in 1 .. 17, f[1 .. k - 1] \in J[k - 1] PROVE f[1 .. k] \in J[k]
    <2>1. f[1 .. k - 1] \in Left(S, str, k - 1)
      BY <1>3
    <2> DEFINE r == f[1 .. k - 1]
    <2>2. f[1 .. k] = IF str[k] = ":" THEN r ELSE Append(r, str[k])
      BY <1>1
    <2> HIDE DEF r
    <2>3. r \in Left(S, str, k - 1)
      BY <2>1 DEF r
    <2>4. f[1 .. k] \in Left(S, str, k)
      BY SMTT(20), <2>2, <2>3, LeftNext
    <2> QED
      BY <2>4
  <1>4. f[1 .. 17] \in J[17]
    <2> HIDE DEF J
    <2> QED
      BY <1>2, <1>3, FoldInduction
  <1>5. remove_all_chars(str, ":") \in Left(S, str, 17)
    BY <1>1, <1>4
  <1>6. Digits(17) = 12
    BY DEF Digits
  <1> QED
    BY <1>5, <1>6 DEF Left

IsAddress(str) ==
  \/ Len(str) = 12 /\ \A i \in 1 .. 12 : IsHex(str[i])
  \/ Len(str) = 17 /\ \A i \in 1 .. 17 : IF i \in Colons THEN str[i] = ":" ELSE IsHex(str[i])

(* utilsConvertStrToBdAddr accepts the addresses and nothing else.         *)
LEMMA ReadsAddresses ==
  ASSUME NEW S, NEW str \in Seq(S)
  PROVE  utilsConvertStrToBdAddr(str).status = "OK" <=> IsAddress(str)
  <1> DEFINE left == Stripped(str)
  <1>1. utilsConvertStrToBdAddr(str).status = "OK" <=> Len(str) \in {12, 17} /\ Accepted(left)
    BY DEF utilsConvertStrToBdAddr
  <1>2. CASE Len(str) = 12
    <2>1. left = str
      BY <1>2 DEF Stripped
    <2> QED
      BY <1>1, <1>2, <2>1 DEF Accepted, IsAddress
  <1>3. CASE Len(str) = 17 /\ \A i \in Colons : str[i] = ":"
    <2>1. left = remove_all_chars(str, ":")
      BY <1>3 DEF Stripped
    <2>2. /\ Len(left) = 12 <=> NoOther(str, 17)
          /\ NoOther(str, 17) => \A j \in 1 .. 12 : left[j] = str[j + (j - 1) \div 2]
      BY ZenonT(60), <1>3, <2>1, ColonsRemoved
    <2> HIDE DEF left
    <2>3. ASSUME Accepted(left) PROVE \A i \in (1 .. 17) \ Colons : IsHex(str[i])
      <3>1. NoOther(str, 17) /\ \A j \in 1 .. 12 : IsHex(str[j + (j - 1) \div 2])
        BY <2>2, <2>3 DEF Accepted
      <3>2. TAKE i \in (1 .. 17) \ Colons
      <3>3. PICK j : j = i - i \div 3
        OBVIOUS
      <3>4. j \in 1 .. 12 /\ j + (j - 1) \div 2 = i
        BY <3>3, PlacesOfDigits
      <3> QED
        BY <3>1, <3>4
    <2>4. ASSUME \A i \in (1 .. 17) \ Colons : IsHex(str[i]) PROVE Accepted(left)
      <3>1. NoOther(str, 17)
        BY <2>4, ColonIsNoHex DEF NoOther
      <3>2. \A j \in 1 .. 12 : IsHex(str[j + (j - 1) \div 2])
        BY <2>4, PlacesOfDigits
      <3> QED
        BY <2>2, <3>1, <3>2 DEF Accepted
    <2>5. IsAddress(str) <=> \A i \in (1 .. 17) \ Colons : IsHex(str[i])
      BY <1>3 DEF IsAddress
    <2> QED
      BY <1>1, <1>3, <2>3, <2>4, <2>5
  <1>4. CASE Len(str) = 17 /\ ~ \A i \in Colons : str[i] = ":"
    <2>1. left = str
      BY <1>4 DEF Stripped
    <2>2. ~Accepted(left)
      <3> HIDE DEF left
      <3>1. Len(left) = 17
        BY <1>4, <2>1
      <3> QED
        BY <3>1 DEF Accepted
    <2>3. ~IsAddress(str)
      <3>1. Colons \subseteq 1 .. 17
        BY DEF Colons
      <3> QED
        BY <1>4, <3>1 DEF IsAddress
    <2> QED
      BY <1>1, <2>2, <2>3
  <1>5. CASE Len(str) \notin {12, 17}
    BY <1>1, <1>5 DEF IsAddress
  <1> QED
    BY <1>2, <1>3, <1>4, <1>5

(* What is printed for an address is read as that address, and what the    *)
(* reading has left of the string is read once more as the same.           *)
LEMMA AddressReturns ==
  ASSUME NEW addr \in [1 .. 6 -> 0 .. 255]
  PROVE  LET first == utilsConvertStrToBdAddr(utilsConvertBdAddrToStr(addr))
         IN first.status = "OK" /\ first.addr = addr /\ utilsConvertStrToBdAddr(first.str) = first
  <1> DEFINE str == utilsConvertBdAddrToStr(addr)
             left == Stripped(str)
             Byte(i) == addr[(i + 2) \div 3]
  <1>1. ASSUME NEW i \in 1 .. 17
        PROVE  /\ Byte(i) \in 0 .. 255 /\ Byte(i) \div 16 \in 0 .. 15 /\ Byte(i) % 16 \in 0 .. 15
               /\ i % 3 = 1 => str[i] = Upper[(Byte(i) \div 16) + 1]
               /\ i % 3 = 2 => str[i] = Upper[(Byte(i) % 16) + 1]
               /\ i % 3 = 0 => str[i] = ":"
               /\ i % 3 \in {0, 1, 2}
    <2>1. (i + 2) \div 3 \in 1 .. 6 /\ i % 3 \in {0, 1, 2}
      OBVIOUS
    <2>2. Byte(i) \in 0 .. 255
      BY <2>1
    <2>3. str[i] = CASE i % 3 = 1 -> Upper[(Byte(i) \div 16) + 1]
                     [] i % 3 = 2 -> Upper[(Byte(i) % 16) + 1]
                     [] OTHER -> ":"
      BY DEF utilsConvertBdAddrToStr
    <2> HIDE DEF Byte, str
    <2>4. Byte(i) \div 16 \in 0 .. 15 /\ Byte(i) % 16 \in 0 .. 15
      BY <2>2
    <2> QED
      BY <2>1, <2>2, <2>3, <2>4
  <1>2. str \in Seq(Chars) /\ Len(str) = 17
    <2>1. \A i \in 1 .. 16 : Upper[i] \in Chars
      BY UpperIs DEF Chars
    <2>2. \A n \in 0 .. 15 : Upper[n + 1] \in Chars
      BY <2>1
    <2>3. ":" \in Chars
      BY DEF Chars
    <2>4. \A i \in 1 .. 17 : str[i] \in Chars
      <3> HIDE DEF str, Byte
      <3> QED
        BY <1>1, <2>2, <2>3
    <2>5. str \in [1 .. 17 -> Chars]
      <3>1. DOMAIN str = 1 .. 17 /\ str = [i \in 1 .. 17 |-> str[i]]
        BY DEF utilsConvertBdAddrToStr
      <3> HIDE DEF str
      <3> QED
        BY <2>4, <3>1
    <2> HIDE DEF str
    <2> QED
      BY <2>5, LenOfFunction
  <1> HIDE DEF str
  <1>3. \A i \in Colons : str[i] = ":"
    <2>1. \A i \in Colons : i \in 1 .. 17 /\ i % 3 = 0
      BY PlacesOfDigits DEF Colons
    <2> HIDE DEF Byte
    <2> QED
      BY ZenonT(30), <1>1, <2>1
  <1>4. \A i \in (1 .. 17) \ Colons : IsHex(str[i]) /\ str[i] # ":"
    <2>1. ASSUME NEW i \in (1 .. 17) \ Colons PROVE IsHex(str[i]) /\ str[i] # ":"
      <3>1. i % 3 \in {1, 2}
        BY <1>1, PlacesOfDigits
      <3>2. PICK n \in 0 .. 15 : str[i] = Upper[n + 1]
        <4> HIDE DEF Byte
        <4> QED
          BY ZenonT(60), <1>1, <3>1
      <3> QED
        BY <3>2, HexOfUpper
    <2> QED
      BY <2>1
  <1>5. left = remove_all_chars(str, ":")
    BY <1>2, <1>3 DEF Stripped
  <1>6. Len(left) = 12 /\ \A j \in 1 .. 12 : left[j] = str[j + (j - 1) \div 2]
    <2>1. NoOther(str, 17)
      BY <1>4 DEF NoOther
    <2> QED
      BY SMTT(40), <1>2, <1>3, <1>5, <2>1, ColonsRemoved
  <1> HIDE DEF left
  <1>7. Accepted(left)
    BY <1>4, <1>6, PlacesOfDigits DEF Accepted
  <1>8. utilsConvertHexStrToByteArray(left) = addr
    <2>1. HexLength(left) = 12 /\ Bytes(left) = 6
      BY <1>6 DEF HexLength, Bytes
    <2>2. ASSUME NEW b \in 1 .. 6
          PROVE  16 * utilsConvertCharToHex(left[2 * b - 1])
                   + (IF 2 * b <= HexLength(left) THEN utilsConvertCharToHex(left[2 * b]) ELSE 0) = addr[b]
      <3>1. addr[b] \in 0 .. 255 /\ addr[b] \div 16 \in 0 .. 15 /\ addr[b] % 16 \in 0 .. 15
            /\ (16 * (addr[b] \div 16)) + (addr[b] % 16) = addr[b]
        <4>1. PICK a : a = addr[b]
          OBVIOUS
        <4>2. a \in 0 .. 255
          BY <4>1
        <4>3. a \div 16 \in 0 .. 15 /\ a % 16 \in 0 .. 15 /\ (16 * (a \div 16)) + (a % 16) = a
          BY <4>2
        <4> QED
          BY <4>1, <4>2, <4>3
      <3>2. /\ 2 * b - 1 \in 1 .. 12 /\ 2 * b \in 1 .. 12
            /\ (2 * b - 1) + (2 * b - 1 - 1) \div 2 = 3 * b - 2
            /\ 2 * b + (2 * b - 1) \div 2 = 3 * b - 1
            /\ 3 * b - 2 \in 1 .. 17 /\ (3 * b - 2) % 3 = 1 /\ (3 * b - 2 + 2) \div 3 = b
            /\ 3 * b - 1 \in 1 .. 17 /\ (3 * b - 1) % 3 = 2 /\ (3 * b - 1 + 2) \div 3 = b
        OBVIOUS
      <3>3. left[2 * b - 1] = str[3 * b - 2] /\ left[2 * b] = str[3 * b - 1]
        BY <1>6, <3>2
      <3>4. str[3 * b - 2] = Upper[(addr[b] \div 16) + 1] /\ str[3 * b - 1] = Upper[(addr[b] % 16) + 1]
        BY <1>1, <3>2
      <3>5. /\ utilsConvertCharToHex(left[2 * b - 1]) = addr[b] \div 16
            /\ utilsConvertCharToHex(left[2 * b]) = addr[b] % 16
        BY <3>1, <3>3, <3>4, HexOfUpper
      <3>6. 2 * b <= HexLength(left)
        BY <2>1
      <3> QED
        BY <3>1, <3>5, <3>6
    <2>3. utilsConvertHexStrToByteArray(left) = [b \in 1 .. 6 |-> addr[b]]
      BY <2>1, <2>2 DEF utilsConvertHexStrToByteArray
    <2> QED
      BY <2>3
  <1>9. /\ utilsConvertStrToBdAddr(str) = [status |-> "OK", str |-> left, addr |-> addr]
        /\ utilsConvertStrToBdAddr(left) = [status |-> "OK", str |-> left, addr |-> addr]
    <2>1. Stripped(str) = left /\ Stripped(left) = left
      BY <1>6 DEF left, Stripped
    <2> QED
      BY <1>2, <1>6, <1>7, <1>8, <2>1 DEF utilsConvertStrToBdAddr
  <1> QED
    BY <1>9 DEF str

(* utilsConvertStrToBdAddr reads what utilsConvertBdAddrToStr prints, for  *)
(* every address; and of all strings it accepts the two forms of its       *)
(* message only.                                                           *)
THEOREM AddressesOnly ==
  ASSUME NEW S,
         \/ input \in [of : {"address"}, addr : [1 .. 6 -> 0 .. 255]]
         \/ input \in [of : {"string"}, str : Seq(S)]
  PROVE  AddressesAndNothingElse
  <1>1. CASE input \in [of : {"address"}, addr : [1 .. 6 -> 0 .. 255]]
    <2>1. input.of = "address" /\ input.addr \in [1 .. 6 -> 0 .. 255]
      BY <1>1
    <2> QED
      BY <2>1, AddressReturns DEF AddressesAndNothingElse
  <1>2. CASE input \in [of : {"string"}, str : Seq(S)]
    <2>1. input.of = "string" /\ input.str \in Seq(S)
      BY <1>2
    <2> QED
      BY <2>1, ReadsAddresses DEF AddressesAndNothingElse, IsAddress
  <1> QED
    BY <1>1, <1>2
=============================================================================
