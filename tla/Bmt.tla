--------------------------------- MODULE Bmt ---------------------------------
(***************************************************************************)
(* pkg/bmt: the concurrent chunk hasher.  A hasher borrows a tree from the *)
(* pool; Write starts one goroutine per full section, Hash one more for    *)
(* the last section.  Each climbs from its leaf: of the two that meet in a *)
(* node, the first to toggle it stops and the second hashes both children  *)
(* and goes on.  The goroutine of the last section also fills in the zero  *)
(* subtrees to its right, and climbs on with nothing in hand when it was   *)
(* first.  The tree is handed on without being cleaned: buffer, children   *)
(* and toggles are as the last chunk left them.                            *)
(*                                                                         *)
(* One tree of the pool is modelled; trees share nothing.  Toggling a node *)
(* is one step, hashing it and assigning the hash to the parent another.   *)
(* Keccak never returns an error, so the error channel is left out.        *)
(***************************************************************************)
EXTENDS Integers, Sequences, FiniteSets

CONSTANTS
  SegmentCount,   \* segments of one byte in a chunk (128 of 32 bytes)
  Writes,         \* numbers of bytes one call of Write may be given
  Spans,          \* spans that may be set
  MaxChunks       \* bound: chunks hashed

VARIABLES
  phase, span, size, pos,        \* where the caller is; fields of its hasher
  buffer, left, right, toggled,  \* the tree
  routines,   \* running goroutines, by chunk, section and whether it is the last
  answer,     \* what Hash returned last
  chunks      \* chunks begun, each with a new hasher

treeVars == <<buffer, left, right, toggled>>
bmtVars == <<phase, span, size, pos, treeVars, routines, answer, chunks>>

Sections == SegmentCount \div 2
Inner == 1 .. Sections - 1          \* inner nodes; node 1 is the root, 0 is nil
Leaf(i) == Sections + i
Parent(n) == n \div 2
IsLeft(n) == n % 2 = 0
Nil == <<>>

\* Byte j of the k-th chunk; never the padding byte.
Byte(k, j) == 10 * k + j

\* The base hash of two parts: the pair, written as a flat sequence.
doHash(l, r) == <<-1>> \o l \o r

RECURSIVE ZeroHash(_)
ZeroHash(level) == IF level = 0 THEN <<0>> ELSE doHash(ZeroHash(level - 1), ZeroHash(level - 1))

RECURSIVE DepthOf(_)
DepthOf(count) == IF count <= 2 THEN 1 ELSE 1 + DepthOf(count \div 2)

Init ==
  /\ phase = "free" /\ span = 0 /\ size = 0 /\ pos = 0
  /\ buffer = [j \in 0 .. SegmentCount - 1 |-> 0]
  /\ left = [n \in Inner |-> Nil] /\ right = [n \in Inner |-> Nil]
  /\ toggled = [n \in Inner |-> FALSE]
  /\ routines = <<>> /\ answer = <<>> /\ chunks = 0

-----------------------------------------------------------------------------
(* The calls of the hasher's user.                                         *)

Get ==
  /\ phase = "free" /\ chunks < MaxChunks
  /\ chunks' = chunks + 1
  /\ phase' = "open" /\ span' = 0 /\ size' = 0 /\ pos' = 0
  /\ UNCHANGED <<treeVars, routines, answer>>

SetHeader(v) ==
  /\ phase = "open" /\ span = 0 /\ span' = v
  /\ UNCHANGED <<phase, size, pos, treeVars, routines, answer, chunks>>

\* go processSection(i, final) for every i of sections.
Start(sections, final) ==
  LET ids == {<<chunks, i, final>> : i \in sections}
  IN routines' = [g \in DOMAIN routines \cup ids |->
       IF g \in ids THEN [node |-> Leaf(g[2]), level |-> 1, s |-> Nil, at |-> "hash"]
       ELSE routines[g]]

End(g) == routines' = [f \in DOMAIN routines \ {g} |-> routines[f]]

Becomes(g, r) == routines' = [routines EXCEPT ![g] = r]

\* A full chunk keeps its last section for Hash.
LastSection(newSize, full) == IF full THEN (newSize \div 2) - 1 ELSE newSize \div 2

\* Every caller sets the span first.
Write(n) ==
  LET room == SegmentCount - size
      l == IF n > room THEN room ELSE n
      to == LastSection(size + l, l = room)
  IN /\ phase = "open" /\ span # 0
     /\ buffer' = [j \in DOMAIN buffer |->
                     IF j >= size /\ j < size + l THEN Byte(chunks, j + 1) ELSE buffer[j]]
     /\ size' = size + l /\ pos' = to
     /\ Start(size \div 2 .. to - 1, FALSE)
     /\ UNCHANGED <<phase, span, left, right, toggled, answer, chunks>>

\* Hash zeroes the rest of the open section and starts its goroutine; an empty
\* chunk is answered from the table of zero hashes.
Hash ==
  /\ phase = "open" /\ span # 0
  /\ IF size = 0
     THEN /\ phase' = "answered" /\ answer' = <<span, ZeroHash(DepthOf(SegmentCount))>>
          /\ UNCHANGED <<buffer, routines>>
     ELSE /\ phase' = "asked"
          /\ buffer' = [j \in DOMAIN buffer |-> IF j >= size /\ j < size + 2 THEN 0 ELSE buffer[j]]
          /\ Start({pos}, TRUE)
          /\ UNCHANGED answer
  /\ UNCHANGED <<span, size, pos, left, right, toggled, chunks>>

\* A goroutine that reached the root with a hash offers it on the result channel.
Answer(g) ==
  LET r == routines[g]
  IN /\ phase = "asked" /\ r.at = "root" /\ r.s # Nil /\ g[1] = chunks
     /\ End(g)
     /\ phase' = "answered" /\ answer' = <<span, r.s>>
     /\ UNCHANGED <<span, size, pos, treeVars, chunks>>

Put ==
  /\ phase = "answered" /\ phase' = "free"
  /\ UNCHANGED <<span, size, pos, treeVars, routines, answer, chunks>>

-----------------------------------------------------------------------------
(* The goroutines: processSection, then writeNode or writeFinalNode.       *)

callerVars == <<phase, span, size, pos, answer, chunks>>

\* doHash of what the node of the goroutine covers.
HashOf(n) ==
  IF n >= Sections
  THEN LET i == n - Sections IN doHash(<<buffer[2 * i]>>, <<buffer[2 * i + 1]>>)
  ELSE doHash(left[n], right[n])

Final(g) == g[3]

\* The goroutine leaves its node with hash s (Nil when it came first) and
\* assigns the child of the parent; the last one also zeroes the right side.
Climb(g, s) ==
  LET r == routines[g]
      p == Parent(r.node)
  IN /\ Becomes(g, [r EXCEPT !.s = s, !.at = IF p = 0 THEN "root" ELSE "toggle"])
     /\ IF p = 0 THEN UNCHANGED <<left, right>>
        ELSE IF IsLeft(r.node)
        THEN /\ left' = IF s = Nil THEN left ELSE [left EXCEPT ![p] = s]
             /\ right' = IF Final(g) THEN [right EXCEPT ![p] = ZeroHash(r.level)] ELSE right
        ELSE /\ right' = IF s = Nil THEN right ELSE [right EXCEPT ![p] = s]
             /\ UNCHANGED left
     /\ UNCHANGED <<callerVars, buffer, toggled>>

ClimbWithHash(g) == routines[g].at = "hash" /\ Climb(g, HashOf(routines[g].node))

ClimbEmpty(g) == routines[g].at = "empty" /\ Climb(g, Nil)

\* A last goroutine on the left with a hash is alone in this node and does not
\* toggle; one on the right without a hash leaves the node to the two others.
Alone(g) == Final(g) /\ IsLeft(routines[g].node) /\ routines[g].s # Nil

\* Mutant: the goroutine of the last section toggles every node it passes.
NeverBystander(g) == FALSE

Bystander(g) == Final(g) /\ ~IsLeft(routines[g].node) /\ routines[g].s = Nil

\* At the parent of the node it left: the first of two stops (the last section's
\* goroutine climbs on with nothing), the second hashes.
Toggle(g) ==
  LET r == routines[g]
      p == Parent(r.node)
      first == Bystander(g) \/ (~Alone(g) /\ ~toggled[p])
      there == [r EXCEPT !.node = p, !.level = @ + 1]
  IN /\ r.at = "toggle"
     /\ IF Alone(g) \/ Bystander(g) THEN UNCHANGED toggled
        ELSE toggled' = [toggled EXCEPT ![p] = ~@]
     /\ \/ ~first /\ Becomes(g, [there EXCEPT !.at = "hash"])
        \/ first /\ Final(g) /\ Becomes(g, [there EXCEPT !.at = "empty"])
        \/ first /\ ~Final(g) /\ End(g)
     /\ UNCHANGED <<callerVars, buffer, left, right>>

\* The goroutine of the last section ends at the root with nothing to offer.
EndEmpty(g) ==
  /\ routines[g].at = "root" /\ routines[g].s = Nil
  /\ End(g)
  /\ UNCHANGED <<callerVars, treeVars>>

RoutineStep ==
  \E g \in DOMAIN routines : ClimbWithHash(g) \/ ClimbEmpty(g) \/ Toggle(g) \/ EndEmpty(g)

Receive == \E g \in DOMAIN routines : Answer(g)

Next ==
  \/ Get \/ Hash \/ Receive \/ Put
  \/ \E v \in Spans : SetHeader(v)
  \/ \E n \in Writes : Write(n)
  \/ RoutineStep

\* The Go scheduler runs every goroutine that can run.
Fairness == WF_bmtVars(RoutineStep) /\ WF_bmtVars(Receive)

Spec == Init /\ [][Next]_bmtVars /\ Fairness

-----------------------------------------------------------------------------
(* The chunk as the caller sees it: the written part of the shared buffer. *)
Reference == INSTANCE RefHasher
               WITH data <- [j \in 1 .. size |-> buffer[j - 1]]

\* The concurrent hasher implements the reference hasher: whatever the order
\* in which the goroutines of a chunk meet in the nodes, and whatever earlier
\* chunks left in the buffer, the children and the toggles of the tree, Hash
\* answers, and answers with the reference hash of exactly the bytes written
\* and the span set since the tree was taken.
ImplementsReference == Reference!Spec

=============================================================================
