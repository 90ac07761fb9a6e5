----------------------------- MODULE FlowProofs -----------------------------
(***************************************************************************)
(* Proofs about the flow definitions, the tables drawn from them and the   *)
(* checks of validate.rs (Flows, FlowValidation).                          *)
(***************************************************************************)
EXTENDS MCIdentity, FiniteSetTheorems, SequenceTheorems, WellFoundedInduction, TLAPS

-----------------------------------------------------------------------------
(* FlowValidation: find_cycle.                                             *)

CycleFrames == [state : States, child : Nat \ {0}]

(* The gray states are the path, each leads to the next, and the children  *)
(* that a frame has passed are black or further down the path.             *)
PathParts(n, c, f, p, m) ==
  /\ \A i \in 1 .. m : f[i].state = p[i]
  /\ \A i, j \in 1 .. m : p[i] = p[j] => i = j
  /\ \A s \in States : c[s] = "gray" <=> \E i \in 1 .. m : p[i] = s
  /\ \A i \in 1 .. m - 1 : \E j \in 1 .. Len(n[p[i]]) : n[p[i]][j] = p[i + 1]
  /\ \A i \in 1 .. m : \A j \in 1 .. Len(n[p[i]]) :
       j < f[i].child => c[n[p[i]][j]] = "black" \/ \E k \in i + 1 .. m : p[k] = n[p[i]][j]
PathInv(n, c, f, p) == Len(f) = Len(p) /\ PathParts(n, c, f, p, Len(p))

(* The black states have an order in which every edge leads down, and lead *)
(* to black ones only.                                                     *)
Ordered(n, c, order, bound) ==
  \A b \in States : c[b] = "black" =>
    /\ order[b] < bound
    /\ \A j \in 1 .. Len(n[b]) : c[n[b][j]] = "black" /\ order[n[b][j]] < order[b]
Finished(n, c) == \E order \in [States -> Nat] : \E bound \in Nat : Ordered(n, c, order, bound)

CycleTypes(n, c, f, p) ==
  /\ n \in [States -> Seq(States)]
  /\ c \in [States -> {"white", "gray", "black"}]
  /\ f \in Seq(CycleFrames)
  /\ p \in Seq(States)

(* The inductive invariant of find_cycle. *)
CycleInv ==
  /\ CycleTypes(table.next, color, frames, path)
  /\ Finished(table.next, color)
  /\ cycle = Running => PathInv(table.next, color, frames, path)
  /\ cycle # Running => IsCycle(cycle)

(* The frames below the top one, and the top one at its next child. *)
LEMMA AdvancedIs ==
  ASSUME NEW f \in Seq(CycleFrames), f # <<>>
  PROVE  /\ Len(f) \in Nat \ {0} /\ f[Len(f)] \in CycleFrames
         /\ SubSeq(f, 1, Len(f) - 1) \in Seq(CycleFrames)
         /\ Len(SubSeq(f, 1, Len(f) - 1)) = Len(f) - 1
         /\ \A i \in 1 .. Len(f) - 1 : SubSeq(f, 1, Len(f) - 1)[i] = f[i]
         /\ \A x \in CycleFrames :
              /\ Append(SubSeq(f, 1, Len(f) - 1), x) \in Seq(CycleFrames)
              /\ Len(Append(SubSeq(f, 1, Len(f) - 1), x)) = Len(f)
              /\ Append(SubSeq(f, 1, Len(f) - 1), x)[Len(f)] = x
              /\ \A i \in 1 .. Len(f) - 1 : Append(SubSeq(f, 1, Len(f) - 1), x)[i] = f[i]
  <1>1. PICK k \in Nat : k = Len(f)
    OBVIOUS
  <1>2. k # 0
    BY <1>1
  <1>3. \A i \in 1 .. k : f[i] \in CycleFrames
    BY <1>1
  <1>4. PICK b : b = SubSeq(f, 1, k - 1)
    OBVIOUS
  <1>5. b \in Seq(CycleFrames) /\ Len(b) = k - 1 /\ \A i \in 1 .. k - 1 : b[i] = f[i]
    <2>1. \A i \in 1 .. k - 1 : f[i] \in CycleFrames
      BY <1>3
    <2>2. /\ b \in Seq(CycleFrames)
          /\ Len(b) = IF 1 <= k - 1 THEN k - 1 - 1 + 1 ELSE 0
          /\ \A i \in 1 .. k - 1 - 1 + 1 : b[i] = f[1 + i - 1]
      BY <1>4, <2>1, SubSeqProperties
    <2>3. Len(b) = k - 1
      BY <1>2, <2>2
    <2> QED
      BY <2>2, <2>3
  <1>6. ASSUME NEW x \in CycleFrames
        PROVE  /\ Append(b, x) \in Seq(CycleFrames) /\ Len(Append(b, x)) = k
               /\ Append(b, x)[k] = x /\ \A i \in 1 .. k - 1 : Append(b, x)[i] = f[i]
    BY <1>2, <1>5
  <1> QED
    BY <1>1, <1>2, <1>3, <1>4, <1>5, <1>6

(* The search starts on any table with every state white. *)
LEMMA CycleInitInv ==
  ASSUME table.next \in [States -> Seq(States)], color = [s \in States |-> "white"],
         frames = <<>>, path = <<>>, cycle = Running
  PROVE  CycleInv
  <1>1. CycleTypes(table.next, color, frames, path)
    BY DEF CycleTypes
  <1>2. PICK order : order = [s \in States |-> 0]
    OBVIOUS
  <1>3. order \in [States -> Nat] /\ Ordered(table.next, color, order, 0)
    BY <1>2 DEF Ordered
  <1>4. Finished(table.next, color)
    BY <1>3 DEF Finished
  <1>5. Len(frames) = 0 /\ Len(path) = 0
    OBVIOUS
  <1>6. PathInv(table.next, color, frames, path)
    BY <1>5 DEF PathInv, PathParts
  <1> QED
    BY <1>1, <1>4, <1>6 DEF CycleInv

(* A state that is not black any other way keeps the order. *)
LEMMA GrayKeepsOrder ==
  ASSUME NEW n \in [States -> Seq(States)], NEW c \in [States -> {"white", "gray", "black"}],
         Finished(n, c), NEW s \in States, c[s] = "white", NEW d, d = [c EXCEPT ![s] = "gray"]
  PROVE  Finished(n, d)
  <1>1. PICK order \in [States -> Nat] : \E bound \in Nat : Ordered(n, c, order, bound)
    BY DEF Finished
  <1>2. PICK bound \in Nat : Ordered(n, c, order, bound)
    BY <1>1
  <1>3. \A b \in States : d[b] = "black" <=> c[b] = "black"
    OBVIOUS
  <1>4. \A b \in States : \A j \in 1 .. Len(n[b]) : n[b][j] \in States
    OBVIOUS
  <1>5. Ordered(n, d, order, bound)
    BY <1>2, <1>3, <1>4 DEF Ordered
  <1> QED
    BY <1>5 DEF Finished

(* Starting the search at a white state keeps the invariant. *)
LEMMA StartKeeps ==
  ASSUME CycleInv, NEW s \in States, CycleStart(s)
  PROVE  CycleInv'
  <1>1. PICK n : n = table.next
    OBVIOUS
  <1>2. /\ cycle = Running /\ cycle' = Running /\ frames = <<>> /\ color[s] = "white"
        /\ frames' = <<[state |-> s, child |-> 1]>> /\ path' = <<s>>
        /\ color' = [color EXCEPT ![s] = "gray"] /\ table' = table
    BY DEF CycleStart
  <1>3. CycleTypes(n, color, frames, path) /\ Finished(n, color) /\ PathInv(n, color, frames, path)
    BY <1>1, <1>2 DEF CycleInv
  <1>4. n \in [States -> Seq(States)] /\ color \in [States -> {"white", "gray", "black"}]
    BY <1>3 DEF CycleTypes
  <1>5. CycleTypes(n, color', frames', path')
    BY <1>2, <1>4 DEF CycleTypes, CycleFrames
  <1>6. Finished(n, color')
    BY <1>2, <1>3, <1>4, GrayKeepsOrder
  <1>7. Len(frames) = 0
    BY <1>2
  <1>8. \A t \in States : color[t] # "gray"
    BY <1>3, <1>7 DEF PathInv, PathParts
  <1>9. /\ Len(frames') = 1 /\ Len(path') = 1 /\ path'[1] = s
        /\ frames'[1].state = s /\ frames'[1].child = 1
    BY <1>2
  <1>10. \A t \in States : color'[t] = "gray" <=> t = s
    BY <1>2, <1>4, <1>8
  <1>11. PathInv(n, color', frames', path')
    BY <1>9, <1>10 DEF PathInv, PathParts
  <1> QED
    BY <1>1, <1>2, <1>5, <1>6, <1>11 DEF CycleInv
(* What a step of the search under way starts from. *)
LEMMA Searching ==
  ASSUME CycleInv, cycle = Running, frames # <<>>
  PROVE  /\ CycleTypes(table.next, color, frames, path) /\ Finished(table.next, color)
         /\ PathInv(table.next, color, frames, path)
         /\ Len(path) \in Nat \ {0} /\ Len(frames) = Len(path)
         /\ Frame \in CycleFrames /\ Frame.state \in States /\ Frame.child \in Nat \ {0}
         /\ Frame = frames[Len(path)] /\ Frame.state = path[Len(path)]
         /\ Succ(Frame.state) = table.next[path[Len(path)]]
         /\ Succ(Frame.state) \in Seq(States)
         /\ Below = SubSeq(frames, 1, Len(frames) - 1)
  <1>1. CycleTypes(table.next, color, frames, path) /\ Finished(table.next, color)
        /\ PathInv(table.next, color, frames, path)
    BY DEF CycleInv
  <1>2. Len(frames) \in Nat \ {0} /\ frames[Len(frames)] \in CycleFrames
    BY <1>1, AdvancedIs DEF CycleTypes
  <1>3. Len(frames) = Len(path) /\ frames[Len(path)].state = path[Len(path)]
    BY <1>1, <1>2 DEF PathInv, PathParts
  <1>4. Frame = frames[Len(path)] /\ Frame \in CycleFrames
    BY <1>2, <1>3 DEF Frame
  <1>5. Frame.state \in States /\ Frame.child \in Nat \ {0}
    BY <1>4 DEF CycleFrames
  <1>6. Succ(Frame.state) \in Seq(States)
    BY <1>1, <1>5 DEF CycleTypes, Succ
  <1> QED
    BY <1>1, <1>2, <1>3, <1>4, <1>5, <1>6 DEF Succ, Below

(* The child at hand is a successor of the last state of the path. *)
LEMMA ChildIs ==
  ASSUME CycleInv, cycle = Running, frames # <<>>, HasChild
  PROVE  /\ Frame.child \in 1 .. Len(table.next[path[Len(path)]])
         /\ Child = table.next[path[Len(path)]][Frame.child] /\ Child \in States
  <1>1. Frame.child <= Len(Succ(Frame.state)) /\ Child = Succ(Frame.state)[Frame.child]
    BY DEF HasChild, Child
  <1>2. Frame.child \in Nat \ {0} /\ Succ(Frame.state) \in Seq(States)
        /\ Succ(Frame.state) = table.next[path[Len(path)]]
    BY Searching
  <1> QED
    BY <1>1, <1>2

(* The frames after the top one went on to its next child. *)
LEMMA AdvancedTop ==
  ASSUME CycleInv, cycle = Running, frames # <<>>
  PROVE  /\ Advanced \in Seq(CycleFrames) /\ Len(Advanced) = Len(path)
         /\ Advanced[Len(path)].state = path[Len(path)]
         /\ Advanced[Len(path)].child = Frame.child + 1
         /\ \A i \in 1 .. Len(path) - 1 : Advanced[i] = frames[i]
  <1>1. PICK x : x = [Frame EXCEPT !.child = Frame.child + 1]
    OBVIOUS
  <1>2. Frame \in CycleFrames /\ Frame.child \in Nat \ {0} /\ Frame.child + 1 \in Nat \ {0}
        /\ Frame.state = path[Len(path)] /\ Len(frames) = Len(path)
        /\ Below = SubSeq(frames, 1, Len(frames) - 1)
    BY Searching
  <1>3. x \in CycleFrames /\ x.state = Frame.state /\ x.child = Frame.child + 1
    BY <1>1, <1>2 DEF CycleFrames
  <1>4. Advanced = Append(SubSeq(frames, 1, Len(frames) - 1), x)
    BY <1>1, <1>2 DEF Advanced
  <1>5. frames \in Seq(CycleFrames)
    BY DEF CycleInv, CycleTypes
  <1>6. /\ Advanced \in Seq(CycleFrames) /\ Len(Advanced) = Len(frames) /\ Advanced[Len(frames)] = x
        /\ \A i \in 1 .. Len(frames) - 1 : Advanced[i] = frames[i]
    BY <1>3, <1>4, <1>5, AdvancedIs
  <1> QED
    BY <1>2, <1>3, <1>6

(* Skipping a successor that is black keeps the invariant. *)
LEMMA SkipKeeps ==
  ASSUME CycleInv, CycleSkip
  PROVE  CycleInv'
  <1>1. PICK n : n = table.next
    OBVIOUS
  <1>2. /\ cycle = Running /\ frames # <<>> /\ HasChild /\ color[Child] = "black"
        /\ frames' = Advanced /\ UNCHANGED <<table, color, path, cycle>>
    BY DEF CycleSkip
  <1>3. CycleTypes(n, color, frames, path) /\ Finished(n, color) /\ PathInv(n, color, frames, path)
    BY <1>1, <1>2, Searching
  <1>4. PICK m \in Nat \ {0} : m = Len(path)
    BY <1>2, Searching
  <1>5. /\ frames' \in Seq(CycleFrames) /\ Len(frames') = m /\ frames'[m].state = path[m]
        /\ frames'[m].child = Frame.child + 1
        /\ \A i \in 1 .. m - 1 : frames'[i] = frames[i]
    BY <1>2, <1>4, AdvancedTop
  <1>6. /\ Frame.child \in 1 .. Len(n[path[m]]) /\ Child = n[path[m]][Frame.child]
        /\ Frame = frames[m]
    BY <1>1, <1>2, <1>4, ChildIs, Searching
  <1>7. CycleTypes(n, color, frames', path)
    BY <1>3, <1>5 DEF CycleTypes
  <1>8. ASSUME NEW i \in 1 .. m, NEW j \in 1 .. Len(n[path[i]]), j < frames'[i].child
        PROVE  color[n[path[i]][j]] = "black" \/ \E k \in i + 1 .. m : path[k] = n[path[i]][j]
    <2>0. \A k \in 1 .. m : \A l \in 1 .. Len(n[path[k]]) : l < frames[k].child =>
            color[n[path[k]][l]] = "black" \/ \E q \in k + 1 .. m : path[q] = n[path[k]][l]
      BY <1>3, <1>4 DEF PathInv, PathParts
    <2>1. CASE i # m
      <3>1. frames'[i] = frames[i]
        BY <1>5, <2>1
      <3> QED
        BY <1>8, <2>0, <3>1
    <2>2. CASE i = m /\ j = Frame.child
      BY <1>2, <1>6, <2>2
    <2>3. CASE i = m /\ j # Frame.child
      <3>1. j < frames[m].child
        BY <1>5, <1>6, <1>8, <2>3
      <3> QED
        BY <2>0, <2>3, <3>1
    <2> QED
      BY <2>1, <2>2, <2>3
  <1>9. \A i \in 1 .. m : frames'[i].state = path[i]
    <2>1. \A i \in 1 .. m : frames[i].state = path[i]
      BY <1>3, <1>4 DEF PathInv, PathParts
    <2> QED
      BY <1>5, <2>1
  <1>10. PathInv(n, color, frames', path)
    BY <1>3, <1>4, <1>5, <1>8, <1>9 DEF PathInv, PathParts
  <1> QED
    BY <1>1, <1>2, <1>3, <1>7, <1>10 DEF CycleInv

(* Descending into a white successor extends the path of gray states. *)
LEMMA DescendKeeps ==
  ASSUME CycleInv, CycleDescend
  PROVE  CycleInv'
  <1>1. PICK n : n = table.next
    OBVIOUS
  <1>2. PICK t : t = Child
    OBVIOUS
  <1>3. /\ cycle = Running /\ frames # <<>> /\ HasChild /\ color[t] = "white"
        /\ frames' = Append(Advanced, [state |-> t, child |-> 1]) /\ path' = Append(path, t)
        /\ color' = [color EXCEPT ![t] = "gray"] /\ UNCHANGED <<table, cycle>>
    BY <1>2 DEF CycleDescend
  <1>4. CycleTypes(n, color, frames, path) /\ Finished(n, color) /\ PathInv(n, color, frames, path)
    BY <1>1, <1>3, Searching
  <1>5. PICK m \in Nat \ {0} : m = Len(path)
    BY <1>3, Searching
  <1>6. /\ Advanced \in Seq(CycleFrames) /\ Len(Advanced) = m /\ Advanced[m].state = path[m]
        /\ Advanced[m].child = Frame.child + 1
        /\ \A i \in 1 .. m - 1 : Advanced[i] = frames[i]
    BY <1>3, <1>5, AdvancedTop
  <1>7. /\ Frame.child \in 1 .. Len(n[path[m]]) /\ t = n[path[m]][Frame.child]
        /\ Frame = frames[m] /\ t \in States
    BY <1>1, <1>2, <1>3, <1>5, ChildIs, Searching
  <1>8. PICK x : x = [state |-> t, child |-> 1]
    OBVIOUS
  <1>9. x \in CycleFrames /\ x.state = t /\ x.child = 1
    BY <1>7, <1>8 DEF CycleFrames
  <1>10. /\ frames' \in Seq(CycleFrames) /\ Len(frames') = m + 1 /\ frames'[m + 1] = x
         /\ \A i \in 1 .. m : frames'[i] = Advanced[i]
    BY <1>3, <1>6, <1>8, <1>9
  <1>11. path \in Seq(States) /\ color \in [States -> {"white", "gray", "black"}]
         /\ n \in [States -> Seq(States)]
    BY <1>4 DEF CycleTypes
  <1>12. /\ path' \in Seq(States) /\ Len(path') = m + 1 /\ path'[m + 1] = t
         /\ \A i \in 1 .. m : path'[i] = path[i] /\ path[i] \in States
    BY <1>3, <1>5, <1>7, <1>11
  <1>13. CycleTypes(n, color', frames', path')
    BY <1>3, <1>10, <1>11, <1>12 DEF CycleTypes
  <1>14. Finished(n, color')
    BY <1>3, <1>4, <1>7, <1>11, GrayKeepsOrder
  <1>15. /\ \A i \in 1 .. m : frames[i].state = path[i]
         /\ \A i, j \in 1 .. m : path[i] = path[j] => i = j
         /\ \A s \in States : color[s] = "gray" <=> \E i \in 1 .. m : path[i] = s
         /\ \A i \in 1 .. m - 1 : \E j \in 1 .. Len(n[path[i]]) : n[path[i]][j] = path[i + 1]
         /\ \A k \in 1 .. m : \A l \in 1 .. Len(n[path[k]]) : l < frames[k].child =>
              color[n[path[k]][l]] = "black" \/ \E q \in k + 1 .. m : path[q] = n[path[k]][l]
    BY <1>4, <1>5 DEF PathInv, PathParts
  <1>16. \A i \in 1 .. m + 1 : frames'[i].state = path'[i]
    BY SMTT(30), <1>6, <1>9, <1>10, <1>12, <1>15
  <1>17. \A i \in 1 .. m : path[i] # t
    BY <1>3, <1>7, <1>15
  <1>18. \A i, j \in 1 .. m + 1 : path'[i] = path'[j] => i = j
    BY <1>12, <1>15, <1>17
  <1>19. \A s \in States : color'[s] = "gray" <=> \E i \in 1 .. m + 1 : path'[i] = s
    <2> SUFFICES ASSUME NEW s \in States
                 PROVE  color'[s] = "gray" <=> \E i \in 1 .. m + 1 : path'[i] = s
      OBVIOUS
    <2>1. CASE s = t
      <3>1. color'[s] = "gray" /\ m + 1 \in 1 .. m + 1 /\ path'[m + 1] = s
        BY <1>3, <1>7, <1>11, <1>12, <2>1
      <3> QED
        BY <3>1
    <2>2. CASE s # t
      <3>1. color'[s] = color[s]
        BY <1>3, <1>11, <2>2
      <3>2. \A i \in 1 .. m + 1 : path'[i] = s => i \in 1 .. m /\ path[i] = s
        BY <1>12, <2>2
      <3>3. \A i \in 1 .. m : path[i] = s => i \in 1 .. m + 1 /\ path'[i] = s
        BY <1>12
      <3> QED
        BY <1>15, <3>1, <3>2, <3>3
    <2> QED
      BY <2>1, <2>2
  <1>20. \A i \in 1 .. m : \E j \in 1 .. Len(n[path'[i]]) : n[path'[i]][j] = path'[i + 1]
    <2> SUFFICES ASSUME NEW i \in 1 .. m
                 PROVE  \E j \in 1 .. Len(n[path[i]]) : n[path[i]][j] = path'[i + 1]
      BY <1>12
    <2>1. CASE i = m
      BY <1>7, <1>12, <2>1
    <2>2. CASE i # m
      <3>1. i \in 1 .. m - 1 /\ path'[i + 1] = path[i + 1]
        BY <1>12, <2>2
      <3> QED
        BY <1>15, <3>1
    <2> QED
      BY <2>1, <2>2
  <1>21. ASSUME NEW i \in 1 .. m + 1, NEW j \in 1 .. Len(n[path'[i]]), j < frames'[i].child
         PROVE  color'[n[path'[i]][j]] = "black" \/ \E k \in i + 1 .. m + 1 : path'[k] = n[path'[i]][j]
    <2>1. CASE i = m + 1
      <3>1. j < 1
        BY <1>9, <1>10, <1>21, <2>1
      <3>2. j >= 1
        OBVIOUS
      <3> QED
        BY <3>1, <3>2
    <2>2. CASE i = m /\ j = Frame.child
      <3>1. m + 1 \in i + 1 .. m + 1 /\ path'[m + 1] = n[path'[i]][j]
        BY <1>7, <1>12, <2>2
      <3> QED
        BY <3>1
    <2>3. CASE i # m + 1 /\ ~(i = m /\ j = Frame.child)
      <3>1. i \in 1 .. m /\ path'[i] = path[i] /\ path[i] \in States /\ frames'[i] = Advanced[i]
        BY <1>10, <1>12, <2>3
      <3>2. j < frames[i].child
        <4>1. CASE i = m
          BY <1>6, <1>7, <1>21, <2>3, <3>1, <4>1
        <4>2. CASE i # m
          BY <1>6, <1>21, <3>1, <4>2
        <4> QED
          BY <4>1, <4>2
      <3>3. PICK y : y = n[path[i]][j]
        OBVIOUS
      <3>4. color[y] = "black" \/ \E q \in i + 1 .. m : path[q] = y
        BY <1>15, <1>21, <3>1, <3>2, <3>3
      <3>5. y \in States
        BY <1>11, <1>21, <3>1, <3>3
      <3>6. color[y] = "black" => color'[y] = "black"
        BY <1>3, <1>11, <3>5
      <3>7. \A q \in i + 1 .. m : q \in i + 1 .. m + 1 /\ path'[q] = path[q]
        BY <1>12
      <3> QED
        BY <3>1, <3>3, <3>4, <3>6, <3>7
    <2> QED
      BY <2>1, <2>2, <2>3
  <1>22. PathInv(n, color', frames', path')
    <2>1. Len(frames') = m + 1 /\ Len(path') = m + 1 /\ Len(path') - 1 = m
      BY <1>10, <1>12
    <2>2. \A i \in 1 .. m + 1 : \A j \in 1 .. Len(n[path'[i]]) : j < frames'[i].child =>
            color'[n[path'[i]][j]] = "black" \/ \E k \in i + 1 .. m + 1 : path'[k] = n[path'[i]][j]
      BY <1>21
    <2>3. \A i \in 1 .. (m + 1) - 1 : \E j \in 1 .. Len(n[path'[i]]) : n[path'[i]][j] = path'[i + 1]
      BY <1>20
    <2>4. PathParts(n, color', frames', path', m + 1)
      BY <1>16, <1>18, <1>19, <2>2, <2>3 DEF PathParts
    <2> QED
      BY <2>1, <2>4 DEF PathInv
  <1> QED
    BY <1>1, <1>3, <1>13, <1>14, <1>22 DEF CycleInv
(* A state turns black when all its successors are, and so extends their   *)
(* descending order.                                                       *)
LEMMA FinishKeeps ==
  ASSUME CycleInv, CycleFinish
  PROVE  CycleInv'
  <1>1. PICK n : n = table.next
    OBVIOUS
  <1>2. PICK t : t = Frame.state
    OBVIOUS
  <1>3. /\ cycle = Running /\ frames # <<>> /\ ~HasChild
        /\ color' = [color EXCEPT ![t] = "black"] /\ frames' = Below
        /\ path' = SubSeq(path, 1, Len(path) - 1) /\ UNCHANGED <<table, cycle>>
    BY <1>2 DEF CycleFinish
  <1>4. CycleTypes(n, color, frames, path) /\ Finished(n, color) /\ PathInv(n, color, frames, path)
    BY <1>1, <1>3, Searching
  <1>5. PICK m \in Nat \ {0} : m = Len(path)
    BY <1>3, Searching
  <1>6. path \in Seq(States) /\ color \in [States -> {"white", "gray", "black"}]
        /\ n \in [States -> Seq(States)] /\ frames \in Seq(CycleFrames)
    BY <1>4 DEF CycleTypes
  <1>7. /\ t = path[m] /\ t \in States /\ Frame = frames[m] /\ Len(frames) = m
        /\ Frame.child \in Nat \ {0} /\ Succ(Frame.state) = n[t]
    BY <1>1, <1>2, <1>3, <1>5, Searching
  <1>8. ~(Frame.child <= Len(n[t])) /\ Len(n[t]) \in Nat
    BY <1>3, <1>6, <1>7 DEF HasChild
  <1>9. /\ \A i \in 1 .. m : frames[i].state = path[i]
        /\ \A i, j \in 1 .. m : path[i] = path[j] => i = j
        /\ \A s \in States : color[s] = "gray" <=> \E i \in 1 .. m : path[i] = s
        /\ \A i \in 1 .. m - 1 : \E j \in 1 .. Len(n[path[i]]) : n[path[i]][j] = path[i + 1]
        /\ \A k \in 1 .. m : \A l \in 1 .. Len(n[path[k]]) : l < frames[k].child =>
             color[n[path[k]][l]] = "black" \/ \E q \in k + 1 .. m : path[q] = n[path[k]][l]
    BY <1>4, <1>5 DEF PathInv, PathParts
  <1>10. /\ frames' \in Seq(CycleFrames) /\ Len(frames') = m - 1
         /\ \A i \in 1 .. m - 1 : frames'[i] = frames[i]
    <2>1. Below = SubSeq(frames, 1, Len(frames) - 1)
      BY <1>3, Searching
    <2> QED
      BY <1>3, <1>6, <1>7, <2>1, AdvancedIs
  <1>11. /\ path' \in Seq(States) /\ Len(path') = m - 1
         /\ \A i \in 1 .. m - 1 : path'[i] = path[i] /\ path[i] \in States
    <2>1. \A i \in 1 .. m - 1 : path[i] \in States
      BY <1>5, <1>6
    <2>2. /\ path' \in Seq(States)
          /\ Len(path') = IF 1 <= m - 1 THEN m - 1 - 1 + 1 ELSE 0
          /\ \A i \in 1 .. m - 1 - 1 + 1 : path'[i] = path[1 + i - 1]
      BY <1>3, <1>5, <2>1, SubSeqProperties
    <2>3. Len(path') = m - 1
      BY <2>2
    <2> QED
      BY <2>1, <2>2, <2>3
  <1>12. CycleTypes(n, color', frames', path')
    BY <1>3, <1>6, <1>10, <1>11 DEF CycleTypes
  <1>13. \A j \in 1 .. Len(n[t]) : n[t][j] \in States /\ color[n[t][j]] = "black"
    <2> SUFFICES ASSUME NEW j \in 1 .. Len(n[t]) PROVE n[t][j] \in States /\ color[n[t][j]] = "black"
      OBVIOUS
    <2>1. j < frames[m].child
      BY <1>7, <1>8
    <2>2. m \in 1 .. m /\ ~ \E q \in m + 1 .. m : path[q] = n[path[m]][j]
      OBVIOUS
    <2>3. color[n[t][j]] = "black"
      BY <1>7, <1>9, <2>1, <2>2
    <2>4. n[t][j] \in States
      BY <1>6, <1>7
    <2> QED
      BY <2>3, <2>4
  <1>14. color[t] = "gray"
    BY <1>7, <1>9
  <1>15. Finished(n, color')
    <2>1. PICK order \in [States -> Nat] : \E bound \in Nat : Ordered(n, color, order, bound)
      BY <1>4 DEF Finished
    <2>2. PICK bound \in Nat : Ordered(n, color, order, bound)
      BY <2>1
    <2>3. PICK higher : higher = [order EXCEPT ![t] = bound]
      OBVIOUS
    <2>4. higher \in [States -> Nat] /\ higher[t] = bound
          /\ \A s \in States : s # t => higher[s] = order[s] /\ color'[s] = color[s]
      BY <1>3, <1>6, <1>7, <2>3
    <2>5. ASSUME NEW b \in States, color'[b] = "black"
          PROVE  /\ higher[b] < bound + 1
                 /\ \A j \in 1 .. Len(n[b]) :
                      color'[n[b][j]] = "black" /\ higher[n[b][j]] < higher[b]
      <3>1. \A y \in States : color[y] = "black" =>
              y # t /\ color'[y] = "black" /\ higher[y] = order[y] /\ order[y] < bound
        BY <1>14, <2>2, <2>4 DEF Ordered
      <3>2. CASE b = t
        BY <1>13, <2>4, <3>1, <3>2
      <3>3. CASE b # t
        <4>1. color[b] = "black" /\ higher[b] = order[b] /\ order[b] < bound
          BY <2>4, <2>5, <3>1, <3>3
        <4>2. \A j \in 1 .. Len(n[b]) : n[b][j] \in States
          BY <1>6
        <4>3. \A j \in 1 .. Len(n[b]) : color[n[b][j]] = "black" /\ order[n[b][j]] < order[b]
          BY <2>2, <4>1 DEF Ordered
        <4>4. higher[b] < bound + 1
          BY <2>4, <4>1
        <4> QED
          BY <3>1, <4>1, <4>2, <4>3, <4>4
      <3> QED
        BY <3>2, <3>3
    <2>6. Ordered(n, color', higher, bound + 1)
      BY <2>5 DEF Ordered
    <2>7. bound + 1 \in Nat
      OBVIOUS
    <2> QED
      BY <2>4, <2>6, <2>7 DEF Finished
  <1>16. \A i \in 1 .. m - 1 : frames'[i].state = path'[i]
    <2> SUFFICES ASSUME NEW i \in 1 .. m - 1 PROVE frames'[i].state = path'[i]
      OBVIOUS
    <2>1. frames'[i] = frames[i]
      BY <1>10
    <2>2. path'[i] = path[i]
      BY <1>11
    <2>3. i \in 1 .. m
      OBVIOUS
    <2>4. frames[i].state = path[i]
      BY <1>9, <2>3
    <2> QED
      BY <2>1, <2>2, <2>4
  <1>17. \A i, j \in 1 .. m - 1 : path'[i] = path'[j] => i = j
    BY <1>9, <1>11
  <1>18. \A i \in 1 .. m - 1 : path[i] # t
    BY SMTT(30), <1>7, <1>9
  <1>19. \A s \in States : color'[s] = "gray" <=> \E i \in 1 .. m - 1 : path'[i] = s
    <2> SUFFICES ASSUME NEW s \in States
                 PROVE  color'[s] = "gray" <=> \E i \in 1 .. m - 1 : path'[i] = s
      OBVIOUS
    <2>1. CASE s = t
      BY <1>3, <1>6, <1>11, <1>18, <2>1
    <2>2. CASE s # t
      <3>1. color'[s] = color[s]
        BY <1>3, <1>6, <2>2
      <3>2. \A i \in 1 .. m : path[i] = s => i \in 1 .. m - 1 /\ path'[i] = s
        BY <1>7, <1>11, <2>2
      <3>3. \A i \in 1 .. m - 1 : path'[i] = s => i \in 1 .. m /\ path[i] = s
        BY <1>11
      <3> QED
        BY <1>9, <3>1, <3>2, <3>3
    <2> QED
      BY <2>1, <2>2
  <1>20. \A i \in 1 .. m - 1 - 1 : \E j \in 1 .. Len(n[path'[i]]) : n[path'[i]][j] = path'[i + 1]
    <2> SUFFICES ASSUME NEW i \in 1 .. m - 1 - 1
                 PROVE  \E j \in 1 .. Len(n[path'[i]]) : n[path'[i]][j] = path'[i + 1]
      OBVIOUS
    <2>1. i \in 1 .. m - 1 /\ i + 1 \in 1 .. m - 1
      OBVIOUS
    <2>2. path'[i] = path[i] /\ path'[i + 1] = path[i + 1]
      BY <1>11, <2>1
    <2> QED
      BY <1>9, <2>1, <2>2
  <1>21. ASSUME NEW i \in 1 .. m - 1, NEW j \in 1 .. Len(n[path'[i]]), j < frames'[i].child
         PROVE  color'[n[path'[i]][j]] = "black" \/ \E k \in i + 1 .. m - 1 : path'[k] = n[path'[i]][j]
    <2>1. path'[i] = path[i] /\ path[i] \in States /\ frames'[i] = frames[i] /\ i \in 1 .. m
      BY <1>10, <1>11
    <2>2. PICK y : y = n[path[i]][j]
      OBVIOUS
    <2>3. y \in States
      BY <1>6, <1>21, <2>1, <2>2
    <2>4. color[y] = "black" \/ \E q \in i + 1 .. m : path[q] = y
      BY <1>9, <1>21, <2>1, <2>2
    <2>5. (color[y] = "black" => color'[y] = "black") /\ color'[t] = "black"
      BY <1>3, <1>6, <1>7, <2>3
    <2>6. \A q \in i + 1 .. m : q = m \/ (q \in i + 1 .. m - 1 /\ path'[q] = path[q])
      BY <1>11
    <2> QED
      BY <1>7, <2>1, <2>2, <2>4, <2>5, <2>6
  <1>22. PathInv(n, color', frames', path')
    <2>1. Len(frames') = m - 1 /\ Len(path') = m - 1
      BY <1>10, <1>11
    <2>2. \A i \in 1 .. m - 1 : \A j \in 1 .. Len(n[path'[i]]) : j < frames'[i].child =>
            color'[n[path'[i]][j]] = "black" \/ \E k \in i + 1 .. m - 1 : path'[k] = n[path'[i]][j]
      BY <1>21
    <2>3. PathParts(n, color', frames', path', m - 1)
      BY <1>16, <1>17, <1>19, <1>20, <2>2 DEF PathParts
    <2> QED
      BY <2>1, <2>3 DEF PathInv
  <1> QED
    BY <1>1, <1>3, <1>12, <1>15, <1>22 DEF CycleInv

(* A back edge: what is returned leads from its first state round to it. *)
LEMMA FoundIsCycle ==
  ASSUME CycleInv, CycleFound
  PROVE  CycleInv'
  <1>1. PICK n : n = table.next
    OBVIOUS
  <1>2. PICK t : t = Child
    OBVIOUS
  <1>3. PICK hits : hits = {i \in DOMAIN path : path[i] = t}
    OBVIOUS
  <1>4. /\ cycle = Running /\ frames # <<>> /\ HasChild /\ color[t] = "gray"
        /\ cycle' = IF hits = {} THEN <<t>>
                    ELSE SubSeq(path, CHOOSE i \in hits : \A j \in hits : i <= j, Len(path))
        /\ frames' = <<>> /\ UNCHANGED <<table, color, path>>
    BY <1>2, <1>3 DEF CycleFound
  <1>5. CycleTypes(n, color, frames, path) /\ Finished(n, color) /\ PathInv(n, color, frames, path)
    BY <1>1, <1>4, Searching
  <1>6. PICK m \in Nat \ {0} : m = Len(path)
    BY <1>4, Searching
  <1>7. path \in Seq(States) /\ DOMAIN path = 1 .. m
    BY <1>5, <1>6 DEF CycleTypes
  <1>8. /\ Frame.child \in 1 .. Len(n[path[m]]) /\ t = n[path[m]][Frame.child] /\ t \in States
    BY <1>1, <1>2, <1>4, <1>6, ChildIs
  <1>9. hits # {} /\ hits \in SUBSET Nat
    <2>1. \E i \in 1 .. Len(path) : path[i] = t
      BY <1>4, <1>5, <1>8 DEF PathInv, PathParts
    <2> QED
      BY <1>3, <1>6, <1>7, <2>1
  <1>10. PICK a \in hits : a = CHOOSE i \in hits : \A j \in hits : i <= j
    <2>1. PICK k \in hits : \A j \in hits : ~(<<j, k>> \in OpToRel(<, Nat))
      BY <1>9, WFMin, NatLessThanWellFounded
    <2>2. \A j \in hits : j \in Nat /\ ~(j < k)
      BY <1>9, <2>1 DEF OpToRel
    <2>3. k \in hits /\ \A j \in hits : k <= j
      BY <2>2
    <2> QED
      BY <2>3
  <1>11. a \in 1 .. m /\ path[a] = t
    BY <1>3, <1>7
  <1>12. PICK c : c = cycle'
    OBVIOUS
  <1>13. c = SubSeq(path, a, m)
    BY <1>4, <1>6, <1>9, <1>10, <1>12
  <1>14. PICK l : l = m - a + 1
    OBVIOUS
  <1>15. /\ l \in Nat \ {0} /\ c \in Seq(States) /\ Len(c) = l
         /\ \A i \in 1 .. l : c[i] = path[a + i - 1] /\ a + i - 1 \in 1 .. m
    <2>1. \A i \in a .. m : path[i] \in States
      BY <1>7, <1>11
    <2>2. a \in Int /\ m \in Int /\ a <= m
      BY <1>11
    <2>3. /\ c \in Seq(States)
          /\ Len(c) = IF a <= m THEN m - a + 1 ELSE 0
          /\ \A i \in 1 .. m - a + 1 : c[i] = path[a + i - 1]
      BY <1>13, <2>1, <2>2, SubSeqProperties
    <2>4. l \in Nat \ {0} /\ \A i \in 1 .. l : a + i - 1 \in 1 .. m
      BY <1>11, <1>14
    <2> QED
      BY <1>14, <2>2, <2>3, <2>4
  <1>16. c[1] = t /\ c[l] = path[m]
    BY <1>11, <1>14, <1>15
  <1>17. \A s \in States : n[s] \in Seq(States) /\ DOMAIN n[s] = 1 .. Len(n[s])
    BY <1>5 DEF CycleTypes
  <1>18. path[m] \in States /\ \A i \in 1 .. m : path[i] \in States
    BY <1>7
  <1>19. \A i \in 1 .. l - 1 : \E j \in DOMAIN n[c[i]] : n[c[i]][j] = c[i + 1]
    <2> SUFFICES ASSUME NEW i \in 1 .. l - 1 PROVE \E j \in DOMAIN n[c[i]] : n[c[i]][j] = c[i + 1]
      OBVIOUS
    <2>1. PICK k \in 1 .. m - 1 : k = a + i - 1
      BY <1>11, <1>14
    <2>0. i \in 1 .. l /\ i + 1 \in 1 .. l /\ a + (i + 1) - 1 = k + 1
      BY <1>11, <1>15, <2>1
    <2>2. c[i] = path[k] /\ c[i + 1] = path[k + 1]
      BY <1>15, <2>0, <2>1
    <2>3. \E j \in 1 .. Len(n[path[k]]) : n[path[k]][j] = path[k + 1]
      BY <1>5, <1>6 DEF PathInv, PathParts
    <2>4. path[k] \in States
      BY <1>18
    <2> QED
      BY <1>17, <2>2, <2>3, <2>4
  <1>20. \E j \in DOMAIN n[c[l]] : n[c[l]][j] = c[1]
    BY <1>8, <1>16, <1>17, <1>18
  <1>21. IsCycle(cycle)'
    <2>1. table'.next = n /\ Len(cycle') = l
      BY <1>1, <1>4, <1>12, <1>15
    <2> QED
      BY <1>12, <1>19, <1>20, <2>1 DEF IsCycle, LeadsTo, Succ
  <1>22. cycle' # Running
    BY <1>12, <1>15 DEF Running
  <1>23. CycleTypes(n, color', frames', path') /\ Finished(n, color')
    BY <1>4, <1>5 DEF CycleTypes
  <1>24. table'.next = n
    BY <1>1, <1>4
  <1> QED
    BY <1>21, <1>22, <1>23, <1>24 DEF CycleInv, Running

(* Every step of the checks keeps what find_cycle relies on. *)
LEMMA CycleStepInv == CycleInv /\ [ValidationNext]_validationVars => CycleInv'
  <1> SUFFICES ASSUME CycleInv, [ValidationNext]_validationVars PROVE CycleInv'
    OBVIOUS
  <1>1. ASSUME UNCHANGED <<table, cycleVars>> PROVE CycleInv'
    <2>1. table' = table /\ color' = color /\ frames' = frames /\ path' = path /\ cycle' = cycle
      BY <1>1 DEF cycleVars
    <2>2. IsCycle(cycle)' <=> IsCycle(cycle)
      BY <2>1 DEF IsCycle, LeadsTo, Succ
    <2> QED
      BY <2>1, <2>2 DEF CycleInv, Running
  <1>2. CASE UNCHANGED validationVars
    BY <1>1, <1>2 DEF validationVars
  <1>3. CASE CheckRequiresProduces
    BY <1>1, <1>3 DEF CheckRequiresProduces
  <1> QED
    BY <1>2, <1>3, StartKeeps, DescendKeeps, SkipKeeps, FoundIsCycle, FinishKeeps DEF ValidationNext

(* An order of all states leaves no cycle. *)
LEMMA CycleInvGives == CycleInv => CycleExact
  <1> SUFFICES ASSUME CycleInv PROVE CycleExact
    OBVIOUS
  <1>1. ASSUME \A s \in States : color[s] = "black", HasCycle PROVE FALSE
    <2>1. PICK order \in [States -> Nat] : \E bound \in Nat : Ordered(table.next, color, order, bound)
      BY DEF CycleInv, Finished
    <2>2. PICK bound \in Nat : Ordered(table.next, color, order, bound)
      BY <2>1
    <2>3. table.next \in [States -> Seq(States)]
      BY DEF CycleInv, CycleTypes
    <2>4. PICK S \in SUBSET States :
            S # {} /\ \A s \in S : \E i \in DOMAIN table.next[s] : table.next[s][i] \in S
      BY <1>1 DEF HasCycle, Succ
    <2>5. \A s \in S : \E u \in S : order[u] < order[s]
      <3> SUFFICES ASSUME NEW s \in S PROVE \E u \in S : order[u] < order[s]
        OBVIOUS
      <3>1. PICK i \in DOMAIN table.next[s] : table.next[s][i] \in S
        BY <2>4
      <3>0. table.next[s] \in Seq(States)
        BY <2>3, <2>4
      <3>2. i \in 1 .. Len(table.next[s])
        BY <3>0, <3>1
      <3>3. order[table.next[s][i]] < order[s]
        BY <1>1, <2>2, <2>4, <3>2 DEF Ordered
      <3> QED
        BY <3>1, <3>3
    <2>6. PICK values : values = {order[s] : s \in S}
      OBVIOUS
    <2>7. values # {} /\ values \in SUBSET Nat
      BY <2>4, <2>6
    <2>8. PICK k \in values : \A j \in values : ~(<<j, k>> \in OpToRel(<, Nat))
      BY <2>7, WFMin, NatLessThanWellFounded
    <2>9. PICK s \in S : k = order[s]
      BY <2>6, <2>8
    <2>10. PICK u \in S : order[u] < order[s]
      BY <2>5
    <2>11. order[u] \in values /\ order[u] \in Nat /\ k \in Nat
      BY <2>4, <2>6, <2>7
    <2>12. <<order[u], k>> \in OpToRel(<, Nat)
      BY <2>9, <2>10, <2>11 DEF OpToRel
    <2> QED
      BY <2>8, <2>11, <2>12
  <1>2. cycle # Running => IsCycle(cycle)
    BY DEF CycleInv
  <1> QED
    BY <1>1, <1>2 DEF CycleExact

-----------------------------------------------------------------------------
(* Loops.  What a recursive function over 0 .. N computes: it exists, and  *)
(* one that only adds to a set has come to rest when it cannot add more.   *)

Follows(f, first, step, M) ==
  f[0] = first /\ \A n \in 1 .. M : f[n] = step[<<n, f[n - 1]>>]

(* A property of 0 that every number hands on to the next holds up to N. *)
LEMMA CountsUp ==
  ASSUME NEW N \in Nat, NEW P, 0 \in P, \A n \in 0 .. N - 1 : n \in P => n + 1 \in P
  PROVE  \A n \in 0 .. N : n \in P
  <1> SUFFICES ASSUME NEW k \in 0 .. N, k \notin P PROVE FALSE
    OBVIOUS
  <1>1. PICK Missing : Missing = {n \in Nat : n \in 0 .. N /\ n \notin P}
    OBVIOUS
  <1>2. Missing # {} /\ Missing \in SUBSET Nat
    BY <1>1
  <1>3. PICK l \in Missing : \A j \in Missing : ~(<<j, l>> \in OpToRel(<, Nat))
    BY <1>2, WFMin, NatLessThanWellFounded
  <1>4. l \in Nat /\ l \in 0 .. N /\ l \notin P /\ l # 0
    BY <1>1, <1>3
  <1>5. l - 1 \in 0 .. N - 1 /\ l - 1 \in Nat /\ (l - 1) + 1 = l
    BY <1>4
  <1>6. l - 1 \notin P
    BY <1>4, <1>5
  <1>7. l - 1 \in Missing
    BY <1>1, <1>5, <1>6
  <1>8. <<l - 1, l>> \in OpToRel(<, Nat)
    BY <1>4, <1>5 DEF OpToRel
  <1> QED
    BY <1>3, <1>7, <1>8

(* The values of a loop of N turns. *)
LEMMA LoopRuns ==
  ASSUME NEW N \in Nat, NEW X, NEW first \in X, NEW step \in [(1 .. N) \X X -> X]
  PROVE  \E f \in [0 .. N -> X] : Follows(f, first, step, N)
  <1>1. PICK P : P = {n \in 0 .. N : \E f \in [0 .. n -> X] : Follows(f, first, step, n)}
    OBVIOUS
  <1>2. 0 \in P
    <2>1. PICK f : f = [n \in 0 .. 0 |-> first]
      OBVIOUS
    <2>2. f \in [0 .. 0 -> X] /\ Follows(f, first, step, 0)
      BY <2>1 DEF Follows
    <2> QED
      BY <1>1, <2>2
  <1>3. ASSUME NEW n \in 0 .. N - 1, n \in P PROVE n + 1 \in P
    <2>1. PICK f \in [0 .. n -> X] : Follows(f, first, step, n)
      BY <1>1, <1>3
    <2>2. n + 1 \in 1 .. N /\ n \in 0 .. n /\ f[n] \in X /\ <<n + 1, f[n]>> \in (1 .. N) \X X
      BY <1>3, <2>1
    <2>3. PICK y \in X : y = step[<<n + 1, f[n]>>]
      BY <2>2
    <2>4. PICK g : g = [k \in 0 .. n + 1 |-> IF k = n + 1 THEN y ELSE f[k]]
      OBVIOUS
    <2>5. g \in [0 .. n + 1 -> X]
      BY <2>1, <2>3, <2>4
    <2>6. \A k \in 0 .. n : g[k] = f[k]
      BY <2>4
    <2>7. g[n + 1] = y
      BY <2>4
    <2>8. g[0] = first
      BY <2>1, <2>6 DEF Follows
    <2>9. ASSUME NEW k \in 1 .. n + 1 PROVE g[k] = step[<<k, g[k - 1]>>]
      <3>1. CASE k = n + 1
        <4>1. g[k - 1] = f[n]
          BY <2>6, <3>1
        <4> QED
          BY <2>3, <2>7, <3>1, <4>1
      <3>2. CASE k # n + 1
        <4>1. k \in 1 .. n /\ k \in 0 .. n /\ k - 1 \in 0 .. n
          BY <3>2
        <4>2. f[k] = step[<<k, f[k - 1]>>]
          BY <2>1, <4>1 DEF Follows
        <4> QED
          BY <2>6, <4>1, <4>2
      <3> QED
        BY <3>1, <3>2
    <2>10. Follows(g, first, step, n + 1)
      BY <2>8, <2>9 DEF Follows
    <2> QED
      BY <1>1, <2>2, <2>5, <2>10
  <1>4. N \in P
    BY <1>2, <1>3, CountsUp
  <1> QED
    BY <1>1, <1>4

(* A part of a finite set that lacks a member is smaller. *)
LEMMA FewerThan ==
  ASSUME NEW T, IsFiniteSet(T), NEW S \in SUBSET T, NEW x \in T, x \notin S
  PROVE  Cardinality(S) \in Nat /\ Cardinality(T) \in Nat /\ Cardinality(S) < Cardinality(T)
  <1>1. IsFiniteSet(S) /\ Cardinality(S) <= Cardinality(T) /\ Cardinality(S) # Cardinality(T)
    BY FS_Subset
  <1>2. Cardinality(S) \in Nat /\ Cardinality(T) \in Nat
    BY <1>1, FS_CardinalityType
  <1>3. ASSUME NEW a \in Nat, NEW b \in Nat, a <= b, a # b PROVE a < b
    BY <1>3
  <1> QED
    BY <1>1, <1>2, <1>3

Adds(grow, B) == grow \in [SUBSET B -> SUBSET B] /\ \A A \in SUBSET B : A \subseteq grow[A]
GrowsBy(f, first, grow, N) == f[0] = first /\ \A n \in 1 .. N : f[n] = grow[f[n - 1]]

(* A loop that adds members of B to a set has added all it ever will when  *)
(* it has made as many turns as there are members to add.                  *)
LEMMA LoopRests ==
  ASSUME NEW N \in Nat, NEW B, NEW first \in SUBSET B, IsFiniteSet(B \ first),
         Cardinality(B \ first) <= N, NEW grow, Adds(grow, B),
         NEW f \in [0 .. N -> SUBSET B], GrowsBy(f, first, grow, N)
  PROVE  /\ grow[f[N]] = f[N] /\ first \subseteq f[N] /\ f[N] \in SUBSET B
  <1>a. /\ grow \in [SUBSET B -> SUBSET B] /\ \A A \in SUBSET B : A \subseteq grow[A]
        /\ f[0] = first /\ \A n \in 1 .. N : f[n] = grow[f[n - 1]]
    BY DEF Adds, GrowsBy
  <1>1. PICK added : added = [n \in 0 .. N |-> f[n] \ first]
    OBVIOUS
  <1>2. \A n \in 0 .. N : /\ f[n] \in SUBSET B /\ added[n] = f[n] \ first
                          /\ added[n] \in SUBSET (B \ first)
    BY <1>1
  <1>3. \A n \in 0 .. N : IsFiniteSet(added[n])
    BY <1>2, FS_Subset
  <1>4. PICK size : size = [n \in 0 .. N |-> Cardinality(added[n])]
    OBVIOUS
  <1>5. \A n \in 0 .. N : size[n] = Cardinality(added[n]) /\ size[n] \in Nat
    BY <1>3, <1>4, FS_CardinalityType
  <1>6. PICK P : P = {n \in 0 .. N : first \subseteq f[n] /\ (grow[f[n]] = f[n] \/ size[n] >= n)}
    OBVIOUS
  <1>7. 0 \in P
    <2>1. 0 \in 0 .. N /\ size[0] \in Nat
      BY <1>5
    <2>2. size[0] >= 0
      BY <2>1
    <2> QED
      BY <1>a, <1>6, <2>1, <2>2
  <1>8. ASSUME NEW n \in 0 .. N - 1, n \in P PROVE n + 1 \in P
    <2>0. n + 1 \in 1 .. N /\ (n + 1) - 1 = n /\ n \in 0 .. N /\ n + 1 \in 0 .. N
      OBVIOUS
    <2>1. f[n + 1] = grow[f[n]]
      BY <1>a, <2>0
    <2>2. f[n] \subseteq f[n + 1] /\ first \subseteq f[n + 1] /\ first \subseteq f[n]
      BY <1>a, <1>2, <1>6, <1>8, <2>0, <2>1
    <2>3. CASE f[n + 1] = f[n]
      <3>1. grow[f[n + 1]] = f[n + 1]
        BY <2>1, <2>3
      <3> QED
        BY <1>6, <2>0, <2>2, <3>1
    <2>4. CASE f[n + 1] # f[n]
      <3>1. size[n] >= n
        BY <1>6, <1>8, <2>1, <2>4
      <3>2. PICK x : x \in f[n + 1] /\ x \notin f[n]
        BY <2>2, <2>4
      <3>3. added[n] \in SUBSET added[n + 1] /\ x \in added[n + 1] /\ x \notin added[n]
        BY <1>2, <2>0, <2>2, <3>2
      <3>4. Cardinality(added[n]) < Cardinality(added[n + 1])
        BY <1>3, <2>0, <3>3, FewerThan
      <3>5. size[n] < size[n + 1] /\ size[n] \in Nat /\ size[n + 1] \in Nat
        BY <1>5, <2>0, <3>4
      <3>6. size[n + 1] >= n + 1
        BY <3>1, <3>5
      <3> QED
        BY <1>6, <2>0, <2>2, <3>6
    <2> QED
      BY <2>3, <2>4
  <1>9. N \in P
    <2>1. \A n \in 0 .. N : n \in P
      BY <1>7, <1>8, CountsUp
    <2> QED
      BY <2>1
  <1>10. ASSUME grow[f[N]] # f[N] PROVE FALSE
    <2>1. N \in 0 .. N /\ size[N] >= N /\ first \subseteq f[N]
      BY <1>6, <1>9, <1>10
    <2>2. f[N] \subseteq grow[f[N]] /\ grow[f[N]] \in SUBSET B
      BY <1>a, <1>2, <2>1
    <2>3. PICK y : y \in grow[f[N]] /\ y \notin f[N]
      BY <1>10, <2>2
    <2>4. y \in B \ first /\ y \notin added[N] /\ added[N] \in SUBSET (B \ first)
      BY <1>2, <2>1, <2>2, <2>3
    <2>5. Cardinality(added[N]) < Cardinality(B \ first) /\ Cardinality(B \ first) \in Nat
      BY <2>4, FewerThan
    <2>6. size[N] = Cardinality(added[N]) /\ size[N] \in Nat
      BY <1>5, <2>1
    <2> QED
      BY <2>1, <2>5, <2>6
  <1>11. f[N] \in SUBSET B
    BY <1>2
  <1> QED
    BY <1>6, <1>9, <1>10, <1>11

(* A loop that stays inside a closed set. *)
LEMMA LoopStays ==
  ASSUME NEW N \in Nat, NEW S, NEW f, f[0] \subseteq S,
         \A n \in 1 .. N : f[n - 1] \subseteq S => f[n] \subseteq S
  PROVE  f[N] \subseteq S
  <1>1. PICK P : P = {n \in 0 .. N : f[n] \subseteq S}
    OBVIOUS
  <1>2. 0 \in P
    BY <1>1
  <1>3. ASSUME NEW n \in 0 .. N - 1, n \in P PROVE n + 1 \in P
    <2>1. n + 1 \in 1 .. N /\ (n + 1) - 1 = n /\ n + 1 \in 0 .. N
      OBVIOUS
    <2> QED
      BY <1>1, <1>3, <2>1
  <1> QED
    BY <1>1, <1>2, <1>3, CountsUp

-----------------------------------------------------------------------------
(* FlowValidation: check_requires_produces.                                *)

WellTyped(t) ==
  /\ t.next \in [States -> Seq(States)]
  /\ t.requires \in [States -> SUBSET DataKeys]
  /\ t.produces \in [States -> SUBSET DataKeys]

(* There are finitely many pairs of a state and a set of data. *)
LEMMA PairsFinite == IsFiniteSet(Pairs) /\ Cardinality(Pairs) \in Nat
  <1>1. PICK S : S = SUBSET DataKeys
    OBVIOUS
  <1>2. IsFiniteSet(S)
    BY <1>1, TablesAssumption, FS_SUBSET
  <1>3. IsFiniteSet(States \X S)
    BY <1>2, TablesAssumption, FS_Product
  <1>4. PICK f : f = [x \in States \X S |-> [state |-> x[1], produced |-> x[2]]]
    OBVIOUS
  <1>5. f \in [States \X S -> Pairs]
    BY <1>1, <1>4 DEF Pairs
  <1>6. \A p \in Pairs : \E x \in States \X S : f[x] = p
    <2> SUFFICES ASSUME NEW p \in Pairs PROVE \E x \in States \X S : f[x] = p
      OBVIOUS
    <2>1. p.state \in States /\ p.produced \in S /\ p = [state |-> p.state, produced |-> p.produced]
      BY <1>1 DEF Pairs
    <2>2. <<p.state, p.produced>> \in States \X S
      BY <2>1
    <2>3. f[<<p.state, p.produced>>] = p
      BY <1>4, <2>1, <2>2
    <2> QED
      BY <2>2, <2>3
  <1>7. f \in Surjection(States \X S, Pairs)
    BY <1>5, <1>6 DEF Surjection
  <1> QED
    BY <1>3, <1>7, FS_Surjection, FS_CardinalityType

(* One more edge leads from pairs to pairs. *)
LEMMA OnwardPairs ==
  ASSUME NEW t, WellTyped(t), NEW A \in SUBSET Pairs
  PROVE  Onward(t, A) \in SUBSET Pairs /\ A \subseteq Onward(t, A)
  <1>1. ASSUME NEW p \in A, NEW i \in DOMAIN t.next[p.state]
        PROVE  [state |-> t.next[p.state][i], produced |-> p.produced \cup t.produces[p.state]] \in Pairs
    <2>1. p.state \in States /\ p.produced \in SUBSET DataKeys
      BY DEF Pairs
    <2>2. t.next[p.state] \in Seq(States) /\ t.produces[p.state] \in SUBSET DataKeys
      BY <2>1 DEF WellTyped
    <2>3. t.next[p.state][i] \in States
      BY <2>2
    <2> QED
      BY <2>1, <2>2, <2>3 DEF Pairs
  <1> QED
    BY <1>1 DEF Onward

(* The reference is right: it has the first pair, and every edge leads     *)
(* from its pairs to its pairs.                                            *)
LEMMA PathsClosed ==
  ASSUME NEW t, WellTyped(t)
  PROVE  /\ Seed(t) \in PathsTo(t) /\ PathsTo(t) \in SUBSET Pairs
         /\ Onward(t, PathsTo(t)) = PathsTo(t)
  <1>1. PICK N \in Nat : N = Cardinality(Pairs)
    BY PairsFinite
  <1>2. PICK first : first = {Seed(t)}
    OBVIOUS
  <1>3. first \in SUBSET Pairs
    BY <1>2, TablesAssumption DEF Seed, Pairs, WellTyped
  <1>4. PICK grow : grow = [A \in SUBSET Pairs |-> Onward(t, A)]
    OBVIOUS
  <1>5. grow \in [SUBSET Pairs -> SUBSET Pairs] /\ \A A \in SUBSET Pairs : A \subseteq grow[A]
    BY <1>4, OnwardPairs
  <1>6. PICK step : step = [x \in (1 .. N) \X SUBSET Pairs |-> grow[x[2]]]
    OBVIOUS
  <1>7. step \in [(1 .. N) \X SUBSET Pairs -> SUBSET Pairs]
    BY <1>5, <1>6
  <1>8. PICK f \in [0 .. N -> SUBSET Pairs] : Follows(f, first, step, N)
    BY <1>3, <1>7, LoopRuns
  <1>9. f[0] = first /\ \A n \in 1 .. N : f[n] = grow[f[n - 1]]
    <2>1. \A n \in 1 .. N : n - 1 \in 0 .. N /\ f[n - 1] \in SUBSET Pairs
      BY <1>8
    <2>2. \A n \in 1 .. N : step[<<n, f[n - 1]>>] = grow[f[n - 1]]
      BY <1>6, <2>1
    <2> QED
      BY <1>8, <2>2 DEF Follows
  <1> DEFINE Solves(g) == g = [n \in 0 .. N |-> IF n = 0 THEN {Seed(t)} ELSE Onward(t, g[n - 1])]
  <1>10. Solves(f)
    <2>1. \A n \in 0 .. N : f[n] = IF n = 0 THEN {Seed(t)} ELSE Onward(t, f[n - 1])
      <3> SUFFICES ASSUME NEW n \in 0 .. N, n # 0 PROVE f[n] = Onward(t, f[n - 1])
        BY <1>2, <1>9
      <3>1. n \in 1 .. N /\ n - 1 \in 0 .. N
        OBVIOUS
      <3>2. f[n - 1] \in SUBSET Pairs
        BY <3>1
      <3> QED
        BY <1>4, <1>9, <3>1, <3>2
    <2> QED
      BY <2>1
  <1>11. PICK w : w = CHOOSE g : Solves(g)
    OBVIOUS
  <1>12. Solves(w)
    BY <1>10, <1>11
  <1>13. PathsTo(t) = w[N]
    BY <1>1, <1>11 DEF PathsTo
  <1>14. w[0] = first /\ \A n \in 1 .. N : w[n] = Onward(t, w[n - 1])
    <2>1. \A n \in 0 .. N : w[n] = IF n = 0 THEN {Seed(t)} ELSE Onward(t, w[n - 1])
      BY <1>12
    <2>2. 0 \in 0 .. N /\ \A n \in 1 .. N : n \in 0 .. N /\ n # 0
      OBVIOUS
    <2> QED
      BY <1>2, <2>1, <2>2
  <1> HIDE DEF Solves
  <1>15. \A n \in 0 .. N : w[n] = f[n]
    <2>1. PICK P : P = {n \in 0 .. N : w[n] = f[n]}
      OBVIOUS
    <2>2. 0 \in P
      BY <1>9, <1>14, <2>1
    <2>3. ASSUME NEW n \in 0 .. N - 1, n \in P PROVE n + 1 \in P
      <3>1. n + 1 \in 1 .. N /\ n + 1 \in 0 .. N /\ (n + 1) - 1 = n /\ n \in 0 .. N
        OBVIOUS
      <3>2. w[n] = f[n] /\ f[n] \in SUBSET Pairs
        BY <2>1, <2>3, <3>1
      <3>3. w[n + 1] = Onward(t, w[n]) /\ f[n + 1] = grow[f[n]]
        BY <1>9, <1>14, <3>1
      <3> QED
        BY <1>4, <2>1, <3>1, <3>2, <3>3
    <2> QED
      BY <2>1, <2>2, <2>3, CountsUp
  <1>16. IsFiniteSet(Pairs \ first) /\ Cardinality(Pairs \ first) <= N
    <2>1. Pairs \ first \in SUBSET Pairs
      OBVIOUS
    <2> QED
      BY <1>1, <2>1, PairsFinite, FS_Subset
  <1>17. grow[f[N]] = f[N] /\ first \subseteq f[N] /\ f[N] \in SUBSET Pairs
    <2>1. Adds(grow, Pairs)
      BY <1>5 DEF Adds
    <2>2. GrowsBy(f, first, grow, N)
      BY <1>9 DEF GrowsBy
    <2> QED
      BY <1>3, <1>16, <2>1, <2>2, LoopRests
  <1>18. PathsTo(t) = f[N]
    BY <1>13, <1>15
  <1> QED
    BY <1>2, <1>4, <1>17, <1>18

Seen == [States -> SUBSET SUBSET DataKeys]
Entries == [state : States, produced : SUBSET DataKeys, trail : Seq(Pairs)]
LoopDone == [seen : Seen, pushed : Seq(Entries)]
PairOf(e) == [state |-> e.state, produced |-> e.produced]

NoneTwice(trail) == \A j, k \in 1 .. Len(trail) : trail[j] = trail[k] => j = k

(* What lies on a trail was noted in visited, with at least that data.     *)
Noted(seen, trail, produced) ==
  \A k \in 1 .. Len(trail) :
    trail[k].produced \subseteq produced /\ Already(seen, trail[k].state, trail[k].produced)

(* What the loop over the successors pushes. *)
PushedBy(e, nexts, produced, trail) ==
  /\ \E k \in 1 .. Len(nexts) : e.state = nexts[k]
  /\ e.produced = produced
  /\ e.trail = Append(trail, [state |-> e.state, produced |-> produced])
  /\ NoneTwice(e.trail)

KeepsNoted(before, after, produced) ==
  \A n \in States : \A D \in SUBSET produced : Already(before, n, D) => Already(after, n, D)

LoopOK(done, nexts, produced, seen, trail) ==
  /\ done \in LoopDone
  /\ KeepsNoted(seen, done.seen, produced)
  /\ \A i \in 1 .. Len(done.pushed) :
       /\ PushedBy(done.pushed[i], nexts, produced, trail)
       /\ Already(done.seen, done.pushed[i].state, produced)

(* Pushing a successor forgets nothing that was noted with less data. *)
LEMMA VisitNotes ==
  ASSUME NEW seen \in Seen, NEW n \in States, NEW P \in SUBSET DataKeys,
         NEW after, after = [seen EXCEPT ![n] = {P}]
  PROVE  after \in Seen /\ KeepsNoted(seen, after, P) /\ Already(after, n, P)
  <1>1. after \in Seen
    BY DEF Seen
  <1>2. after[n] = {P} /\ \A m \in States : m # n => after[m] = seen[m]
    BY DEF Seen
  <1>3. Already(after, n, P)
    BY <1>2 DEF Already
  <1>4. ASSUME NEW m \in States, NEW D \in SUBSET P, Already(seen, m, D) PROVE Already(after, m, D)
    <2>1. CASE m = n
      BY <1>2, <2>1 DEF Already
    <2>2. CASE m # n
      BY <1>2, <1>4, <2>2 DEF Already
    <2> QED
      BY <2>1, <2>2
  <1> QED
    BY <1>1, <1>3, <1>4 DEF KeepsNoted

(* A trail that grows by a pair it does not have. *)
LEMMA TrailGrows ==
  ASSUME NEW trail \in Seq(Pairs), NEW p \in Pairs, NoneTwice(trail),
         \A k \in 1 .. Len(trail) : trail[k] # p
  PROVE  Append(trail, p) \in Seq(Pairs) /\ NoneTwice(Append(trail, p))
  <1>1. PICK m \in Nat : m = Len(trail)
    OBVIOUS
  <1>2. PICK t : t = Append(trail, p)
    OBVIOUS
  <1>3. t \in Seq(Pairs) /\ Len(t) = m + 1 /\ t[m + 1] = p /\ \A k \in 1 .. m : t[k] = trail[k]
    BY <1>1, <1>2
  <1>4. ASSUME NEW j \in 1 .. m + 1, NEW k \in 1 .. m + 1, t[j] = t[k] PROVE j = k
    <2>1. CASE j \in 1 .. m /\ k \in 1 .. m
      BY <1>1, <1>3, <1>4, <2>1 DEF NoneTwice
    <2>2. CASE j = m + 1 \/ k = m + 1
      BY <1>1, <1>3, <1>4, <2>2
    <2> QED
      BY <2>1, <2>2
  <1>5. NoneTwice(t)
    BY <1>3, <1>4 DEF NoneTwice
  <1> QED
    BY <1>2, <1>3, <1>5

(* One successor in the loop. *)
LEMMA VisitKeeps ==
  ASSUME NEW nexts \in Seq(States), NEW k \in 1 .. Len(nexts), NEW P \in SUBSET DataKeys,
         NEW seen \in Seen, NEW trail \in Seq(Pairs), Noted(seen, trail, P), NoneTwice(trail),
         NEW done, LoopOK(done, nexts, P, seen, trail)
  PROVE  LoopOK(Visit(done, nexts[k], P, trail), nexts, P, seen, trail)
  <1>1. PICK n \in States : n = nexts[k]
    OBVIOUS
  <1>2. done.seen \in Seen /\ done.pushed \in Seq(Entries) /\ KeepsNoted(seen, done.seen, P)
    BY DEF LoopOK, LoopDone
  <1>3. CASE Already(done.seen, n, P)
    BY <1>1, <1>3 DEF Visit
  <1>4. CASE ~Already(done.seen, n, P)
    <2>1. PICK p : p = [state |-> n, produced |-> P]
      OBVIOUS
    <2>2. p \in Pairs /\ p.state = n /\ p.produced = P
      BY <2>1 DEF Pairs
    <2>3. \A j \in 1 .. Len(trail) : trail[j] # p
      <3> SUFFICES ASSUME NEW j \in 1 .. Len(trail), trail[j] = p PROVE FALSE
        OBVIOUS
      <3>1. Already(seen, n, P)
        BY <2>2 DEF Noted
      <3> QED
        BY <1>2, <1>4, <3>1 DEF KeepsNoted
    <2>4. PICK longer : longer = Append(trail, p)
      OBVIOUS
    <2>5. longer \in Seq(Pairs) /\ NoneTwice(longer)
      BY <2>2, <2>3, <2>4, TrailGrows
    <2>6. PICK e : e = [state |-> n, produced |-> P, trail |-> longer]
      OBVIOUS
    <2>7. e \in Entries /\ e.state = n /\ e.produced = P /\ e.trail = longer
      BY <2>5, <2>6 DEF Entries
    <2>8. PushedBy(e, nexts, P, trail)
      BY <1>1, <2>1, <2>4, <2>5, <2>7 DEF PushedBy
    <2>9. PICK after : after = [done.seen EXCEPT ![n] = {P}]
      OBVIOUS
    <2>10. after \in Seen /\ KeepsNoted(done.seen, after, P) /\ Already(after, n, P)
      BY <1>2, <2>9, VisitNotes
    <2>11. PICK pushed : pushed = Append(done.pushed, e)
      OBVIOUS
    <2>12. PICK m \in Nat : m = Len(done.pushed)
      BY <1>2
    <2>13. /\ pushed \in Seq(Entries) /\ Len(pushed) = m + 1 /\ pushed[m + 1] = e
           /\ \A i \in 1 .. m : pushed[i] = done.pushed[i]
      BY <1>2, <2>7, <2>11, <2>12
    <2>14. Visit(done, n, P, trail) = [seen |-> after, pushed |-> pushed]
      BY <1>4, <2>1, <2>4, <2>6, <2>9, <2>11 DEF Visit
    <2>15. KeepsNoted(seen, after, P)
      BY <1>2, <2>10 DEF KeepsNoted
    <2>16. ASSUME NEW i \in 1 .. m + 1
           PROVE  PushedBy(pushed[i], nexts, P, trail) /\ Already(after, pushed[i].state, P)
      <3>1. CASE i = m + 1
        BY <2>7, <2>8, <2>10, <2>13, <3>1
      <3>2. CASE i # m + 1
        <4>1. i \in 1 .. m /\ pushed[i] = done.pushed[i]
          BY <2>13, <3>2
        <4>2. PushedBy(done.pushed[i], nexts, P, trail) /\ Already(done.seen, done.pushed[i].state, P)
          BY <2>12, <4>1 DEF LoopOK
        <4>3. done.pushed[i].state \in States
          <5>1. done.pushed[i] \in Entries
            BY <1>2, <2>12, <4>1
          <5> QED
            BY <5>1 DEF Entries
        <4> QED
          BY <2>10, <4>1, <4>2, <4>3 DEF KeepsNoted
      <3> QED
        BY <3>1, <3>2
    <2>17. PICK r : r = [seen |-> after, pushed |-> pushed]
      OBVIOUS
    <2>18. r \in LoopDone /\ r.seen = after /\ r.pushed = pushed
      BY <2>10, <2>13, <2>17 DEF LoopDone
    <2>19. LoopOK(r, nexts, P, seen, trail)
      BY <2>13, <2>15, <2>16, <2>18 DEF LoopOK
    <2> QED
      BY <1>1, <2>14, <2>17, <2>19
  <1> QED
    BY <1>3, <1>4

(* The loop over the successors. *)
LEMMA PropagateIs ==
  ASSUME NEW nexts \in Seq(States), NEW P \in SUBSET DataKeys,
         NEW seen \in Seen, NEW trail \in Seq(Pairs), Noted(seen, trail, P), NoneTwice(trail)
  PROVE  LoopOK(Propagate(nexts, P, seen, trail), nexts, P, seen, trail)
  <1>1. PICK N \in Nat : N = Len(nexts)
    OBVIOUS
  <1>2. PICK first : first = [seen |-> seen, pushed |-> <<>>]
    OBVIOUS
  <1>3. first.seen = seen /\ first.pushed = <<>> /\ first \in LoopDone
    BY <1>2 DEF LoopDone
  <1>4. LoopOK(first, nexts, P, seen, trail)
    <2>1. Len(first.pushed) = 0
      BY <1>3
    <2> QED
      BY <1>3, <2>1 DEF LoopOK, KeepsNoted
  <1>5. PICK X : X = {done \in LoopDone : LoopOK(done, nexts, P, seen, trail)}
    OBVIOUS
  <1>6. PICK step : step = [x \in (1 .. N) \X X |-> Visit(x[2], nexts[x[1]], P, trail)]
    OBVIOUS
  <1>7. \A k \in 1 .. N : \A done \in X : Visit(done, nexts[k], P, trail) \in X
    <2> SUFFICES ASSUME NEW k \in 1 .. N, NEW done \in X PROVE Visit(done, nexts[k], P, trail) \in X
      OBVIOUS
    <2>1. LoopOK(done, nexts, P, seen, trail)
      BY <1>5
    <2>2. LoopOK(Visit(done, nexts[k], P, trail), nexts, P, seen, trail)
      BY <1>1, <2>1, VisitKeeps
    <2> QED
      BY <1>5, <2>2 DEF LoopOK
  <1>8. step \in [(1 .. N) \X X -> X]
    BY <1>6, <1>7
  <1>9. first \in X
    BY <1>3, <1>4, <1>5
  <1>10. PICK f \in [0 .. N -> X] : Follows(f, first, step, N)
    BY <1>8, <1>9, LoopRuns
  <1> DEFINE Solves(g) ==
        g = [i \in 0 .. N |-> IF i = 0 THEN [seen |-> seen, pushed |-> <<>>]
                              ELSE Visit(g[i - 1], nexts[i], P, trail)]
  <1>11. Solves(f)
    <2>1. \A i \in 0 .. N : f[i] = IF i = 0 THEN [seen |-> seen, pushed |-> <<>>]
                                   ELSE Visit(f[i - 1], nexts[i], P, trail)
      <3>1. f[0] = [seen |-> seen, pushed |-> <<>>]
        BY <1>2, <1>10 DEF Follows
      <3>2. ASSUME NEW i \in 0 .. N, i # 0 PROVE f[i] = Visit(f[i - 1], nexts[i], P, trail)
        <4>1. i \in 1 .. N /\ i - 1 \in 0 .. N
          BY <3>2
        <4>2. f[i - 1] \in X /\ <<i, f[i - 1]>> \in (1 .. N) \X X
          BY <4>1
        <4>3. f[i] = step[<<i, f[i - 1]>>]
          BY <1>10, <4>1 DEF Follows
        <4> QED
          BY <1>6, <4>2, <4>3
      <3> QED
        BY <3>1, <3>2
    <2> QED
      BY <2>1
  <1>12. PICK w : w = CHOOSE g : Solves(g)
    OBVIOUS
  <1>13. Solves(w)
    BY <1>11, <1>12
  <1>14. Propagate(nexts, P, seen, trail) = w[N]
    BY <1>1, <1>12 DEF Propagate
  <1>15. \A i \in 0 .. N : w[i] = IF i = 0 THEN [seen |-> seen, pushed |-> <<>>]
                                 ELSE Visit(w[i - 1], nexts[i], P, trail)
    BY <1>13
  <1> HIDE DEF Solves
  <1>16. \A i \in 0 .. N : w[i] \in X
    <2>1. PICK Q : Q = {i \in 0 .. N : w[i] \in X}
      OBVIOUS
    <2>2. 0 \in Q
      BY <1>2, <1>9, <1>15, <2>1
    <2>3. ASSUME NEW n \in 0 .. N - 1, n \in Q PROVE n + 1 \in Q
      <3>1. n + 1 \in 1 .. N /\ n + 1 \in 0 .. N /\ (n + 1) - 1 = n /\ n + 1 # 0
        OBVIOUS
      <3>2. w[n + 1] = Visit(w[n], nexts[n + 1], P, trail)
        BY <1>15, <3>1
      <3> QED
        BY <1>7, <2>1, <2>3, <3>1, <3>2
    <2> QED
      BY <2>1, <2>2, <2>3, CountsUp
  <1>17. w[N] \in X
    BY <1>16
  <1> QED
    BY <1>5, <1>14, <1>17

EntryOK(t, seen, e) ==
  /\ PairOf(e) \in PathsTo(t)
  /\ Noted(seen, e.trail, e.produced) /\ NoneTwice(e.trail)

(* The inductive invariant of rule 6: further up the stack nothing was     *)
(* lost of what was produced, so what is noted covers every trail.         *)
WalkInv ==
  /\ WellTyped(table) /\ walk \in Seq(Entries) /\ visited \in Seen
  /\ \A i \in 1 .. Len(walk) : EntryOK(table, visited, walk[i])
  /\ \A i, j \in 1 .. Len(walk) : i <= j => walk[i].produced \subseteq walk[j].produced
  /\ reported \subseteq Lacking

(* What is noted with less data is noted with more. *)
LEMMA NotedAgain ==
  ASSUME NEW seen, NEW after, NEW trail \in Seq(Pairs), NEW produced, NEW more,
         produced \subseteq more, KeepsNoted(seen, after, more), Noted(seen, trail, produced)
  PROVE  Noted(after, trail, produced)
  <1> SUFFICES ASSUME NEW k \in 1 .. Len(trail) PROVE Already(after, trail[k].state, trail[k].produced)
    BY DEF Noted
  <1>1. trail[k] \in Pairs
    OBVIOUS
  <1>2. trail[k].state \in States /\ trail[k].produced \subseteq more
    BY <1>1 DEF Pairs, Noted
  <1>3. Already(seen, trail[k].state, trail[k].produced)
    BY DEF Noted
  <1> QED
    BY <1>2, <1>3 DEF KeepsNoted

(* A successor that was pushed is as good an entry as the one it came from. *)
LEMMA PushedOK ==
  ASSUME NEW t, WellTyped(t), NEW from \in Entries, NEW seen, NEW after, NEW P,
         P = from.produced \cup t.produces[from.state], EntryOK(t, seen, from),
         KeepsNoted(seen, after, P), NEW e, PushedBy(e, t.next[from.state], P, from.trail),
         Already(after, e.state, P)
  PROVE  EntryOK(t, after, e)
  <1>1. from.state \in States /\ from.produced \in SUBSET DataKeys /\ from.trail \in Seq(Pairs)
    BY DEF Entries
  <1>2. t.next[from.state] \in Seq(States)
    BY <1>1 DEF WellTyped
  <1>3. PICK k \in 1 .. Len(t.next[from.state]) : e.state = t.next[from.state][k]
    BY DEF PushedBy
  <1>4. k \in DOMAIN t.next[from.state]
    BY <1>2
  <1>5. e.produced = P /\ e.trail = Append(from.trail, [state |-> e.state, produced |-> P])
        /\ NoneTwice(e.trail)
    BY DEF PushedBy
  <1>6. PairOf(e) \in PathsTo(t)
    <2>1. PICK p : p = PairOf(from)
      OBVIOUS
    <2>2. p \in PathsTo(t) /\ p.state = from.state /\ p.produced = from.produced
      BY <2>1 DEF EntryOK, PairOf
    <2>3. PairOf(e) = [state |-> t.next[p.state][k], produced |-> p.produced \cup t.produces[p.state]]
      BY <1>3, <1>5, <2>2 DEF PairOf
    <2>4. PairOf(e) \in Onward(t, PathsTo(t))
      <3>1. PICK S : S = {[state |-> t.next[p.state][i], produced |-> p.produced \cup t.produces[p.state]]
                            : i \in DOMAIN t.next[p.state]}
        OBVIOUS
      <3>2. PairOf(e) \in S
        BY <1>4, <2>2, <2>3, <3>1
      <3>3. S \subseteq Onward(t, PathsTo(t))
        BY <2>2, <3>1 DEF Onward
      <3> QED
        BY <3>2, <3>3
    <2> QED
      BY <2>4, PathsClosed
  <1>7. Noted(after, e.trail, P)
    <2>1. PICK m \in Nat : m = Len(from.trail)
      BY <1>1
    <2>2. PICK p : p = [state |-> e.state, produced |-> P]
      OBVIOUS
    <2>3. p.state = e.state /\ p.produced = P
      BY <2>2
    <2>4. Len(e.trail) = m + 1 /\ e.trail[m + 1] = p /\ \A i \in 1 .. m : e.trail[i] = from.trail[i]
      BY <1>1, <1>5, <2>1, <2>2
    <2>5. Noted(after, from.trail, from.produced)
      BY <1>1, NotedAgain DEF EntryOK
    <2>6. \A i \in 1 .. m : /\ from.trail[i].produced \subseteq P
                            /\ Already(after, from.trail[i].state, from.trail[i].produced)
      BY <2>1, <2>5 DEF Noted
    <2>7. ASSUME NEW i \in 1 .. m + 1
          PROVE  e.trail[i].produced \subseteq P /\ Already(after, e.trail[i].state, e.trail[i].produced)
      <3>1. CASE i = m + 1
        BY <2>3, <2>4, <3>1
      <3>2. CASE i # m + 1
        <4>1. i \in 1 .. m
          BY <3>2
        <4> QED
          BY <2>4, <2>6, <4>1
      <3> QED
        BY <3>1, <3>2
    <2> QED
      BY <2>4, <2>7 DEF Noted
  <1> QED
    BY <1>5, <1>6, <1>7 DEF EntryOK

(* A turn of the loop of rule 6 keeps its invariant. *)
LEMMA CheckKeeps ==
  ASSUME WalkInv, CheckRequiresProduces
  PROVE  WalkInv'
  <1>1. PICK m \in Nat \ {0} : m = Len(walk)
    BY DEF WalkInv, CheckRequiresProduces
  <1>2. PICK top : top = walk[m]
    OBVIOUS
  <1>3. top \in Entries /\ EntryOK(table, visited, top) /\ Top = top
    BY <1>1, <1>2 DEF WalkInv, Top
  <1>4. top.state \in States /\ top.produced \in SUBSET DataKeys /\ top.trail \in Seq(Pairs)
    BY <1>3 DEF Entries
  <1>5. PICK nexts : nexts = table.next[top.state]
    OBVIOUS
  <1>6. PICK P : P = top.produced \cup table.produces[top.state]
    OBVIOUS
  <1>7. nexts \in Seq(States) /\ P \in SUBSET DataKeys /\ visited \in Seen
    BY <1>4, <1>5, <1>6 DEF WalkInv, WellTyped
  <1>8. PICK r : r = Propagate(nexts, P, visited, top.trail)
    OBVIOUS
  <1>9. Noted(visited, top.trail, P) /\ NoneTwice(top.trail)
    BY <1>3, <1>6 DEF EntryOK, Noted
  <1>10. LoopOK(r, nexts, P, visited, top.trail)
    BY <1>4, <1>7, <1>8, <1>9, PropagateIs
  <1>11. PICK below : below = SubSeq(walk, 1, m - 1)
    OBVIOUS
  <1>12. walk' = below \o r.pushed /\ visited' = r.seen /\ table' = table
    BY <1>1, <1>3, <1>5, <1>6, <1>8, <1>11 DEF CheckRequiresProduces, Succ, ProducedAfter
  <1>13. below \in Seq(Entries) /\ Len(below) = m - 1 /\ \A i \in 1 .. m - 1 : below[i] = walk[i]
    <2>1. walk \in Seq(Entries) /\ \A i \in 1 .. m - 1 : walk[i] \in Entries
      BY <1>1 DEF WalkInv
    <2>2. /\ below \in Seq(Entries)
          /\ Len(below) = IF 1 <= m - 1 THEN m - 1 - 1 + 1 ELSE 0
          /\ \A i \in 1 .. m - 1 - 1 + 1 : below[i] = walk[1 + i - 1]
      BY <1>11, <2>1, SubSeqProperties
    <2>3. Len(below) = m - 1
      BY <1>1, <2>2
    <2> QED
      BY <2>2, <2>3
  <1>14. r.seen \in Seen /\ r.pushed \in Seq(Entries) /\ KeepsNoted(visited, r.seen, P)
    BY <1>10 DEF LoopOK, LoopDone
  <1>15. PICK q \in Nat : q = Len(r.pushed)
    BY <1>14
  <1>16. walk' \in Seq(Entries) /\ Len(walk') = m - 1 + q
         /\ (\A i \in 1 .. m - 1 : walk'[i] = walk[i])
         /\ (\A i \in 1 .. q : walk'[m - 1 + i] = r.pushed[i])
    <2>1. walk' \in Seq(Entries)
      BY <1>12, <1>13, <1>14, ConcatProperties
    <2>2. Len(walk') = m - 1 + q
      <3>1. Len(below \o r.pushed) = Len(below) + Len(r.pushed)
        BY <1>13, <1>14, ConcatProperties
      <3> QED
        BY <1>12, <1>13, <1>15, <3>1
    <2>3. \A i \in 1 .. m - 1 + q : walk'[i] = IF i <= m - 1 THEN below[i] ELSE r.pushed[i - (m - 1)]
      BY <1>12, <1>13, <1>14, <1>15, ConcatProperties
    <2>4. ASSUME NEW i \in 1 .. q PROVE walk'[m - 1 + i] = r.pushed[i]
      <3>1. PICK k \in 1 .. m - 1 + q : k = m - 1 + i
        OBVIOUS
      <3>2. ~(k <= m - 1) /\ k - (m - 1) = i
        BY <3>1
      <3> QED
        BY <2>3, <3>1, <3>2
    <2> QED
      BY <1>13, <2>1, <2>2, <2>3, <2>4
  <1>17. \A i \in 1 .. m - 1 : walk[i].produced \subseteq top.produced
    BY <1>1, <1>2 DEF WalkInv
  <1>18. \A i \in 1 .. q : r.pushed[i].produced = P
    BY <1>10, <1>15 DEF LoopOK, PushedBy
  <1>19. ASSUME NEW i \in 1 .. m - 1 + q
         PROVE  \/ i \in 1 .. m - 1 /\ walk'[i] = walk[i]
                \/ \E k \in 1 .. q : i = m - 1 + k /\ walk'[i] = r.pushed[k]
    <2>1. CASE i <= m - 1
      BY <1>16, <2>1
    <2>2. CASE i > m - 1
      <3>1. i - (m - 1) \in 1 .. q /\ i = m - 1 + (i - (m - 1))
        BY <2>2
      <3> QED
        BY <1>16, <3>1
    <2> QED
      BY <2>1, <2>2
  <1>20. ASSUME NEW i \in 1 .. m - 1 + q PROVE EntryOK(table, r.seen, walk'[i])
    <2>1. CASE i \in 1 .. m - 1 /\ walk'[i] = walk[i]
      <3>1. walk[i] \in Entries /\ EntryOK(table, visited, walk[i])
        BY <1>1, <2>1 DEF WalkInv
      <3>2. walk[i].trail \in Seq(Pairs) /\ walk[i].produced \subseteq P
        BY <1>6, <1>17, <2>1, <3>1 DEF Entries
      <3>3. Noted(r.seen, walk[i].trail, walk[i].produced)
        BY <1>14, <3>1, <3>2, NotedAgain DEF EntryOK
      <3> QED
        BY <2>1, <3>1, <3>3 DEF EntryOK
    <2>2. ASSUME NEW k \in 1 .. q, walk'[i] = r.pushed[k] PROVE EntryOK(table, r.seen, walk'[i])
      <3>1. PushedBy(r.pushed[k], nexts, P, top.trail) /\ Already(r.seen, r.pushed[k].state, P)
        BY <1>10, <1>15 DEF LoopOK
      <3>2. WellTyped(table)
        BY DEF WalkInv
      <3>3. EntryOK(table, r.seen, r.pushed[k])
        BY <1>3, <1>5, <1>6, <1>14, <3>1, <3>2, PushedOK
      <3> QED
        BY <2>2, <3>3
    <2> QED
      BY <1>19, <2>1, <2>2
  <1>21. ASSUME NEW i \in 1 .. m - 1 + q, NEW j \in 1 .. m - 1 + q, i <= j
         PROVE  walk'[i].produced \subseteq walk'[j].produced
    <2>1. CASE j \in 1 .. m - 1 /\ walk'[j] = walk[j]
      <3>1. i \in 1 .. m - 1 /\ walk'[i] = walk[i] /\ i \in 1 .. m /\ j \in 1 .. m
        BY <1>16, <1>21, <2>1
      <3> QED
        BY <1>1, <1>21, <2>1, <3>1 DEF WalkInv
    <2>2. ASSUME NEW k \in 1 .. q, walk'[j] = r.pushed[k]
          PROVE  walk'[i].produced \subseteq walk'[j].produced
      <3>1. walk'[j].produced = P
        BY <1>18, <2>2
      <3>2. CASE i \in 1 .. m - 1 /\ walk'[i] = walk[i]
        BY <1>6, <1>17, <3>1, <3>2
      <3>3. ASSUME NEW l \in 1 .. q, walk'[i] = r.pushed[l] PROVE walk'[i].produced = P
        BY <1>18, <3>3
      <3> QED
        BY <1>19, <3>1, <3>2, <3>3
    <2> QED
      BY <1>19, <2>1, <2>2
  <1>22. reported' \subseteq Lacking'
    <2>1. Lacking' = Lacking
      BY <1>12 DEF Lacking
    <2>2. CASE table.requires[top.state] \subseteq top.produced
      BY <1>3, <2>1, <2>2 DEF CheckRequiresProduces, WalkInv
    <2>3. CASE ~(table.requires[top.state] \subseteq top.produced)
      <3>1. reported' = reported \cup {top.state}
        BY <1>3, <2>3 DEF CheckRequiresProduces
      <3>2. PICK p : p = PairOf(top)
        OBVIOUS
      <3>3. p \in PathsTo(table) /\ p.state = top.state /\ p.produced = top.produced
        BY <1>3, <3>2 DEF EntryOK, PairOf
      <3>4. top.state \in Lacking
        BY <2>3, <3>3 DEF Lacking
      <3> QED
        BY <2>1, <3>1, <3>4 DEF WalkInv
    <2> QED
      BY <2>2, <2>3
  <1>23. WellTyped(table')
    BY <1>12 DEF WalkInv
  <1> QED
    BY <1>12, <1>14, <1>16, <1>20, <1>21, <1>22, <1>23 DEF WalkInv

(* The check starts with the initial state on the stack, or with nothing to do. *)
LEMMA WalkInitInv ==
  ASSUME WellTyped(table), visited = [s \in States |-> {}], reported = {},
         \/ walk = <<>>
         \/ walk = <<[state |-> InitialState, produced |-> Seed(table).produced, trail |-> <<>>]>>
  PROVE  WalkInv
  <1>1. visited \in Seen
    BY DEF Seen
  <1>2. CASE walk = <<>>
    <2>1. Len(walk) = 0 /\ walk \in Seq(Entries)
      BY <1>2
    <2> QED
      BY <1>1, <2>1 DEF WalkInv
  <1>3. CASE walk # <<>>
    <2>1. PICK e : e = [state |-> InitialState, produced |-> Seed(table).produced, trail |-> <<>>]
      OBVIOUS
    <2>2. walk = <<e>>
      BY <1>3, <2>1
    <2>3. Seed(table).produced \in SUBSET DataKeys
      BY TablesAssumption DEF Seed, WellTyped
    <2>4. e \in Entries /\ e.state = InitialState /\ e.produced = Seed(table).produced /\ e.trail = <<>>
      BY <2>1, <2>3, TablesAssumption DEF Entries
    <2>5. walk \in Seq(Entries) /\ Len(walk) = 1 /\ walk[1] = e
      BY <2>2, <2>4
    <2>6. Len(e.trail) = 0
      BY <2>4
    <2>7. PairOf(e) = Seed(table)
      BY <2>4 DEF PairOf, Seed
    <2>8. EntryOK(table, visited, e)
      BY <2>6, <2>7, PathsClosed DEF EntryOK, Noted, NoneTwice
    <2> QED
      BY <1>1, <2>5, <2>8 DEF WalkInv
  <1> QED
    BY <1>2, <1>3

(* Every step of the checks keeps what rule 6 relies on. *)
LEMMA WalkStepInv == WalkInv /\ [ValidationNext]_validationVars => WalkInv'
  <1> SUFFICES ASSUME WalkInv, [ValidationNext]_validationVars PROVE WalkInv'
    OBVIOUS
  <1>1. ASSUME UNCHANGED <<table, walkVars>> PROVE WalkInv'
    <2>1. table' = table /\ walk' = walk /\ visited' = visited /\ reported' = reported
      BY <1>1 DEF walkVars
    <2>2. Lacking' = Lacking
      BY <2>1 DEF Lacking
    <2> QED
      BY <2>1, <2>2 DEF WalkInv
  <1>2. CASE UNCHANGED validationVars
    BY <1>1, <1>2 DEF validationVars
  <1>3. CASE \E s \in States : CycleStart(s)
    BY <1>1, <1>3 DEF CycleStart
  <1>4. CASE CycleDescend \/ CycleSkip \/ CycleFound \/ CycleFinish
    BY <1>1, <1>4 DEF CycleDescend, CycleSkip, CycleFound, CycleFinish
  <1> QED
    BY <1>2, <1>3, <1>4, CheckKeeps DEF ValidationNext

(* Rule 6 reports what is so and ends. *)
LEMMA WalkInvGives == WalkInv => ReportsAreReal /\ WalkEnds
  <1> SUFFICES ASSUME WalkInv PROVE ReportsAreReal /\ WalkEnds
    OBVIOUS
  <1>1. ReportsAreReal
    BY DEF WalkInv, ReportsAreReal
  <1>2. ASSUME NEW i \in DOMAIN walk
        PROVE  /\ \A j, k \in DOMAIN walk[i].trail : walk[i].trail[j] = walk[i].trail[k] => j = k
               /\ Len(walk[i].trail) <= Cardinality(Pairs)
    <2>1. i \in 1 .. Len(walk) /\ walk[i] \in Entries
      BY DEF WalkInv
    <2>2. PICK trail : trail = walk[i].trail
      OBVIOUS
    <2>3. trail \in Seq(Pairs) /\ NoneTwice(trail)
      BY <2>1, <2>2 DEF Entries, WalkInv, EntryOK
    <2>4. PICK L \in Nat : L = Len(trail)
      BY <2>3
    <2>5. DOMAIN trail = 1 .. L /\ trail \in [1 .. L -> Pairs]
      BY <2>3, <2>4
    <2>6. \A j, k \in 1 .. L : trail[j] = trail[k] => j = k
      BY <2>3, <2>4 DEF NoneTwice
    <2>7. trail \in Injection(1 .. L, Pairs)
      BY <2>5, <2>6 DEF Injection, IsInjective
    <2>8. Cardinality(1 .. L) <= Cardinality(Pairs)
      BY <2>7, PairsFinite, FS_Injection
    <2>9. Cardinality(1 .. L) = L
      BY FS_Interval
    <2> QED
      BY <2>2, <2>4, <2>5, <2>6, <2>8, <2>9
  <1>3. WalkEnds
    BY <1>2 DEF WalkEnds
  <1> QED
    BY <1>1, <1>3

-----------------------------------------------------------------------------
(* FlowValidation: the rules about reachability, and the gate.             *)

ClosedUnder(edges, S) == \A e \in edges : e[1] \in S => e[3] \in S
Further(edges, S) == S \cup {e[3] : e \in {d \in edges : d[1] \in S}}

(* Closure is the smallest set that is closed under the edges. *)
LEMMA ClosureIs ==
  ASSUME NEW edges, IsFiniteSet(edges), NEW from
  PROVE  /\ from \subseteq Closure(edges, from) /\ ClosedUnder(edges, Closure(edges, from))
         /\ \A S : from \subseteq S /\ ClosedUnder(edges, S) => Closure(edges, from) \subseteq S
  <1>1. PICK N \in Nat : N = Cardinality(edges)
    BY FS_CardinalityType
  <1>2. PICK ends : ends = {e[3] : e \in edges}
    OBVIOUS
  <1>3. PICK B : B = from \cup ends
    OBVIOUS
  <1>4. IsFiniteSet(ends) /\ Cardinality(ends) <= N
    <2>1. PICK f : f = [e \in edges |-> e[3]]
      OBVIOUS
    <2>2. f \in Surjection(edges, ends)
      BY <1>2, <2>1 DEF Surjection
    <2> QED
      BY <1>1, <2>2, FS_Surjection
  <1>5. IsFiniteSet(B \ from) /\ Cardinality(B \ from) <= N
    <2>1. B \ from \in SUBSET ends
      BY <1>3
    <2>2. IsFiniteSet(B \ from) /\ Cardinality(B \ from) <= Cardinality(ends)
      BY <1>4, <2>1, FS_Subset
    <2>3. Cardinality(B \ from) \in Nat /\ Cardinality(ends) \in Nat
      BY <1>4, <2>2, FS_CardinalityType
    <2> QED
      BY <1>4, <2>2, <2>3
  <1>6. PICK grow : grow = [A \in SUBSET B |-> Further(edges, A)]
    OBVIOUS
  <1>7. Adds(grow, B)
    <2>1. \A A \in SUBSET B : Further(edges, A) \in SUBSET B /\ A \subseteq Further(edges, A)
      BY <1>2, <1>3 DEF Further
    <2> QED
      BY <1>6, <2>1 DEF Adds
  <1>8. from \in SUBSET B
    BY <1>3
  <1>9. PICK step : step = [x \in (1 .. N) \X SUBSET B |-> grow[x[2]]]
    OBVIOUS
  <1>10. step \in [(1 .. N) \X SUBSET B -> SUBSET B]
    BY <1>7, <1>9 DEF Adds
  <1>11. PICK f \in [0 .. N -> SUBSET B] : Follows(f, from, step, N)
    BY <1>8, <1>10, LoopRuns
  <1>12. f[0] = from /\ \A n \in 1 .. N : f[n] = grow[f[n - 1]] /\ f[n] = Further(edges, f[n - 1])
    <2>1. \A n \in 1 .. N : n - 1 \in 0 .. N /\ f[n - 1] \in SUBSET B
      BY <1>11
    <2>2. \A n \in 1 .. N : step[<<n, f[n - 1]>>] = grow[f[n - 1]]
      BY <1>9, <2>1
    <2>3. \A n \in 1 .. N : grow[f[n - 1]] = Further(edges, f[n - 1])
      BY <1>6, <2>1
    <2> QED
      BY <1>11, <2>2, <2>3 DEF Follows
  <1> DEFINE Solves(g) == g = [n \in 0 .. N |-> IF n = 0 THEN from ELSE Further(edges, g[n - 1])]
  <1>13. Solves(f)
    <2>1. \A n \in 0 .. N : f[n] = IF n = 0 THEN from ELSE Further(edges, f[n - 1])
      <3> SUFFICES ASSUME NEW n \in 0 .. N, n # 0 PROVE f[n] = Further(edges, f[n - 1])
        BY <1>12
      <3>1. n \in 1 .. N
        OBVIOUS
      <3> QED
        BY <1>12, <3>1
    <2> QED
      BY <2>1
  <1>14. PICK w : w = CHOOSE g : Solves(g)
    OBVIOUS
  <1>15. Solves(w)
    BY <1>13, <1>14
  <1>16. Closure(edges, from) = w[N]
    BY <1>1, <1>14 DEF Closure, Further
  <1>17. w[0] = from /\ \A n \in 1 .. N : w[n] = Further(edges, w[n - 1])
    <2>1. \A n \in 0 .. N : w[n] = IF n = 0 THEN from ELSE Further(edges, w[n - 1])
      BY <1>15
    <2>2. 0 \in 0 .. N /\ \A n \in 1 .. N : n \in 0 .. N /\ n # 0
      OBVIOUS
    <2> QED
      BY <2>1, <2>2
  <1> HIDE DEF Solves
  <1>18. \A n \in 0 .. N : w[n] = f[n]
    <2>1. PICK P : P = {n \in 0 .. N : w[n] = f[n]}
      OBVIOUS
    <2>2. 0 \in P
      BY <1>12, <1>17, <2>1
    <2>3. ASSUME NEW n \in 0 .. N - 1, n \in P PROVE n + 1 \in P
      <3>1. n + 1 \in 1 .. N /\ n + 1 \in 0 .. N /\ (n + 1) - 1 = n
        OBVIOUS
      <3>2. w[n + 1] = Further(edges, w[n]) /\ f[n + 1] = Further(edges, f[n])
        BY <1>12, <1>17, <3>1
      <3> QED
        BY <2>1, <2>3, <3>1, <3>2
    <2> QED
      BY <2>1, <2>2, <2>3, CountsUp
  <1>19. GrowsBy(f, from, grow, N)
    BY <1>12 DEF GrowsBy
  <1>20. grow[f[N]] = f[N] /\ from \subseteq f[N] /\ f[N] \in SUBSET B
    BY <1>5, <1>7, <1>8, <1>19, LoopRests
  <1>21. Closure(edges, from) = f[N]
    BY <1>16, <1>18
  <1>22. ClosedUnder(edges, f[N])
    <2>1. Further(edges, f[N]) = f[N]
      BY <1>6, <1>20
    <2> QED
      BY <2>1 DEF ClosedUnder, Further
  <1>23. ASSUME NEW S, from \subseteq S, ClosedUnder(edges, S) PROVE f[N] \subseteq S
    <2>1. \A n \in 1 .. N : f[n - 1] \subseteq S => f[n] \subseteq S
      BY <1>12, <1>23 DEF Further, ClosedUnder
    <2>2. f[0] \subseteq S
      BY <1>12, <1>23
    <2> QED
      BY <2>1, <2>2, LoopStays
  <1> QED
    BY <1>20, <1>21, <1>22, <1>23

(* The states from which the engine comes to s by itself. *)
Before(edges, s) ==
  {x \in {e[1] : e \in edges} : \E e \in edges : e[1] = x /\ s \in Closure(edges, {e[3]})}

(* Without a cycle no state comes before itself, and a step adds one. *)
LEMMA BeforeGrows ==
  ASSUME NEW edges, IsFiniteSet(edges), ~FindCycle(edges), NEW e \in edges
  PROVE  /\ Before(edges, e[1]) \cup {e[1]} \subseteq Before(edges, e[3])
         /\ e[1] \notin Before(edges, e[1])
  <1>1. e[1] \notin Before(edges, e[1])
    BY DEF FindCycle, Before
  <1>2. e[1] \in Before(edges, e[3])
    <2>1. {e[3]} \subseteq Closure(edges, {e[3]})
      BY ClosureIs
    <2> QED
      BY <2>1 DEF Before
  <1>3. ASSUME NEW x \in Before(edges, e[1]) PROVE x \in Before(edges, e[3])
    <2>1. PICK d \in edges : d[1] = x /\ e[1] \in Closure(edges, {d[3]})
      BY DEF Before
    <2>2. ClosedUnder(edges, Closure(edges, {d[3]}))
      BY ClosureIs
    <2>3. e[3] \in Closure(edges, {d[3]})
      BY <2>1, <2>2 DEF ClosedUnder
    <2> QED
      BY <2>1, <2>3 DEF Before
  <1> QED
    BY <1>1, <1>2, <1>3

(* No state comes before itself. *)
LEMMA NotBeforeItself ==
  ASSUME NEW edges, ~FindCycle(edges), NEW s
  PROVE  s \notin Before(edges, s)
  BY DEF FindCycle, Before

(* How far into its flow a state lies, for all tables of viz.rs. *)
Depth(s) ==
  IF s \in {"Init", "ChallengeShown", "ConsentShown", "Start", "Requested", "NotConfigured",
            "PasswordAccepted", "Pending"} THEN 0
  ELSE IF s \in {"Redirected", "RegChallenge", "AuthChallenge", "AccountSwitching",
                 "EmailVerificationPending", "TokenIssued", "SetupStarted", "MfaRequired",
                 "Approved"} THEN 1
  ELSE IF s \in {"CallbackReceived", "AttestationReceived", "AssertionReceived", "Accepted",
                 "EmailVerified", "SendRequested", "SecretIssued", "ChallengeSent"} THEN 2
  ELSE IF s \in {"TokenExchanged", "MfaSetupOptional", "Sent", "ConfirmationPending",
                 "ChallengeVerified"} THEN 3
  ELSE IF s \in {"UserResolved", "TokenVerified", "Enabled"} THEN 4
  ELSE IF s \in {"CounterChecked", "PasswordChanged"} THEN 5
  ELSE 6

(* Depth has seven values. *)
LEMMA DepthType == \A s : Depth(s) \in 0 .. 6
  BY DEF Depth

(* A table whose edges only lead deeper, with an edge into every state but *)
(* the first, none out of an end, and one external edge per state.         *)
Descends(initial, terminals, edges, external) ==
  /\ external \subseteq edges
  /\ \A e \in edges : Depth(e[1]) < Depth(e[3])
  /\ \A e \in edges : e[1] = initial \/ \E d \in edges : d[3] = e[1]
  /\ \E e \in edges : e[1] = initial
  /\ terminals # {}
  /\ \A s \in terminals : \E e \in edges : e[3] = s
  /\ \A e \in edges : e[1] \notin terminals
  /\ \A d, e \in external : d[1] = e[1] => d = e

(* Edges that only lead deeper have no cycle. *)
LEMMA DeeperHasNoCycle ==
  ASSUME NEW edges, IsFiniteSet(edges), \A e \in edges : Depth(e[1]) < Depth(e[3])
  PROVE  ~FindCycle(edges)
  <1> SUFFICES ASSUME NEW e \in edges, e[1] \in Closure(edges, {e[3]}) PROVE FALSE
    BY DEF FindCycle
  <1>1. PICK S : S = {s \in {d[1] : d \in edges} \cup {d[3] : d \in edges} : Depth(s) >= Depth(e[3])}
    OBVIOUS
  <1>2. \A s : Depth(s) \in Nat
    BY DepthType
  <1>3. {e[3]} \subseteq S
    BY <1>1, <1>2
  <1>4. ClosedUnder(edges, S)
    <2> SUFFICES ASSUME NEW d \in edges, d[1] \in S PROVE d[3] \in S
      BY DEF ClosedUnder
    <2>1. Depth(d[1]) < Depth(d[3]) /\ Depth(d[1]) >= Depth(e[3])
      BY <1>1
    <2>2. Depth(d[3]) >= Depth(e[3])
      BY <1>2, <2>1
    <2> QED
      BY <1>1, <2>2
  <1>5. e[1] \in S
    BY <1>3, <1>4, ClosureIs
  <1>6. Depth(e[1]) >= Depth(e[3]) /\ Depth(e[1]) < Depth(e[3])
    BY <1>1, <1>5
  <1> QED
    BY <1>2, <1>6

(* Every state of such a table is reached. *)
LEMMA DeeperIsReached ==
  ASSUME NEW initial, NEW edges, IsFiniteSet(edges),
         \A e \in edges : Depth(e[1]) < Depth(e[3]),
         \A e \in edges : e[1] = initial \/ \E d \in edges : d[3] = e[1]
  PROVE  \A e \in edges : /\ e[1] \in Closure(edges, {initial})
                          /\ e[3] \in Closure(edges, {initial})
  <1>1. PICK C : C = Closure(edges, {initial})
    OBVIOUS
  <1>2. initial \in C /\ ClosedUnder(edges, C)
    BY <1>1, ClosureIs
  <1>3. PICK P : P = {n \in 0 .. 6 : \A e \in edges : Depth(e[1]) <= n => e[1] \in C}
    OBVIOUS
  <1>4. \A s : Depth(s) \in Nat /\ Depth(s) <= 6
    BY DepthType
  <1>5. 0 \in P
    <2>1. ASSUME NEW e \in edges, Depth(e[1]) <= 0 PROVE e[1] \in C
      <3>1. \A d \in edges : d[3] # e[1]
        BY <1>4, <2>1
      <3> QED
        BY <1>2, <3>1
    <2> QED
      BY <1>3, <2>1
  <1>6. ASSUME NEW n \in 0 .. 6 - 1, n \in P PROVE n + 1 \in P
    <2>1. ASSUME NEW e \in edges, Depth(e[1]) <= n + 1 PROVE e[1] \in C
      <3>1. CASE e[1] = initial
        BY <1>2, <3>1
      <3>2. CASE e[1] # initial
        <4>1. PICK d \in edges : d[3] = e[1]
          BY <3>2
        <4>2. Depth(d[1]) <= n
          BY <1>4, <2>1, <4>1
        <4>3. d[1] \in C
          BY <1>3, <1>6, <4>2
        <4> QED
          BY <1>2, <4>1, <4>3 DEF ClosedUnder
      <3> QED
        BY <3>1, <3>2
    <2>2. n + 1 \in 0 .. 6
      OBVIOUS
    <2> QED
      BY <1>3, <2>1, <2>2
  <1>7. 6 \in P
    <2>1. \A n \in 0 .. 6 : n \in P
      BY <1>5, <1>6, CountsUp
    <2> QED
      BY <2>1
  <1>8. \A e \in edges : e[1] \in C
    BY <1>3, <1>4, <1>7
  <1> QED
    BY <1>1, <1>2, <1>8 DEF ClosedUnder

(* A set with no two members has at most one. *)
LEMMA OneAtMost ==
  ASSUME NEW S, \A x, y \in S : x = y
  PROVE  Cardinality(S) <= 1
  <1>1. CASE S = {}
    BY <1>1, FS_EmptySet
  <1>2. CASE S # {}
    <2>1. PICK x : S = {x}
      BY <1>2
    <2> QED
      BY <2>1, FS_Singleton
  <1> QED
    BY <1>1, <1>2

(* Such a table passes the gate. *)
LEMMA DescendingPasses ==
  ASSUME NEW initial, NEW terminals, NEW edges, NEW external, IsFiniteSet(edges),
         Descends(initial, terminals, edges, external)
  PROVE  /\ WellFormed(Table(initial, terminals, edges, external))
         /\ IsFiniteSet(Table(initial, terminals, edges, external).edges)
         /\ IsFiniteSet(Table(initial, terminals, edges, external).states)
  <1>1. PICK t : t = Table(initial, terminals, edges, external)
    OBVIOUS
  <1>2. PICK states : states = {e[1] : e \in edges} \cup {e[3] : e \in edges}
    OBVIOUS
  <1>3. /\ t.states = states /\ t.initial = initial /\ t.terminals = terminals
        /\ t.edges = edges /\ t.external = external
    BY <1>1, <1>2 DEF Table
  <1>4. \A e \in edges : e[1] \in Closure(edges, {initial}) /\ e[3] \in Closure(edges, {initial})
    BY DeeperIsReached DEF Descends
  <1>5. states \subseteq BfsReachable(t)
    BY <1>2, <1>3, <1>4 DEF BfsReachable
  <1>6. terminals \subseteq states /\ initial \in states /\ terminals # {}
    BY <1>2 DEF Descends
  <1>7. terminals \cap BfsReachable(t) # {}
    BY <1>5, <1>6
  <1>8. Sane(t)
    BY <1>2, <1>3, <1>6 DEF Sane
  <1>9. ~FindCycle(Internal(t))
    <2>1. PICK inner : inner = edges \ external
      OBVIOUS
    <2>2. inner \in SUBSET edges
      BY <2>1
    <2>3. IsFiniteSet(inner)
      BY <2>2, FS_Subset
    <2>4. \A e \in inner : Depth(e[1]) < Depth(e[3])
      BY <2>2 DEF Descends
    <2>5. ~FindCycle(inner)
      BY <2>3, <2>4, DeeperHasNoCycle
    <2> QED
      BY <1>3, <2>1, <2>5 DEF Internal
  <1>10. ASSUME NEW s \in states PROVE Cardinality({e \in external : e[1] = s}) <= 1
    <2>1. PICK S : S = {e \in external : e[1] = s}
      OBVIOUS
    <2>2. \A x, y \in S : x = y
      BY <2>1 DEF Descends
    <2> QED
      BY <2>1, <2>2, OneAtMost
  <1>11. \A e \in edges : e[1] \notin terminals
    BY DEF Descends
  <1>12. WellFormed(t)
    BY <1>3, <1>5, <1>6, <1>7, <1>8, <1>9, <1>10, <1>11 DEF WellFormed
  <1>13. IsFiniteSet(states)
    <2>1. PICK A, B : A = {e[1] : e \in edges} /\ B = {e[3] : e \in edges}
      OBVIOUS
    <2>2. PICK f, g : f = [e \in edges |-> e[1]] /\ g = [e \in edges |-> e[3]]
      OBVIOUS
    <2>3. f \in Surjection(edges, A) /\ g \in Surjection(edges, B)
      BY <2>1, <2>2 DEF Surjection
    <2>4. IsFiniteSet(A)
      BY <2>3, FS_Surjection
    <2>5. IsFiniteSet(B)
      BY <2>3, FS_Surjection
    <2>6. IsFiniteSet(A \cup B)
      BY <2>4, <2>5, FS_Union
    <2> QED
      BY <1>2, <2>1, <2>6
  <1> QED
    BY <1>1, <1>3, <1>12, <1>13

(* Sets that are listed are finite. *)
LEMMA ListedFinite ==
  ASSUME NEW a, NEW b, NEW c, NEW d, NEW e, NEW f, NEW g, NEW h
  PROVE  /\ IsFiniteSet({a, b, c})
         /\ IsFiniteSet({a, b, c, d})
         /\ IsFiniteSet({a, b, c, d, e, f})
         /\ IsFiniteSet({a, b, c, d, e, f, g})
         /\ IsFiniteSet({a, b, c, d, e, f, g, h})
  <1>1. IsFiniteSet({a})
    BY FS_Singleton
  <1>2. IsFiniteSet({a, b})
    <2>1. {a, b} = {a} \cup {b}
      OBVIOUS
    <2> QED
      BY <1>1, <2>1, FS_AddElement
  <1>3. IsFiniteSet({a, b, c})
    <2>1. {a, b, c} = {a, b} \cup {c}
      OBVIOUS
    <2> QED
      BY <1>2, <2>1, FS_AddElement
  <1>4. IsFiniteSet({a, b, c, d})
    <2>1. {a, b, c, d} = {a, b, c} \cup {d}
      OBVIOUS
    <2> QED
      BY <1>3, <2>1, FS_AddElement
  <1>5. IsFiniteSet({a, b, c, d, e})
    <2>1. {a, b, c, d, e} = {a, b, c, d} \cup {e}
      OBVIOUS
    <2> QED
      BY <1>4, <2>1, FS_AddElement
  <1>6. IsFiniteSet({a, b, c, d, e, f})
    <2>1. {a, b, c, d, e, f} = {a, b, c, d, e} \cup {f}
      OBVIOUS
    <2> QED
      BY <1>5, <2>1, FS_AddElement
  <1>7. IsFiniteSet({a, b, c, d, e, f, g})
    <2>1. {a, b, c, d, e, f, g} = {a, b, c, d, e, f} \cup {g}
      OBVIOUS
    <2> QED
      BY <1>6, <2>1, FS_AddElement
  <1>8. IsFiniteSet({a, b, c, d, e, f, g, h})
    <2>1. {a, b, c, d, e, f, g, h} = {a, b, c, d, e, f, g} \cup {h}
      OBVIOUS
    <2> QED
      BY <1>7, <2>1, FS_AddElement
  <1> QED
    BY <1>3, <1>4, <1>6, <1>7, <1>8

IsTable(t) == t = [states |-> t.states, initial |-> t.initial, terminals |-> t.terminals,
                   edges |-> t.edges, external |-> t.external]

Passes(t) == WellFormed(t) /\ IsTable(t) /\ IsFiniteSet(t.edges) /\ IsFiniteSet(t.states)

(* The tables of viz.rs pass the gate. *)
LEMMA SourcePasses == \A f \in DOMAIN FlowDescriptors : Passes(FlowDescriptors[f])
  <1>0. ASSUME NEW initial, NEW terminals, NEW edges, NEW external, IsFiniteSet(edges),
               Descends(initial, terminals, edges, external)
        PROVE  Passes(Table(initial, terminals, edges, external))
    <2>1. IsTable(Table(initial, terminals, edges, external))
      BY DEF IsTable, Table
    <2> QED
      BY <1>0, <2>1, DescendingPasses DEF Passes
  <1>1. Passes(FlowDescriptors["oidc"])
    <2>1. IsFiniteSet(OIDC)
      BY ListedFinite DEF OIDC
    <2>2. OIDC_EXTERNAL \subseteq OIDC /\ \A d, e \in OIDC_EXTERNAL : d[1] = e[1] => d = e
      BY DEF OIDC, OIDC_EXTERNAL, Labelled
    <2>3. \A e \in OIDC : Depth(e[1]) < Depth(e[3])
      BY DEF OIDC, Depth
    <2>4. /\ \A e \in OIDC : e[1] = "Init" \/ \E d \in OIDC : d[3] = e[1]
          /\ \E e \in OIDC : e[1] = "Init"
      BY DEF OIDC
    <2>5. PICK ends : ends = {"Complete", "CompleteMfaPending", "TerminalError"}
      OBVIOUS
    <2>6. ends # {} /\ (\A s \in ends : \E e \in OIDC : e[3] = s) /\ \A e \in OIDC : e[1] \notin ends
      BY <2>5 DEF OIDC
    <2>7. Descends("Init", ends, OIDC, OIDC_EXTERNAL)
      BY <2>2, <2>3, <2>4, <2>6 DEF Descends
    <2>8. FlowDescriptors["oidc"] = Table("Init", ends, OIDC, OIDC_EXTERNAL)
      BY <2>5 DEF FlowDescriptors
    <2> QED
      BY <1>0, <2>1, <2>7, <2>8
  <1>2. Passes(FlowDescriptors["passkey"])
    <2>1. IsFiniteSet(PASSKEY)
      <3>1. PICK S : S = {e \in PASSKEY : e[2] \in {"register_start", "attestation_ext", "verify_and_store",
                            "already_registered", "attestation_invalid", "discover_start"}}
        OBVIOUS
      <3>2. PICK T : T = {e \in PASSKEY : e[2] \in {"assertion_ext", "verify_user_handle",
                            "sign_counter_check", "session_issue", "signcount_regression",
                            "challenge_expired", "invalid_signature"}}
        OBVIOUS
      <3>3. S = {<<"Init", "register_start", "RegChallenge">>,
                 <<"RegChallenge", "attestation_ext", "AttestationReceived">>,
                 <<"AttestationReceived", "verify_and_store", "Registered">>,
                 <<"RegChallenge", "already_registered", "TerminalError">>,
                 <<"AttestationReceived", "attestation_invalid", "TerminalError">>,
                 <<"Init", "discover_start", "AuthChallenge">>}
        BY <3>1 DEF PASSKEY
      <3>4. T = {<<"AuthChallenge", "assertion_ext", "AssertionReceived">>,
                 <<"AssertionReceived", "verify_user_handle", "UserResolved">>,
                 <<"UserResolved", "sign_counter_check", "CounterChecked">>,
                 <<"CounterChecked", "session_issue", "Complete">>,
                 <<"CounterChecked", "signcount_regression", "CloneRejected">>,
                 <<"AuthChallenge", "challenge_expired", "TerminalError">>,
                 <<"AssertionReceived", "invalid_signature", "TerminalError">>}
        BY <3>2 DEF PASSKEY
      <3>5. IsFiniteSet(S)
        BY <3>3, ListedFinite
      <3>6. IsFiniteSet(T)
        BY <3>4, ListedFinite
      <3>7. PASSKEY = S \cup T
        BY <3>1, <3>2 DEF PASSKEY
      <3> QED
        BY <3>5, <3>6, <3>7, FS_Union
    <2>2. PASSKEY_EXTERNAL \subseteq PASSKEY /\ \A d, e \in PASSKEY_EXTERNAL : d[1] = e[1] => d = e
      BY DEF PASSKEY, PASSKEY_EXTERNAL, Labelled
    <2>3. \A e \in PASSKEY : Depth(e[1]) < Depth(e[3])
      BY DEF PASSKEY, Depth
    <2>4. /\ \A e \in PASSKEY : e[1] = "Init" \/ \E d \in PASSKEY : d[3] = e[1]
          /\ \E e \in PASSKEY : e[1] = "Init"
      BY DEF PASSKEY
    <2>5. PICK ends : ends = {"Registered", "Complete", "TerminalError", "CloneRejected"}
      OBVIOUS
    <2>6. /\ ends # {}
          /\ \A s \in ends : \E e \in PASSKEY : e[3] = s
          /\ \A e \in PASSKEY : e[1] \notin ends
      BY <2>5 DEF PASSKEY
    <2>7. Descends("Init", ends, PASSKEY, PASSKEY_EXTERNAL)
      BY <2>2, <2>3, <2>4, <2>6 DEF Descends
    <2>8. FlowDescriptors["passkey"] = Table("Init", ends, PASSKEY, PASSKEY_EXTERNAL)
      BY <2>5 DEF FlowDescriptors
    <2> QED
      BY <1>0, <2>1, <2>7, <2>8
  <1>3. Passes(FlowDescriptors["mfa"])
    <2>1. IsFiniteSet(MFA)
      BY ListedFinite DEF MFA
    <2>2. MFA_EXTERNAL \subseteq MFA /\ \A d, e \in MFA_EXTERNAL : d[1] = e[1] => d = e
      BY DEF MFA, MFA_EXTERNAL, Labelled
    <2>3. \A e \in MFA : Depth(e[1]) < Depth(e[3])
      BY DEF MFA, Depth
    <2>4. /\ \A e \in MFA : e[1] = "ChallengeShown" \/ \E d \in MFA : d[3] = e[1]
          /\ \E e \in MFA : e[1] = "ChallengeShown"
      BY DEF MFA
    <2>5. PICK ends : ends = {"Verified", "TerminalError", "Expired"}
      OBVIOUS
    <2>6. ends # {} /\ (\A s \in ends : \E e \in MFA : e[3] = s) /\ \A e \in MFA : e[1] \notin ends
      BY <2>5 DEF MFA
    <2>7. Descends("ChallengeShown", ends, MFA, MFA_EXTERNAL)
      BY <2>2, <2>3, <2>4, <2>6 DEF Descends
    <2>8. FlowDescriptors["mfa"] = Table("ChallengeShown", ends, MFA, MFA_EXTERNAL)
      BY <2>5 DEF FlowDescriptors
    <2> QED
      BY <1>0, <2>1, <2>7, <2>8
  <1>4. Passes(FlowDescriptors["invite"])
    <2>1. IsFiniteSet(INVITE)
      BY ListedFinite DEF INVITE
    <2>2. INVITE_EXTERNAL \subseteq INVITE /\ \A d, e \in INVITE_EXTERNAL : d[1] = e[1] => d = e
      BY DEF INVITE, INVITE_EXTERNAL, Labelled
    <2>3. \A e \in INVITE : Depth(e[1]) < Depth(e[3])
      BY DEF INVITE, Depth
    <2>4. /\ \A e \in INVITE : e[1] = "ConsentShown" \/ \E d \in INVITE : d[3] = e[1]
          /\ \E e \in INVITE : e[1] = "ConsentShown"
      BY DEF INVITE
    <2>5. PICK ends : ends = {"Complete", "TerminalError", "Expired"}
      OBVIOUS
    <2>6. /\ ends # {}
          /\ \A s \in ends : \E e \in INVITE : e[3] = s
          /\ \A e \in INVITE : e[1] \notin ends
      BY <2>5 DEF INVITE
    <2>7. Descends("ConsentShown", ends, INVITE, INVITE_EXTERNAL)
      BY <2>2, <2>3, <2>4, <2>6 DEF Descends
    <2>8. FlowDescriptors["invite"] = Table("ConsentShown", ends, INVITE, INVITE_EXTERNAL)
      BY <2>5 DEF FlowDescriptors
    <2> QED
      BY <1>0, <2>1, <2>7, <2>8
  <1>5. Passes(FlowDescriptors["registration"])
    <2>1. IsFiniteSet(RegistrationView)
      BY ListedFinite DEF RegistrationView
    <2>2. /\ REGISTRATION_EXTERNAL \subseteq RegistrationView
          /\ \A d, e \in REGISTRATION_EXTERNAL : d[1] = e[1] => d = e
      BY DEF RegistrationView, REGISTRATION_EXTERNAL, Labelled
    <2>3. \A e \in RegistrationView : Depth(e[1]) < Depth(e[3])
      BY DEF RegistrationView, Depth
    <2>4. /\ \A e \in RegistrationView : e[1] = "Start" \/ \E d \in RegistrationView : d[3] = e[1]
          /\ \E e \in RegistrationView : e[1] = "Start"
      BY DEF RegistrationView
    <2>5. PICK ends : ends = {"Completed", "Cancelled"}
      OBVIOUS
    <2>6. /\ ends # {}
          /\ \A s \in ends : \E e \in RegistrationView : e[3] = s
          /\ \A e \in RegistrationView : e[1] \notin ends
      BY <2>5 DEF RegistrationView
    <2>7. Descends("Start", ends, RegistrationView, REGISTRATION_EXTERNAL)
      BY <2>2, <2>3, <2>4, <2>6 DEF Descends
    <2>8. FlowDescriptors["registration"] =
            Table("Start", ends, RegistrationView, REGISTRATION_EXTERNAL)
      BY <2>5 DEF FlowDescriptors
    <2> QED
      BY <1>0, <2>1, <2>7, <2>8
  <1>6. Passes(FlowDescriptors["email_verification"])
    <2>1. IsFiniteSet(EmailVerificationView)
      BY ListedFinite DEF EmailVerificationView
    <2>2. /\ EMAIL_VERIFICATION_EXTERNAL \subseteq EmailVerificationView
          /\ \A d, e \in EMAIL_VERIFICATION_EXTERNAL : d[1] = e[1] => d = e
      BY DEF EmailVerificationView, EMAIL_VERIFICATION_EXTERNAL, Labelled
    <2>3. \A e \in EmailVerificationView : Depth(e[1]) < Depth(e[3])
      BY DEF EmailVerificationView, Depth
    <2>4. /\ \A e \in EmailVerificationView : e[1] = "TokenIssued" \/ \E d \in EmailVerificationView : d[3] = e[1]
          /\ \E e \in EmailVerificationView : e[1] = "TokenIssued"
      BY DEF EmailVerificationView
    <2>5. PICK ends : ends = {"Verified", "Cancelled"}
      OBVIOUS
    <2>6. /\ ends # {}
          /\ \A s \in ends : \E e \in EmailVerificationView : e[3] = s
          /\ \A e \in EmailVerificationView : e[1] \notin ends
      BY <2>5 DEF EmailVerificationView
    <2>7. Descends("TokenIssued", ends, EmailVerificationView, EMAIL_VERIFICATION_EXTERNAL)
      BY <2>2, <2>3, <2>4, <2>6 DEF Descends
    <2>8. FlowDescriptors["email_verification"] =
            Table("TokenIssued", ends, EmailVerificationView, EMAIL_VERIFICATION_EXTERNAL)
      BY <2>5 DEF FlowDescriptors
    <2> QED
      BY <1>0, <2>1, <2>7, <2>8
  <1>7. Passes(FlowDescriptors["password_reset"])
    <2>1. IsFiniteSet(PasswordResetView)
      BY ListedFinite DEF PasswordResetView
    <2>2. /\ PASSWORD_RESET_EXTERNAL \subseteq PasswordResetView
          /\ \A d, e \in PASSWORD_RESET_EXTERNAL : d[1] = e[1] => d = e
      BY DEF PasswordResetView, PASSWORD_RESET_EXTERNAL, Labelled
    <2>3. \A e \in PasswordResetView : Depth(e[1]) < Depth(e[3])
      BY DEF PasswordResetView, Depth
    <2>4. /\ \A e \in PasswordResetView : e[1] = "Requested" \/ \E d \in PasswordResetView : d[3] = e[1]
          /\ \E e \in PasswordResetView : e[1] = "Requested"
      BY DEF PasswordResetView
    <2>5. PICK ends : ends = {"Completed", "Cancelled"}
      OBVIOUS
    <2>6. /\ ends # {}
          /\ \A s \in ends : \E e \in PasswordResetView : e[3] = s
          /\ \A e \in PasswordResetView : e[1] \notin ends
      BY <2>5 DEF PasswordResetView
    <2>7. Descends("Requested", ends, PasswordResetView, PASSWORD_RESET_EXTERNAL)
      BY <2>2, <2>3, <2>4, <2>6 DEF Descends
    <2>8. FlowDescriptors["password_reset"] =
            Table("Requested", ends, PasswordResetView, PASSWORD_RESET_EXTERNAL)
      BY <2>5 DEF FlowDescriptors
    <2> QED
      BY <1>0, <2>1, <2>7, <2>8
  <1>8. Passes(FlowDescriptors["mfa_setup"])
    <2>1. IsFiniteSet(MfaSetupView)
      BY ListedFinite DEF MfaSetupView
    <2>2. /\ MFA_SETUP_EXTERNAL \subseteq MfaSetupView
          /\ \A d, e \in MFA_SETUP_EXTERNAL : d[1] = e[1] => d = e
      BY DEF MfaSetupView, MFA_SETUP_EXTERNAL, Labelled
    <2>3. \A e \in MfaSetupView : Depth(e[1]) < Depth(e[3])
      BY DEF MfaSetupView, Depth
    <2>4. /\ \A e \in MfaSetupView : e[1] = "NotConfigured" \/ \E d \in MfaSetupView : d[3] = e[1]
          /\ \E e \in MfaSetupView : e[1] = "NotConfigured"
      BY DEF MfaSetupView
    <2>5. PICK ends : ends = {"RecoveryCodesIssued", "Cancelled"}
      OBVIOUS
    <2>6. /\ ends # {}
          /\ \A s \in ends : \E e \in MfaSetupView : e[3] = s
          /\ \A e \in MfaSetupView : e[1] \notin ends
      BY <2>5 DEF MfaSetupView
    <2>7. Descends("NotConfigured", ends, MfaSetupView, MFA_SETUP_EXTERNAL)
      BY <2>2, <2>3, <2>4, <2>6 DEF Descends
    <2>8. FlowDescriptors["mfa_setup"] = Table("NotConfigured", ends, MfaSetupView, MFA_SETUP_EXTERNAL)
      BY <2>5 DEF FlowDescriptors
    <2> QED
      BY <1>0, <2>1, <2>7, <2>8
  <1>9. Passes(FlowDescriptors["login_challenge"])
    <2>1. IsFiniteSet(LoginChallengeView)
      BY ListedFinite DEF LoginChallengeView
    <2>2. /\ LOGIN_CHALLENGE_EXTERNAL \subseteq LoginChallengeView
          /\ \A d, e \in LOGIN_CHALLENGE_EXTERNAL : d[1] = e[1] => d = e
      BY DEF LoginChallengeView, LOGIN_CHALLENGE_EXTERNAL, Labelled
    <2>3. \A e \in LoginChallengeView : Depth(e[1]) < Depth(e[3])
      BY DEF LoginChallengeView, Depth
    <2>4. /\ \A e \in LoginChallengeView : e[1] = "PasswordAccepted" \/ \E d \in LoginChallengeView : d[3] = e[1]
          /\ \E e \in LoginChallengeView : e[1] = "PasswordAccepted"
      BY DEF LoginChallengeView
    <2>5. PICK ends : ends = {"LoginGranted", "LoginDenied"}
      OBVIOUS
    <2>6. /\ ends # {}
          /\ \A s \in ends : \E e \in LoginChallengeView : e[3] = s
          /\ \A e \in LoginChallengeView : e[1] \notin ends
      BY <2>5 DEF LoginChallengeView
    <2>7. Descends("PasswordAccepted", ends, LoginChallengeView, LOGIN_CHALLENGE_EXTERNAL)
      BY <2>2, <2>3, <2>4, <2>6 DEF Descends
    <2>8. FlowDescriptors["login_challenge"] =
            Table("PasswordAccepted", ends, LoginChallengeView, LOGIN_CHALLENGE_EXTERNAL)
      BY <2>5 DEF FlowDescriptors
    <2> QED
      BY <1>0, <2>1, <2>7, <2>8
  <1>10. Passes(FlowDescriptors["device_grant"])
    <2>1. IsFiniteSet(DEVICE_GRANT)
      BY ListedFinite DEF DEVICE_GRANT
    <2>2. /\ DEVICE_GRANT_EXTERNAL \subseteq DEVICE_GRANT
          /\ \A d, e \in DEVICE_GRANT_EXTERNAL : d[1] = e[1] => d = e
      BY DEF DEVICE_GRANT, DEVICE_GRANT_EXTERNAL, Labelled
    <2>3. \A e \in DEVICE_GRANT : Depth(e[1]) < Depth(e[3])
      BY DEF DEVICE_GRANT, Depth
    <2>4. /\ \A e \in DEVICE_GRANT : e[1] = "Pending" \/ \E d \in DEVICE_GRANT : d[3] = e[1]
          /\ \E e \in DEVICE_GRANT : e[1] = "Pending"
      BY DEF DEVICE_GRANT
    <2>5. PICK ends : ends = {"Completed", "Denied", "Expired"}
      OBVIOUS
    <2>6. /\ ends # {}
          /\ \A s \in ends : \E e \in DEVICE_GRANT : e[3] = s
          /\ \A e \in DEVICE_GRANT : e[1] \notin ends
      BY <2>5 DEF DEVICE_GRANT
    <2>7. Descends("Pending", ends, DEVICE_GRANT, DEVICE_GRANT_EXTERNAL)
      BY <2>2, <2>3, <2>4, <2>6 DEF Descends
    <2>8. FlowDescriptors["device_grant"] = Table("Pending", ends, DEVICE_GRANT, DEVICE_GRANT_EXTERNAL)
      BY <2>5 DEF FlowDescriptors
    <2> QED
      BY <1>0, <2>1, <2>7, <2>8
  <1>11. DOMAIN FlowDescriptors =
          {"oidc", "passkey", "mfa", "invite", "registration", "email_verification",
           "password_reset", "mfa_setup", "login_challenge", "device_grant"}
    BY DEF FlowDescriptors
  <1> QED
    BY <1>1, <1>2, <1>3, <1>4, <1>5, <1>6, <1>7, <1>8, <1>9, <1>10, <1>11

(* A walk over a served table: as many internal steps at most as there are *)
(* states before the one it is at.                                         *)
WalkOK(w) ==
  /\ server = "serving" /\ w = [flow |-> w.flow, at |-> w.at, internal |-> w.internal]
  /\ w.flow \in DOMAIN FlowDescriptors /\ w.at \in tables[w.flow].states
  /\ w.internal \in Nat /\ w.internal <= Cardinality(Before(Internal(tables[w.flow]), w.at))

(* The inductive invariant of the gate. *)
GateInv ==
  /\ tables = [f \in DOMAIN FlowDescriptors |-> tables[f]]
  /\ \A f \in DOMAIN FlowDescriptors :
       IsTable(tables[f]) /\ IsFiniteSet(tables[f].edges) /\ IsFiniteSet(tables[f].states)
  /\ edits \in Nat
  /\ edits = 0 => tables = FlowDescriptors /\ server # "exited"
  /\ server = "serving" => \A f \in DOMAIN FlowDescriptors : WellFormed(tables[f])
  /\ tableWalk # NoWalk => WalkOK(tableWalk)

(* The states before one are finitely many, and it is not among them. *)
LEMMA BeforeFewer ==
  ASSUME NEW t, WellFormed(t), IsFiniteSet(t.edges), IsFiniteSet(t.states), NEW s \in t.states
  PROVE  /\ IsFiniteSet(Internal(t)) /\ ~FindCycle(Internal(t))
         /\ IsFiniteSet(Before(Internal(t), s)) /\ Cardinality(Before(Internal(t), s)) \in Nat
         /\ Cardinality(t.states) \in Nat
         /\ Cardinality(Before(Internal(t), s)) < Cardinality(t.states)
  <1>1. PICK inner : inner = Internal(t)
    OBVIOUS
  <1>2. inner \in SUBSET t.edges /\ ~FindCycle(inner)
    BY <1>1 DEF Internal, WellFormed
  <1>3. IsFiniteSet(inner)
    BY <1>2, FS_Subset
  <1>4. Before(inner, s) \in SUBSET t.states
    BY <1>2 DEF Before, WellFormed, Sane
  <1>5. s \notin Before(inner, s)
    BY <1>2, NotBeforeItself
  <1>6. IsFiniteSet(Before(inner, s))
    BY <1>4, FS_Subset
  <1> QED
    BY <1>1, <1>2, <1>3, <1>4, <1>5, <1>6, FewerThan

(* The server starts from the tables of viz.rs. *)
LEMMA GateInitInv == TablesInit => GateInv
  <1> SUFFICES ASSUME TablesInit PROVE GateInv
    OBVIOUS
  <1>1. tables = FlowDescriptors /\ edits = 0 /\ server = "built" /\ tableWalk = NoWalk
    BY DEF TablesInit
  <1>2. FlowDescriptors = [f \in DOMAIN FlowDescriptors |-> FlowDescriptors[f]]
    BY DEF FlowDescriptors
  <1> QED
    BY <1>1, <1>2, SourcePasses DEF GateInv, Passes

(* An edit leaves a table with finitely many states and edges. *)
LEMMA EditKeeps ==
  ASSUME GateInv, NEW f \in Edited, EditTable(f)
  PROVE  GateInv'
  <1>1. PICK t : t = tables[f]
    OBVIOUS
  <1>2. f \in DOMAIN FlowDescriptors
    BY EditedAssumption
  <1>3. IsTable(t) /\ IsFiniteSet(t.edges) /\ IsFiniteSet(t.states) /\ edits \in Nat
    BY <1>1, <1>2 DEF GateInv
  <1>4. PICK e \in t.edges : \E s \in t.states : \E new \in Edits(t, e, s) :
          tables' = [tables EXCEPT ![f] = new]
    BY <1>1 DEF EditTable
  <1>a. PICK s \in t.states : \E new \in Edits(t, e, s) : tables' = [tables EXCEPT ![f] = new]
    BY <1>4
  <1>b. PICK new \in Edits(t, e, s) : tables' = [tables EXCEPT ![f] = new]
    BY <1>a
  <1>5. server = "built" /\ edits' = edits + 1 /\ server' = server /\ tableWalk' = tableWalk
    BY DEF EditTable
  <1>6. PICK more : more = <<e[1], "new", s>>
    OBVIOUS
  <1>7. PICK other : other = <<e[1], e[2], s>>
    OBVIOUS
  <1>8. /\ IsFiniteSet(t.edges \ {e}) /\ IsFiniteSet(t.edges \cup {more})
        /\ IsFiniteSet(t.states \ {s})
    BY <1>3, FS_AddElement, FS_RemoveElement
  <1>9. IsFiniteSet((t.edges \ {e}) \cup {other})
    BY <1>8, FS_AddElement
  <1>10. IsTable(new) /\ IsFiniteSet(new.edges) /\ IsFiniteSet(new.states)
    <2>1. CASE new = [t EXCEPT !.edges = @ \ {e}]
      <3>1. new = [states |-> t.states, initial |-> t.initial, terminals |-> t.terminals,
                   edges |-> t.edges \ {e}, external |-> t.external]
        BY <1>3, <2>1 DEF IsTable
      <3> QED
        BY <1>3, <1>8, <3>1 DEF IsTable
    <2>2. CASE new = [t EXCEPT !.edges = @ \ {e}, !.external = @ \ {e}]
      <3>1. new = [states |-> t.states, initial |-> t.initial, terminals |-> t.terminals,
                   edges |-> t.edges \ {e}, external |-> t.external \ {e}]
        BY <1>3, <2>2 DEF IsTable
      <3> QED
        BY <1>3, <1>8, <3>1 DEF IsTable
    <2>3. CASE new = [t EXCEPT !.edges = @ \cup {<<e[1], "new", s>>}]
      <3>1. new = [states |-> t.states, initial |-> t.initial, terminals |-> t.terminals,
                   edges |-> t.edges \cup {more}, external |-> t.external]
        BY <1>3, <1>6, <2>3 DEF IsTable
      <3> QED
        BY <1>3, <1>8, <3>1 DEF IsTable
    <2>4. CASE new = [t EXCEPT !.edges = (@ \ {e}) \cup {<<e[1], e[2], s>>}]
      <3>1. new = [states |-> t.states, initial |-> t.initial, terminals |-> t.terminals,
                   edges |-> (t.edges \ {e}) \cup {other}, external |-> t.external]
        BY <1>3, <1>7, <2>4 DEF IsTable
      <3> QED
        BY <1>3, <1>9, <3>1 DEF IsTable
    <2>5. CASE new = [t EXCEPT !.external = @ \cup {e}]
      <3>1. new = [states |-> t.states, initial |-> t.initial, terminals |-> t.terminals,
                   edges |-> t.edges, external |-> t.external \cup {e}]
        BY <1>3, <2>5 DEF IsTable
      <3> QED
        BY <1>3, <3>1 DEF IsTable
    <2>6. CASE new = [t EXCEPT !.terminals = @ \cup {s}]
      <3>1. new = [states |-> t.states, initial |-> t.initial, terminals |-> t.terminals \cup {s},
                   edges |-> t.edges, external |-> t.external]
        BY <1>3, <2>6 DEF IsTable
      <3> QED
        BY <1>3, <3>1 DEF IsTable
    <2>7. CASE new = [t EXCEPT !.states = @ \ {s}]
      <3>1. new = [states |-> t.states \ {s}, initial |-> t.initial, terminals |-> t.terminals,
                   edges |-> t.edges, external |-> t.external]
        BY <1>3, <2>7 DEF IsTable
      <3> QED
        BY <1>3, <1>8, <3>1 DEF IsTable
    <2> QED
      BY <1>b, <2>1, <2>2, <2>3, <2>4, <2>5, <2>6, <2>7 DEF Edits
  <1>11. tables' = [g \in DOMAIN FlowDescriptors |-> IF g = f THEN new ELSE tables[g]]
    BY <1>2, <1>b DEF GateInv
  <1>12. /\ tables' = [g \in DOMAIN FlowDescriptors |-> tables'[g]]
         /\ \A g \in DOMAIN FlowDescriptors :
              IsTable(tables'[g]) /\ IsFiniteSet(tables'[g].edges) /\ IsFiniteSet(tables'[g].states)
    BY <1>10, <1>11 DEF GateInv
  <1>13. tableWalk = NoWalk
    BY <1>5 DEF GateInv, WalkOK
  <1>14. edits' \in Nat /\ edits' # 0 /\ server' # "serving"
    BY <1>3, <1>5
  <1>15. tableWalk' = NoWalk
    BY <1>5, <1>13
  <1> QED
    BY <1>12, <1>14, <1>15 DEF GateInv, NoWalk

(* The gate refuses what is not well formed, and none of the source's. *)
LEMMA StartKeepsGate ==
  ASSUME GateInv, StartServer
  PROVE  GateInv'
  <1>1. /\ server = "built" /\ UNCHANGED <<tables, edits, tableWalk>>
        /\ server' = IF \A f \in DOMAIN tables : WellFormed(tables[f]) THEN "serving" ELSE "exited"
    BY DEF StartServer
  <1>2. DOMAIN tables = DOMAIN FlowDescriptors
    BY DEF GateInv
  <1>3. server' = "serving" => \A f \in DOMAIN FlowDescriptors : WellFormed(tables[f])
    BY <1>1, <1>2
  <1>4. edits = 0 => tables = FlowDescriptors /\ server' # "exited"
    BY <1>1, <1>2, SourcePasses DEF GateInv, Passes
  <1>5. tableWalk = NoWalk
    BY <1>1 DEF GateInv, WalkOK
  <1>6. tableWalk' = NoWalk
    BY <1>1, <1>5
  <1> QED
    BY <1>1, <1>3, <1>4, <1>6 DEF GateInv, NoWalk

(* A walk begins at the initial state. *)
LEMMA BeginKeeps ==
  ASSUME GateInv, NEW f \in Edited, BeginWalk(f)
  PROVE  GateInv'
  <1>1. /\ server = "serving" /\ UNCHANGED <<tables, edits, server>>
        /\ tableWalk' = [flow |-> f, at |-> tables[f].initial, internal |-> 0]
    BY DEF BeginWalk
  <1>2. f \in DOMAIN FlowDescriptors
    BY EditedAssumption
  <1>3. WellFormed(tables[f]) /\ IsFiniteSet(tables[f].edges) /\ IsFiniteSet(tables[f].states)
    BY <1>1, <1>2 DEF GateInv
  <1>4. tables[f].initial \in tables[f].states
    BY <1>3 DEF WellFormed, Sane
  <1>5. Cardinality(Before(Internal(tables[f]), tables[f].initial)) \in Nat
    BY <1>3, <1>4, BeforeFewer
  <1>6. /\ tableWalk'.flow = f /\ tableWalk'.at = tables[f].initial /\ tableWalk'.internal = 0
    BY <1>1
  <1>7. /\ tableWalk' = [flow |-> tableWalk'.flow, at |-> tableWalk'.at, internal |-> tableWalk'.internal]
        /\ tableWalk'.internal \in Nat
        /\ tableWalk'.internal <= Cardinality(Before(Internal(tables[f]), tableWalk'.at))
    BY <1>1, <1>5, <1>6
  <1>8. WalkOK(tableWalk)'
    BY <1>1, <1>2, <1>4, <1>6, <1>7 DEF WalkOK
  <1> QED
    BY <1>1, <1>8 DEF GateInv, NoWalk

(* An edge of a served table is taken. *)
LEMMA EdgeKeeps ==
  ASSUME GateInv, NEW e, WalkEdge(e)
  PROVE  GateInv'
  <1>1. /\ tableWalk # NoWalk /\ UNCHANGED <<tables, edits, server>>
        /\ e \in tables[tableWalk.flow].edges /\ e[1] = tableWalk.at
        /\ tableWalk' = [tableWalk EXCEPT !.at = e[3],
                          !.internal = IF e \in tables[tableWalk.flow].external THEN 0 ELSE @ + 1]
    BY DEF WalkEdge
  <1>2. WalkOK(tableWalk)
    BY <1>1 DEF GateInv
  <1>3. PICK f, here, n : f = tableWalk.flow /\ here = tableWalk.at /\ n = tableWalk.internal
    OBVIOUS
  <1>4. /\ tableWalk = [flow |-> f, at |-> here, internal |-> n] /\ server = "serving"
        /\ f \in DOMAIN FlowDescriptors /\ here \in tables[f].states /\ n \in Nat
        /\ n <= Cardinality(Before(Internal(tables[f]), here))
    BY <1>2, <1>3 DEF WalkOK
  <1>5. PICK t : t = tables[f]
    OBVIOUS
  <1>6. WellFormed(t) /\ IsFiniteSet(t.edges) /\ IsFiniteSet(t.states)
    BY <1>4, <1>5 DEF GateInv
  <1>7. e \in t.edges /\ e[1] = here /\ e[3] \in t.states
    BY <1>1, <1>3, <1>5, <1>6 DEF WellFormed, Sane
  <1>8. PICK k : k = IF e \in t.external THEN 0 ELSE n + 1
    OBVIOUS
  <1>9. tableWalk' = [flow |-> f, at |-> e[3], internal |-> k]
    BY <1>1, <1>3, <1>4, <1>5, <1>8
  <1>10. PICK inner : inner = Internal(t)
    OBVIOUS
  <1>11. /\ IsFiniteSet(inner) /\ ~FindCycle(inner)
         /\ IsFiniteSet(Before(inner, e[3])) /\ Cardinality(Before(inner, e[3])) \in Nat
         /\ Cardinality(Before(inner, here)) \in Nat
    BY <1>4, <1>5, <1>6, <1>7, <1>10, BeforeFewer
  <1>12. k \in Nat /\ k <= Cardinality(Before(inner, e[3]))
    <2>1. CASE e \in t.external
      BY <1>8, <1>11, <2>1
    <2>2. CASE e \notin t.external
      <3>1. e \in inner
        BY <1>7, <1>10, <2>2 DEF Internal
      <3>2. Before(inner, here) \cup {here} \subseteq Before(inner, e[3]) /\ here \notin Before(inner, here)
        BY <1>7, <1>11, <3>1, BeforeGrows
      <3>3. Cardinality(Before(inner, here)) < Cardinality(Before(inner, e[3]))
        BY <1>11, <3>2, FewerThan
      <3> QED
        BY <1>4, <1>5, <1>8, <1>10, <1>11, <2>2, <3>3
    <2> QED
      BY <2>1, <2>2
  <1>13. /\ tableWalk'.flow = f /\ tableWalk'.at = e[3] /\ tableWalk'.internal = k
    BY <1>9
  <1>14. tableWalk' = [flow |-> tableWalk'.flow, at |-> tableWalk'.at, internal |-> tableWalk'.internal]
    BY <1>9, <1>13
  <1>15. tables' = tables /\ server' = server
    BY <1>1
  <1>16. WalkOK(tableWalk)'
    BY <1>4, <1>5, <1>7, <1>10, <1>12, <1>13, <1>14, <1>15 DEF WalkOK
  <1> QED
    BY <1>1, <1>16 DEF GateInv, NoWalk

(* Every step keeps the invariant of the gate. *)
LEMMA GateStepInv == GateInv /\ [TablesNext]_tableVars => GateInv'
  <1> SUFFICES ASSUME GateInv, [TablesNext]_tableVars PROVE GateInv'
    OBVIOUS
  <1>1. CASE UNCHANGED tableVars
    BY <1>1 DEF tableVars, GateInv, WalkOK, NoWalk
  <1> QED
    BY <1>1, EditKeeps, StartKeepsGate, BeginKeeps, EdgeKeeps DEF TablesNext

(* What is served stops. *)
LEMMA GateInvGives == GateInv => ServedTablesStop
  <1> SUFFICES ASSUME GateInv PROVE ServedTablesStop
    OBVIOUS
  <1>1. edits = 0 => server # "exited"
    BY DEF GateInv
  <1>2. ASSUME tableWalk # NoWalk
        PROVE  tableWalk.internal < Cardinality(tables[tableWalk.flow].states)
    <2>1. PICK f, here, n : f = tableWalk.flow /\ here = tableWalk.at /\ n = tableWalk.internal
      OBVIOUS
    <2>2. /\ server = "serving" /\ f \in DOMAIN FlowDescriptors /\ here \in tables[f].states
          /\ n \in Nat /\ n <= Cardinality(Before(Internal(tables[f]), here))
      BY <1>2, <2>1 DEF GateInv, WalkOK
    <2>3. WellFormed(tables[f]) /\ IsFiniteSet(tables[f].edges) /\ IsFiniteSet(tables[f].states)
      BY <2>2 DEF GateInv
    <2>4. /\ Cardinality(Before(Internal(tables[f]), here)) \in Nat
          /\ Cardinality(tables[f].states) \in Nat
          /\ Cardinality(Before(Internal(tables[f]), here)) < Cardinality(tables[f].states)
      BY <2>2, <2>3, BeforeFewer
    <2> QED
      BY <2>1, <2>2, <2>4
  <1> QED
    BY <1>1, <1>2 DEF ServedTablesStop

-----------------------------------------------------------------------------
(* The three checks together. *)

(* What no behaviour about another part changes. *)
ChecksInv ==
  /\ CycleInv /\ WalkInv
  /\ IF area = "tables" THEN GateInv ELSE edits = 0 /\ server = "built" /\ tableWalk = NoWalk

(* At the start: a table of the constants, or the one without edges. *)
LEMMA ChecksInit == IdentityInit => ChecksInv
  <1> SUFFICES ASSUME IdentityInit PROVE ChecksInv
    OBVIOUS
  <1>1. ValidationInit \/ StillValidation
    BY DEF IdentityInit, Begin
  <1>2. /\ color = [s \in States |-> "white"] /\ frames = <<>> /\ path = <<>> /\ cycle = Running
        /\ visited = [s \in States |-> {}] /\ reported = {}
    BY <1>1 DEF ValidationInit, StillValidation
  <1>3. \/ walk = <<>>
        \/ walk = <<[state |-> InitialState, produced |-> Seed(table).produced, trail |-> <<>>]>>
    BY <1>1 DEF ValidationInit, StillValidation
  <1>4. WellTyped(table)
    <2>1. CASE ValidationInit
      <3>1. table \in Tables
        BY <2>1 DEF ValidationInit
      <3> QED
        BY <3>1, TablesAssumption DEF WellTyped
    <2>2. CASE StillValidation
      <3>1. PICK n : n = [s \in States |-> <<>>]
        OBVIOUS
      <3>2. PICK none : none = [s \in States |-> {}]
        OBVIOUS
      <3>3. table = [next |-> n, requires |-> none, produces |-> none]
        BY <2>2, <3>1, <3>2 DEF StillValidation
      <3>4. table.next = n /\ table.requires = none /\ table.produces = none
        BY <3>3
      <3>5. n \in [States -> Seq(States)] /\ none \in [States -> SUBSET DataKeys]
        BY <3>1, <3>2
      <3> QED
        BY <3>4, <3>5 DEF WellTyped
    <2> QED
      BY <1>1, <2>1, <2>2
  <1>5. CycleInv
    BY <1>2, <1>4, CycleInitInv DEF WellTyped
  <1>6. WalkInv
    BY <1>2, <1>3, <1>4, WalkInitInv
  <1>7. CASE area = "tables"
    <2>1. TablesInit
      BY <1>7 DEF IdentityInit, Begin
    <2> QED
      BY <1>5, <1>6, <1>7, <2>1, GateInitInv DEF ChecksInv
  <1>8. CASE area # "tables"
    <2>1. StillTables
      BY <1>8 DEF IdentityInit, Begin
    <2> QED
      BY <1>5, <1>6, <1>8, <2>1 DEF ChecksInv, StillTables
  <1> QED
    BY <1>7, <1>8

(* A step of the composition is one of a part or leaves it alone. *)
LEMMA PartSteps ==
  ASSUME [IdentityNext]_identityVars
  PROVE  /\ area' = area
         /\ [ValidationNext]_validationVars /\ [TablesNext]_tableVars /\ [FlowNext]_flowVars
         /\ area # "tables" => UNCHANGED tableVars
  <1>1. CASE UNCHANGED identityVars
    BY <1>1 DEF identityVars
  <1>2. CASE IdentityNext
    <2>1. /\ AreaStep /\ area' = area /\ Keep("validation", validationVars)
          /\ Keep("tables", tableVars) /\ Keep("flows", flowVars)
      BY <1>2 DEF IdentityNext
    <2> QED
      BY <2>1 DEF AreaStep, Keep
  <1> QED
    BY <1>1, <1>2

(* Every step keeps what the checks rest on. *)
LEMMA ChecksStep == ChecksInv /\ [IdentityNext]_identityVars => ChecksInv'
  <1> SUFFICES ASSUME ChecksInv, [IdentityNext]_identityVars PROVE ChecksInv'
    OBVIOUS
  <1>1. CycleInv' /\ WalkInv'
    BY PartSteps, CycleStepInv, WalkStepInv DEF ChecksInv
  <1>2. CASE area = "tables"
    BY <1>1, <1>2, PartSteps, GateStepInv DEF ChecksInv
  <1>3. CASE area # "tables"
    <2>1. area' = area /\ UNCHANGED tableVars
      BY <1>3, PartSteps
    <2> QED
      BY <1>1, <1>3, <2>1 DEF ChecksInv, tableVars, NoWalk
  <1> QED
    BY <1>2, <1>3

(* And gives what they promise. *)
LEMMA ChecksGive == ChecksInv => DefinitionsChecked
  <1> SUFFICES ASSUME ChecksInv PROVE DefinitionsChecked
    OBVIOUS
  <1>1. ReportsAreReal /\ WalkEnds /\ CycleExact
    BY CycleInvGives, WalkInvGives DEF ChecksInv
  <1>2. ServedTablesStop
    <2>1. CASE area = "tables"
      BY <2>1, GateInvGives DEF ChecksInv
    <2>2. CASE area # "tables"
      BY <2>2 DEF ChecksInv, ServedTablesStop
    <2> QED
      BY <2>1, <2>2
  <1> QED
    BY <1>1, <1>2 DEF DefinitionsChecked

(***************************************************************************)
(* The checks of validate.rs do what they are for, on tables of any size:  *)
(* the gate lets the ten tables of the source through, and whatever a      *)
(* maintainer makes of them in any number of edits, a table that reaches a *)
(* server runs fewer steps without a caller than it has states; rule 6     *)
(* reports a state only when some path reaches it without its data, and    *)
(* ends; rule 3 finds a cycle exactly when there is one.                   *)
(***************************************************************************)
THEOREM DefinitionsKept == IdentitySpec => []DefinitionsChecked
  BY ChecksInit, ChecksStep, ChecksGive, PTL DEF IdentitySpec

(***************************************************************************)
(* find_cycle is exact on every table, of any size: what it returns is a   *)
(* cycle, and when it has coloured all states black there is none.         *)
(***************************************************************************)
THEOREM FindCycleExact == IdentitySpec => []CycleExact
  <1>1. DefinitionsChecked => CycleExact
    BY DEF DefinitionsChecked
  <1> QED
    BY <1>1, DefinitionsKept, PTL

-----------------------------------------------------------------------------
(* The flow definitions.  A certificate says for every state of a flow     *)
(* which data is there, which of it is sure to be good, and how many steps *)
(* a call of the engine can have taken to reach it.                        *)
Now(has, sure, steps) == [has |-> has, sure |-> sure, steps |-> steps]

ProxyCert == [
  Received |-> Now({"RequestData"}, {}, 0),
  Validated |-> Now({"RequestData"}, {}, 1),
  Routed |-> Now({"RouteTarget"}, {}, 2),
  AuthChecked |-> Now({"RouteTarget"}, {}, 0),
  Forwarded |-> Now({"BackendResponse"}, {}, 0),
  Completed |-> Now({}, {}, 1),
  Denied |-> Now({}, {}, 1),
  BadGateway |-> Now({}, {}, 2)]

OidcCert == [
  Init |-> Now({"OidcInitData"}, {}, 0),
  Redirected |-> Now({}, {}, 1),
  CallbackReceived |-> Now({"OidcCallbackData"}, {}, 0),
  TokenExchanged |-> Now({"OidcTokenData"}, {}, 1),
  UserResolved |-> Now({"OidcUserData"}, {}, 2),
  RiskChecked |-> Now({"RiskCheckResult"}, {}, 3),
  Complete |-> Now({}, {}, 4),
  CompleteMfaPending |-> Now({}, {}, 4),
  Blocked |-> Now({}, {}, 4),
  TerminalError |-> Now({}, {}, 4)]

PasskeyCert == [
  Init |-> Now({"PasskeyInitData"}, {}, 0),
  ChallengeIssued |-> Now({"PasskeyChallenge"}, {}, 1),
  AssertionReceived |-> Now({"PasskeyAssertion", "PasskeyChallenge"}, {}, 0),
  UserResolved |-> Now({"PasskeyUser"}, {}, 1),
  Complete |-> Now({}, {}, 2),
  TerminalError |-> Now({}, {}, 2)]

MfaCert == [
  ChallengeShown |-> Now({}, {}, 0),
  Verified |-> Now({}, {"MfaCode"}, 0),
  TerminalError |-> Now({}, {}, 0)]

InviteCert == [
  ConsentShown |-> Now({"InviteData"}, {}, 0),
  AccountSwitching |-> Now({"InviteData"}, {}, 1),
  Accepted |-> Now({"InviteData"}, {}, 1),
  Complete |-> Now({}, {}, 2),
  TerminalError |-> Now({}, {}, 2)]

RegistrationCert == [
  Start |-> Now({"RegistrationInit"}, {}, 0),
  EmailVerificationPending |-> Now({}, {}, 1),
  EmailVerified |-> Now({}, {}, 0),
  MfaSetupOptional |-> Now({}, {}, 1),
  Completed |-> Now({}, {}, 1),
  Cancelled |-> Now({}, {}, 1)]

EmailVerificationCert == [
  TokenIssued |-> Now({"EmailVerificationInit"}, {}, 0),
  SendRequested |-> Now({}, {}, 1),
  Sent |-> Now({}, {}, 0),
  Verified |-> Now({}, {"VerificationProof"}, 0),
  Cancelled |-> Now({}, {}, 1)]

PasswordResetCert == [
  Requested |-> Now({"PasswordResetInit"}, {}, 0),
  TokenIssued |-> Now({"ResetTokenIssued", "PasswordResetInit"}, {}, 1),
  SendRequested |-> Now({}, {}, 2),
  Sent |-> Now({}, {}, 0),
  TokenVerified |-> Now({}, {"ResetTokenProof"}, 0),
  PasswordChanged |-> Now({"PasswordChangedData"}, {"ResetTokenProof", "PasswordChangedData"}, 0),
  Completed |-> Now({}, {"ResetTokenProof", "PasswordChangedData"}, 1),
  Cancelled |-> Now({}, {}, 2)]

MfaSetupCert == [
  NotConfigured |-> Now({"MfaSetupInit"}, {}, 0),
  SetupStarted |-> Now({"MfaSetupInit"}, {}, 0),
  SecretIssued |-> Now({"TotpSecretIssued"}, {}, 1),
  ConfirmationPending |-> Now({}, {}, 2),
  Enabled |-> Now({"ConfirmResult"}, {"ConfirmResult"}, 0),
  RecoveryCodesIssued |-> Now({}, {"ConfirmResult"}, 1),
  Cancelled |-> Now({}, {}, 2)]

LoginChallengeCert == [
  PasswordAccepted |-> Now({"LoginChallengeInit"}, {}, 0),
  MfaRequired |-> Now({"LoginChallengeInit"}, {}, 1),
  ChallengeSent |-> Now({}, {}, 2),
  ChallengeVerified |-> Now({"ChallengeProof"}, {"ChallengeProof"}, 0),
  LoginGranted |-> Now({}, {}, 1),
  LoginDenied |-> Now({}, {}, 2)]

DeviceGrantCert == [
  Pending |-> Now({}, {}, 0),
  Approved |-> Now({"DeviceDecisionProof"}, {"DeviceDecisionProof"}, 0),
  Completed |-> Now({}, {"DeviceDecisionProof"}, 1),
  Rejected |-> Now({}, {}, 1)]

TokenCert == [
  Received |-> Now({"TokenRequest"}, {}, 0),
  Validated |-> Now({}, {}, 1),
  Refreshed |-> Now({"TokenValidation"}, {}, 0),
  Issued |-> Now({"NewTokens"}, {}, 1),
  Completed |-> Now({}, {}, 2),
  Denied |-> Now({}, {}, 2)]

Cert ==
  [proxy |-> ProxyCert, oidc |-> OidcCert, passkey |-> PasskeyCert, mfa |-> MfaCert,
   invite |-> InviteCert, registration |-> RegistrationCert,
   email_verification |-> EmailVerificationCert, password_reset |-> PasswordResetCert,
   mfa_setup |-> MfaSetupCert, login_challenge |-> LoginChallengeCert,
   device_grant |-> DeviceGrantCert, token_refresh |-> TokenCert]

(* What a strict guard takes is never made by a processor. *)
Answers ==
  {"MfaCode", "InviteAcceptance", "SendOutcome", "VerificationProof", "ResetTokenProof",
   "PasswordChangedData", "ConfirmResult", "ChallengeProof", "DeviceDecisionProof"}

(* A step keeps what the certificate c says of the states it connects.     *)
StepFits(d, c, s) ==
  /\ s.from \in DOMAIN c /\ s.to \in DOMAIN c /\ s.needs \subseteq c[s.from].has
  /\ s.kind \in {"auto", "branch"} =>
       /\ c[s.to].has \subseteq c[s.from].has \cup s.makes
       /\ c[s.to].sure \subseteq c[s.from].sure
       /\ c[s.from].steps + 1 <= c[s.to].steps /\ c[s.from].steps + 1 <= c[d.error].steps
  /\ s.kind = "auto" => s.makes \cap Answers = {}
  /\ s.kind = "branch" => s.makes = {}
  /\ s.kind = "external" =>
       /\ c[s.to].has \subseteq c[s.from].has \cup {s.key}
       /\ c[s.from].sure \cap ({s.key} \cup s.makes) = {}
       /\ c[s.to].sure \subseteq c[s.from].sure \cup s.refuses
       /\ s.refuses \subseteq {s.key} \cap Answers

(* The certificate c holds of the definition d. *)
Fits(d, c) ==
  /\ \A x \in DOMAIN c : c[x].steps \in Nat
  /\ {d.initial, d.error} \subseteq DOMAIN c
  /\ c[d.initial] = Now(c[d.initial].has, {}, 0) /\ c[d.initial].has \subseteq {d.given}
  /\ c[d.error].has = {} /\ c[d.error].sure = {}
  /\ \A s \in d.steps : StepFits(d, c, s)

(* The fields of a step of the engine. *)
LEMMA StepIs ==
  /\ \A from, to, name, needs, refuses, makes :
       LET s == AutoStep(from, to, name, needs, refuses, makes) IN
       /\ s.kind = "auto" /\ s.from = from /\ s.to = to /\ s.name = name
       /\ s.needs = needs /\ s.refuses = refuses /\ s.makes = makes
  /\ \A from, to, name, needs, key, picks :
       LET s == Branch(from, to, name, needs, key, picks) IN
       /\ s.kind = "branch" /\ s.from = from /\ s.to = to /\ s.name = name
       /\ s.needs = needs /\ s.makes = {} /\ s.key = key /\ s.picks = picks
  BY DEF AutoStep, Branch

(* The certificate of ProxyFlow holds. *)
LEMMA ProxyFits == Fits(ProxyFlow, ProxyCert)
  <1>1. ProxyFlow.error = "BadGateway"
    BY DEF ProxyFlow, Definition
  <1>2. ASSUME NEW s \in ProxyFlow.steps PROVE StepFits(ProxyFlow, ProxyCert, s)
    <2>1. CASE s = AutoStep("Received", "Validated", "RequestValidator", {"RequestData"},
                  {"RequestData"}, {})
      BY <1>1, <2>1, StepIs DEF StepFits, ProxyCert, Now, Answers
    <2>2. CASE s = AutoStep("Validated", "Routed", "RoutingResolver", {"RequestData"}, {},
                  {"RouteTarget"})
      BY <1>1, <2>2, StepIs DEF StepFits, ProxyCert, Now, Answers
    <2>3. CASE s = External("Routed", "AuthChecked", "AuthGuard", "AuthData", FALSE, {})
      BY <2>3 DEF StepFits, External, ProxyCert, Now, Answers
    <2>4. CASE s = Asking(External("AuthChecked", "Forwarded", "ForwardGuard",
                  "BackendResponse", FALSE, {}), {"RouteTarget"})
      BY <2>4 DEF StepFits, External, Asking, ProxyCert, Now, Answers
    <2>5. CASE s = AutoStep("Forwarded", "Completed", "CompletionProcessor",
                  {"BackendResponse"}, {}, {})
      BY <1>1, <2>5, StepIs DEF StepFits, ProxyCert, Now, Answers
    <2>6. CASE s = AutoStep("Validated", "BadGateway", "RoutingResolver", {"RequestData"}, {}, {})
      BY <1>1, <2>6, StepIs DEF StepFits, ProxyCert, Now, Answers
    <2> QED
      BY <2>1, <2>2, <2>3, <2>4, <2>5, <2>6 DEF ProxyFlow, Definition
  <1>3. \A x \in DOMAIN ProxyCert : ProxyCert[x].steps \in Nat
    BY DEF ProxyCert, Now
  <1> QED
    BY <1>2, <1>3 DEF Fits, ProxyFlow, ProxyCert, Definition, Now

(* The certificate of OidcFlow holds. *)
LEMMA OidcFits == Fits(OidcFlow, OidcCert)
  <1>1. OidcFlow.error = "TerminalError"
    BY DEF OidcFlow, Definition
  <1>2. ASSUME NEW s \in OidcFlow.steps PROVE StepFits(OidcFlow, OidcCert, s)
    <2>1. CASE s = AutoStep("Init", "Redirected", "OidcInit", {"OidcInitData"},
                  {"OidcInitData"}, {})
      BY <1>1, <2>1, StepIs DEF StepFits, OidcCert, Now, Answers
    <2>2. CASE s = External("Redirected", "CallbackReceived", "OidcCallbackGuard",
                  "OidcCallbackData", FALSE, {"OidcTokenData", "OidcUserData"})
      BY <2>2 DEF StepFits, External, OidcCert, Now, Answers
    <2>3. CASE s = AutoStep("CallbackReceived", "TokenExchanged", "TokenExchange",
                  {"OidcCallbackData"}, {"OidcCallbackData", "OidcTokenData"},
                  {"OidcTokenData"})
      BY <1>1, <2>3, StepIs DEF StepFits, OidcCert, Now, Answers
    <2>4. CASE s = AutoStep("TokenExchanged", "UserResolved", "UserResolve",
                  {"OidcTokenData"}, {"OidcUserData"}, {"OidcUserData"})
      BY <1>1, <2>4, StepIs DEF StepFits, OidcCert, Now, Answers
    <2>5. CASE s = AutoStep("UserResolved", "RiskChecked", "RiskCheck", {"OidcUserData"},
                  {}, {"RiskCheckResult"})
      BY <1>1, <2>5, StepIs DEF StepFits, OidcCert, Now, Answers
    <2>6. CASE s = Branch("RiskChecked", "Complete", "complete", {"RiskCheckResult"},
                  "RiskCheckResult", {"made"})
      BY <1>1, <2>6, StepIs DEF StepFits, OidcCert, Now
    <2>7. CASE s = Branch("RiskChecked", "CompleteMfaPending", "mfa_pending",
                  {"RiskCheckResult"}, "RiskCheckResult", {"good"})
      BY <1>1, <2>7, StepIs DEF StepFits, OidcCert, Now
    <2>8. CASE s = Branch("RiskChecked", "Blocked", "blocked", {"RiskCheckResult"},
                  "RiskCheckResult", {"bad"})
      BY <1>1, <2>8, StepIs DEF StepFits, OidcCert, Now
    <2> QED
      BY <2>1, <2>2, <2>3, <2>4, <2>5, <2>6, <2>7, <2>8 DEF OidcFlow, Definition
  <1>3. \A x \in DOMAIN OidcCert : OidcCert[x].steps \in Nat
    BY DEF OidcCert, Now
  <1> QED
    BY <1>2, <1>3 DEF Fits, OidcFlow, OidcCert, Definition, Now

(* The certificate of PasskeyFlow holds. *)
LEMMA PasskeyFits == Fits(PasskeyFlow, PasskeyCert)
  <1>1. PasskeyFlow.error = "TerminalError"
    BY DEF PasskeyFlow, Definition
  <1>2. ASSUME NEW s \in PasskeyFlow.steps PROVE StepFits(PasskeyFlow, PasskeyCert, s)
    <2>1. CASE s = AutoStep("Init", "ChallengeIssued", "PasskeyChallenge",
                  {"PasskeyInitData"}, {}, {"PasskeyChallenge"})
      BY <1>1, <2>1, StepIs DEF StepFits, PasskeyCert, Now, Answers
    <2>2. CASE s = External("ChallengeIssued", "AssertionReceived", "PasskeyAssertionGuard",
                  "PasskeyAssertion", FALSE, {})
      BY <2>2 DEF StepFits, External, PasskeyCert, Now, Answers
    <2>3. CASE s = AutoStep("AssertionReceived", "UserResolved", "PasskeyVerify",
                  {"PasskeyAssertion", "PasskeyChallenge"}, {}, {"PasskeyUser"})
      BY <1>1, <2>3, StepIs DEF StepFits, PasskeyCert, Now, Answers
    <2>4. CASE s = AutoStep("UserResolved", "Complete", "PasskeyComplete", {"PasskeyUser"},
                  {"PasskeyUser"}, {})
      BY <1>1, <2>4, StepIs DEF StepFits, PasskeyCert, Now, Answers
    <2> QED
      BY <2>1, <2>2, <2>3, <2>4 DEF PasskeyFlow, Definition
  <1>3. \A x \in DOMAIN PasskeyCert : PasskeyCert[x].steps \in Nat
    BY DEF PasskeyCert, Now
  <1> QED
    BY <1>2, <1>3 DEF Fits, PasskeyFlow, PasskeyCert, Definition, Now

(* The certificate of MfaFlow holds. *)
LEMMA MfaFits == Fits(MfaFlow, MfaCert)
  <1>1. MfaFlow.error = "TerminalError"
    BY DEF MfaFlow, Definition
  <1>2. ASSUME NEW s \in MfaFlow.steps PROVE StepFits(MfaFlow, MfaCert, s)
    <2>1. CASE s = External("ChallengeShown", "Verified", "MfaCodeGuard", "MfaCode", TRUE,
                  {})
      BY <2>1 DEF StepFits, External, MfaCert, Now, Answers
    <2> QED
      BY <2>1 DEF MfaFlow, Definition
  <1>3. \A x \in DOMAIN MfaCert : MfaCert[x].steps \in Nat
    BY DEF MfaCert, Now
  <1> QED
    BY <1>2, <1>3 DEF Fits, MfaFlow, MfaCert, Definition, Now

(* The certificate of InviteFlow holds. *)
LEMMA InviteFits == Fits(InviteFlow, InviteCert)
  <1>1. InviteFlow.error = "TerminalError"
    BY DEF InviteFlow, Definition
  <1>2. ASSUME NEW s \in InviteFlow.steps PROVE StepFits(InviteFlow, InviteCert, s)
    <2>1. CASE s = Branch("ConsentShown", "Accepted", "match", {"InviteData"}, "InviteData",
                  {"good"})
      BY <1>1, <2>1, StepIs DEF StepFits, InviteCert, Now
    <2>2. CASE s = Branch("ConsentShown", "AccountSwitching", "switch", {"InviteData"},
                  "InviteData", {"bad", "absent"})
      BY <1>1, <2>2, StepIs DEF StepFits, InviteCert, Now
    <2>3. CASE s = External("AccountSwitching", "Accepted", "InviteAcceptGuard",
                  "InviteAcceptance", TRUE, {})
      BY <2>3 DEF StepFits, External, InviteCert, Now, Answers
    <2>4. CASE s = AutoStep("Accepted", "Complete", "InviteComplete", {"InviteData"}, {},
                  {"InviteResult"})
      BY <1>1, <2>4, StepIs DEF StepFits, InviteCert, Now, Answers
    <2> QED
      BY <2>1, <2>2, <2>3, <2>4 DEF InviteFlow, Definition
  <1>3. \A x \in DOMAIN InviteCert : InviteCert[x].steps \in Nat
    BY DEF InviteCert, Now
  <1> QED
    BY <1>2, <1>3 DEF Fits, InviteFlow, InviteCert, Definition, Now

(* The certificate of RegistrationFlow holds. *)
LEMMA RegistrationFits == Fits(RegistrationFlow, RegistrationCert)
  <1>1. RegistrationFlow.error = "Cancelled"
    BY DEF RegistrationFlow, Definition
  <1>2. ASSUME NEW s \in RegistrationFlow.steps PROVE StepFits(RegistrationFlow, RegistrationCert, s)
    <2>1. CASE s = AutoStep("Start", "EmailVerificationPending", "RegIssueVerification",
                  {"RegistrationInit"}, {}, {"VerificationIssued"})
      BY <1>1, <2>1, StepIs DEF StepFits, RegistrationCert, Now, Answers
    <2>2. CASE s = External("EmailVerificationPending", "EmailVerified",
                  "RegVerifyEmailGuard", "EmailVerifiedData", FALSE, {"MfaChoice"})
      BY <2>2 DEF StepFits, External, RegistrationCert, Now, Answers
    <2>3. CASE s = Branch("EmailVerified", "MfaSetupOptional", "branch(setup)", {},
                  "MfaChoice", {"good"})
      BY <1>1, <2>3, StepIs DEF StepFits, RegistrationCert, Now
    <2>4. CASE s = Branch("EmailVerified", "Completed", "branch(skip)", {}, "MfaChoice",
                  {"bad", "absent"})
      BY <1>1, <2>4, StepIs DEF StepFits, RegistrationCert, Now
    <2>5. CASE s = External("MfaSetupOptional", "Completed", "RegMfaDoneGuard",
                  "MfaSetupResult", FALSE, {})
      BY <2>5 DEF StepFits, External, RegistrationCert, Now, Answers
    <2> QED
      BY <2>1, <2>2, <2>3, <2>4, <2>5 DEF RegistrationFlow, Definition
  <1>3. \A x \in DOMAIN RegistrationCert : RegistrationCert[x].steps \in Nat
    BY DEF RegistrationCert, Now
  <1> QED
    BY <1>2, <1>3 DEF Fits, RegistrationFlow, RegistrationCert, Definition, Now

(* The certificate of EmailVerificationFlow holds. *)
LEMMA EmailVerificationFits == Fits(EmailVerificationFlow, EmailVerificationCert)
  <1>1. EmailVerificationFlow.error = "Cancelled"
    BY DEF EmailVerificationFlow, Definition
  <1>2. ASSUME NEW s \in EmailVerificationFlow.steps
        PROVE  StepFits(EmailVerificationFlow, EmailVerificationCert, s)
    <2>1. CASE s = AutoStep("TokenIssued", "SendRequested", "EvRequestSend",
                  {"EmailVerificationInit"}, {}, {"SendRequest"})
      BY <1>1, <2>1, StepIs DEF StepFits, EmailVerificationCert, Now, Answers
    <2>2. CASE s = External("SendRequested", "Sent", "EvMarkSentGuard", "SendOutcome", TRUE,
                  {})
      BY <2>2 DEF StepFits, External, EmailVerificationCert, Now, Answers
    <2>3. CASE s = External("Sent", "Verified", "EvVerifyTokenGuard", "VerificationProof",
                  TRUE, {})
      BY <2>3 DEF StepFits, External, EmailVerificationCert, Now, Answers
    <2> QED
      BY <2>1, <2>2, <2>3 DEF EmailVerificationFlow, Definition
  <1>3. \A x \in DOMAIN EmailVerificationCert : EmailVerificationCert[x].steps \in Nat
    BY DEF EmailVerificationCert, Now
  <1> QED
    BY <1>2, <1>3 DEF Fits, EmailVerificationFlow, EmailVerificationCert, Definition, Now

(* The certificate of PasswordResetFlow holds. *)
LEMMA PasswordResetFits == Fits(PasswordResetFlow, PasswordResetCert)
  <1>1. PasswordResetFlow.error = "Cancelled"
    BY DEF PasswordResetFlow, Definition
  <1>2. ASSUME NEW s \in PasswordResetFlow.steps PROVE StepFits(PasswordResetFlow, PasswordResetCert, s)
    <2>1. CASE s = AutoStep("Requested", "TokenIssued", "PrIssueResetToken",
                  {"PasswordResetInit"}, {}, {"ResetTokenIssued"})
      BY <1>1, <2>1, StepIs DEF StepFits, PasswordResetCert, Now, Answers
    <2>2. CASE s = AutoStep("TokenIssued", "SendRequested", "PrRequestSend",
                  {"ResetTokenIssued", "PasswordResetInit"}, {}, {"ResetSendRequest"})
      BY <1>1, <2>2, StepIs DEF StepFits, PasswordResetCert, Now, Answers
    <2>3. CASE s = External("SendRequested", "Sent", "PrMarkSentGuard", "ResetSendOutcome",
                  FALSE, {})
      BY <2>3 DEF StepFits, External, PasswordResetCert, Now, Answers
    <2>4. CASE s = External("Sent", "TokenVerified", "PrVerifyResetTokenGuard",
                  "ResetTokenProof", TRUE, {})
      BY <2>4 DEF StepFits, External, PasswordResetCert, Now, Answers
    <2>5. CASE s = External("TokenVerified", "PasswordChanged", "PrChangePasswordGuard",
                  "PasswordChangedData", TRUE, {})
      BY <2>5 DEF StepFits, External, PasswordResetCert, Now, Answers
    <2>6. CASE s = AutoStep("PasswordChanged", "Completed", "PrComplete",
                  {"PasswordChangedData"}, {}, {})
      BY <1>1, <2>6, StepIs DEF StepFits, PasswordResetCert, Now, Answers
    <2> QED
      BY <2>1, <2>2, <2>3, <2>4, <2>5, <2>6 DEF PasswordResetFlow, Definition
  <1>3. \A x \in DOMAIN PasswordResetCert : PasswordResetCert[x].steps \in Nat
    BY DEF PasswordResetCert, Now
  <1> QED
    BY <1>2, <1>3 DEF Fits, PasswordResetFlow, PasswordResetCert, Definition, Now

(* The certificate of MfaSetupFlow holds. *)
LEMMA MfaSetupFits == Fits(MfaSetupFlow, MfaSetupCert)
  <1>1. MfaSetupFlow.error = "Cancelled"
    BY DEF MfaSetupFlow, Definition
  <1>2. ASSUME NEW s \in MfaSetupFlow.steps PROVE StepFits(MfaSetupFlow, MfaSetupCert, s)
    <2>1. CASE s = External("NotConfigured", "SetupStarted", "MfaStartSetupGuard",
                  "SetupStart", FALSE, {})
      BY <2>1 DEF StepFits, External, MfaSetupCert, Now, Answers
    <2>2. CASE s = AutoStep("SetupStarted", "SecretIssued", "MfaIssueSecret",
                  {"MfaSetupInit"}, {}, {"TotpSecretIssued"})
      BY <1>1, <2>2, StepIs DEF StepFits, MfaSetupCert, Now, Answers
    <2>3. CASE s = AutoStep("SecretIssued", "ConfirmationPending", "MfaPresentSecret",
                  {"TotpSecretIssued"}, {}, {"SecretPresented"})
      BY <1>1, <2>3, StepIs DEF StepFits, MfaSetupCert, Now, Answers
    <2>4. CASE s = External("ConfirmationPending", "Enabled", "MfaConfirmCodeGuard",
                  "ConfirmResult", TRUE, {})
      BY <2>4 DEF StepFits, External, MfaSetupCert, Now, Answers
    <2>5. CASE s = AutoStep("Enabled", "RecoveryCodesIssued", "MfaIssueRecoveryCodes",
                  {"ConfirmResult"}, {}, {"RecoveryCodesResult"})
      BY <1>1, <2>5, StepIs DEF StepFits, MfaSetupCert, Now, Answers
    <2> QED
      BY <2>1, <2>2, <2>3, <2>4, <2>5 DEF MfaSetupFlow, Definition
  <1>3. \A x \in DOMAIN MfaSetupCert : MfaSetupCert[x].steps \in Nat
    BY DEF MfaSetupCert, Now
  <1> QED
    BY <1>2, <1>3 DEF Fits, MfaSetupFlow, MfaSetupCert, Definition, Now

(* The certificate of LoginChallengeFlow holds. *)
LEMMA LoginChallengeFits == Fits(LoginChallengeFlow, LoginChallengeCert)
  <1>1. LoginChallengeFlow.error = "LoginDenied"
    BY DEF LoginChallengeFlow, Definition
  <1>2. ASSUME NEW s \in LoginChallengeFlow.steps
        PROVE  StepFits(LoginChallengeFlow, LoginChallengeCert, s)
    <2>1. CASE s = Branch("PasswordAccepted", "MfaRequired", "branch(mfa)",
                  {"LoginChallengeInit"}, "LoginChallengeInit", {"good"})
      BY <1>1, <2>1, StepIs DEF StepFits, LoginChallengeCert, Now
    <2>2. CASE s = Branch("PasswordAccepted", "LoginGranted", "branch(grant)",
                  {"LoginChallengeInit"}, "LoginChallengeInit", {"bad", "absent"})
      BY <1>1, <2>2, StepIs DEF StepFits, LoginChallengeCert, Now
    <2>3. CASE s = AutoStep("MfaRequired", "ChallengeSent", "LcSendChallenge",
                  {"LoginChallengeInit"}, {}, {"ChallengeSentData"})
      BY <1>1, <2>3, StepIs DEF StepFits, LoginChallengeCert, Now, Answers
    <2>4. CASE s = External("ChallengeSent", "ChallengeVerified", "LcVerifyChallengeGuard",
                  "ChallengeProof", TRUE, {})
      BY <2>4 DEF StepFits, External, LoginChallengeCert, Now, Answers
    <2>5. CASE s = AutoStep("ChallengeVerified", "LoginGranted", "LcGrant",
                  {"ChallengeProof"}, {}, {})
      BY <1>1, <2>5, StepIs DEF StepFits, LoginChallengeCert, Now, Answers
    <2> QED
      BY <2>1, <2>2, <2>3, <2>4, <2>5 DEF LoginChallengeFlow, Definition
  <1>3. \A x \in DOMAIN LoginChallengeCert : LoginChallengeCert[x].steps \in Nat
    BY DEF LoginChallengeCert, Now
  <1> QED
    BY <1>2, <1>3 DEF Fits, LoginChallengeFlow, LoginChallengeCert, Definition, Now

(* The certificate of DeviceGrantFlow holds. *)
LEMMA DeviceGrantFits == Fits(DeviceGrantFlow, DeviceGrantCert)
  <1>1. DeviceGrantFlow.error = "Rejected"
    BY DEF DeviceGrantFlow, Definition
  <1>2. ASSUME NEW s \in DeviceGrantFlow.steps PROVE StepFits(DeviceGrantFlow, DeviceGrantCert, s)
    <2>1. CASE s = External("Pending", "Approved", "DeviceDecisionGuard",
                  "DeviceDecisionProof", TRUE, {})
      BY <2>1 DEF StepFits, External, DeviceGrantCert, Now, Answers
    <2>2. CASE s = AutoStep("Approved", "Completed", "DeviceIssueToken",
                  {"DeviceDecisionProof"}, {}, {})
      BY <1>1, <2>2, StepIs DEF StepFits, DeviceGrantCert, Now, Answers
    <2> QED
      BY <2>1, <2>2 DEF DeviceGrantFlow, Definition
  <1>3. \A x \in DOMAIN DeviceGrantCert : DeviceGrantCert[x].steps \in Nat
    BY DEF DeviceGrantCert, Now
  <1> QED
    BY <1>2, <1>3 DEF Fits, DeviceGrantFlow, DeviceGrantCert, Definition, Now

(* The certificate of TokenFlow holds. *)
LEMMA TokenFits == Fits(TokenFlow, TokenCert)
  <1>1. TokenFlow.error = "Denied"
    BY DEF TokenFlow, Definition
  <1>2. ASSUME NEW s \in TokenFlow.steps PROVE StepFits(TokenFlow, TokenCert, s)
    <2>1. CASE s = AutoStep("Received", "Validated", "TokenValidator", {"TokenRequest"},
                  {"TokenRequest"}, {"TokenValidation"})
      BY <1>1, <2>1, StepIs DEF StepFits, TokenCert, Now, Answers
    <2>2. CASE s = External("Validated", "Refreshed", "RefreshGuard", "TokenValidation",
                  FALSE, {})
      BY <2>2 DEF StepFits, External, TokenCert, Now, Answers
    <2>3. CASE s = AutoStep("Refreshed", "Issued", "TokenIssuer", {"TokenValidation"},
                  {"TokenValidation"}, {"NewTokens"})
      BY <1>1, <2>3, StepIs DEF StepFits, TokenCert, Now, Answers
    <2>4. CASE s = AutoStep("Issued", "Completed", "TokenComplete", {"NewTokens"}, {}, {})
      BY <1>1, <2>4, StepIs DEF StepFits, TokenCert, Now, Answers
    <2> QED
      BY <2>1, <2>2, <2>3, <2>4 DEF TokenFlow, Definition
  <1>3. \A x \in DOMAIN TokenCert : TokenCert[x].steps \in Nat
    BY DEF TokenCert, Now
  <1> QED
    BY <1>2, <1>3 DEF Fits, TokenFlow, TokenCert, Definition, Now

(* Every definition has its certificate. *)
LEMMA AllFit ==
  /\ DOMAIN Cert = DOMAIN Flow
  /\ \A f \in DOMAIN Flow : Fits(Flow[f], Cert[f])
  <1>1. DOMAIN Cert = DOMAIN Flow
    BY DEF Cert, Flow
  <1>2. ASSUME NEW f \in DOMAIN Flow PROVE Fits(Flow[f], Cert[f])
    <2>1. CASE f = "proxy"
      BY <2>1, ProxyFits DEF Flow, Cert
    <2>2. CASE f = "oidc"
      BY <2>2, OidcFits DEF Flow, Cert
    <2>3. CASE f = "passkey"
      BY <2>3, PasskeyFits DEF Flow, Cert
    <2>4. CASE f = "mfa"
      BY <2>4, MfaFits DEF Flow, Cert
    <2>5. CASE f = "invite"
      BY <2>5, InviteFits DEF Flow, Cert
    <2>6. CASE f = "registration"
      BY <2>6, RegistrationFits DEF Flow, Cert
    <2>7. CASE f = "email_verification"
      BY <2>7, EmailVerificationFits DEF Flow, Cert
    <2>8. CASE f = "password_reset"
      BY <2>8, PasswordResetFits DEF Flow, Cert
    <2>9. CASE f = "mfa_setup"
      BY <2>9, MfaSetupFits DEF Flow, Cert
    <2>10. CASE f = "login_challenge"
      BY <2>10, LoginChallengeFits DEF Flow, Cert
    <2>11. CASE f = "device_grant"
      BY <2>11, DeviceGrantFits DEF Flow, Cert
    <2>12. CASE f = "token_refresh"
      BY <2>12, TokenFits DEF Flow, Cert
    <2> QED
      BY <2>1, <2>2, <2>3, <2>4, <2>5, <2>6, <2>7, <2>8, <2>9, <2>10, <2>11, <2>12 DEF Flow
  <1> QED
    BY <1>1, <1>2

(* What the data is, when the flow is at a state with the certificate now. *)
DataOK(now, d) ==
  /\ now.has \subseteq DOMAIN d
  /\ \A k \in now.sure : k \in DOMAIN d /\ d[k] = "good"
  /\ \A k \in DOMAIN d : k \in Answers => d[k] \in {"good", "bad"}

(* A login is granted without a challenge, or with an answered one; an     *)
(* invitation is for the user's address, or accepted by hand.              *)
Chosen ==
  /\ flow = "login_challenge" /\ at = "LoginGranted" =>
       Value("LoginChallengeInit") # "good" \/ Value("ChallengeProof") = "good"
  /\ flow = "invite" /\ at \in {"Accepted", "Complete"} =>
       Value("InviteData") = "good" \/ Value("InviteAcceptance") = "good"

(* The inductive invariant of the flows. *)
FlowInv ==
  /\ flow \in DOMAIN Flow /\ at \in DOMAIN Cert[flow]
  /\ chain \in Nat /\ chain <= Cert[flow][at].steps
  /\ DataOK(Cert[flow][at], data)
  /\ last = NoEdge \/ \E s \in Flow[flow].steps : last = Edge(s)
  /\ Chosen

(* A flow starts with what is given. *)
LEMMA FlowInitInv == FlowInit => FlowInv
  <1> SUFFICES ASSUME FlowInit PROVE FlowInv
    OBVIOUS
  <1>1. PICK d, c : d = Flow[flow] /\ c = Cert[flow]
    OBVIOUS
  <1>2. flow \in DOMAIN Flow /\ Fits(d, c) /\ at = d.initial /\ chain = 0 /\ last = NoEdge
    BY <1>1, AllFit DEF FlowInit
  <1>3. PICK v \in {"good", "bad"} : data = [k \in {d.given} |-> v]
    BY <1>1 DEF FlowInit
  <1>4. at \in DOMAIN c /\ c[at] = Now(c[at].has, {}, 0) /\ c[at].has \subseteq {d.given}
    BY <1>2 DEF Fits
  <1>5. c[at].sure = {} /\ c[at].steps = 0
    BY <1>4 DEF Now
  <1>6. DOMAIN data = {d.given} /\ \A k \in DOMAIN data : data[k] \in {"good", "bad"}
    BY <1>3
  <1>7. DataOK(c[at], data)
    BY <1>4, <1>5, <1>6 DEF DataOK
  <1>8. Chosen
    <2>1. flow = "login_challenge" => at = "PasswordAccepted"
      BY <1>1, <1>2 DEF Flow, LoginChallengeFlow, Definition
    <2>2. flow = "invite" => at = "ConsentShown"
      BY <1>1, <1>2 DEF Flow, InviteFlow, Definition
    <2> QED
      BY <2>1, <2>2 DEF Chosen
  <1> QED
    BY <1>1, <1>2, <1>4, <1>5, <1>7, <1>8 DEF FlowInv

(* The error states ask for nothing. *)
LEMMA ErrorsFit ==
  ASSUME FlowInv, NEW e \in ErrorStates, NEW s \in StepsFrom(at),
         s.kind \in {"auto", "branch"}
  PROVE  /\ e \in DOMAIN Cert[flow] /\ Cert[flow][e].has = {} /\ Cert[flow][e].sure = {}
         /\ Cert[flow][at].steps + 1 <= Cert[flow][e].steps
         /\ Cert[flow][at].steps \in Nat /\ Cert[flow][e].steps \in Nat
  <1>1. PICK d, c : d = Flow[flow] /\ c = Cert[flow]
    OBVIOUS
  <1>2. Fits(d, c) /\ s \in d.steps /\ s.from = at /\ at \in DOMAIN c
    BY <1>1, AllFit DEF FlowInv, StepsFrom
  <1>3. CASE e = d.error
    <2>1. e \in DOMAIN c /\ c[e].has = {} /\ c[e].sure = {} /\ StepFits(d, c, s)
      BY <1>2, <1>3 DEF Fits
    <2>2. c[at].steps + 1 <= c[e].steps
      BY <1>2, <1>3, <2>1 DEF StepFits
    <2>3. c[at].steps \in Nat /\ c[e].steps \in Nat
      BY <1>2, <2>1 DEF Fits
    <2> QED
      BY <1>1, <2>1, <2>2, <2>3
  <1>4. CASE flow = "proxy" /\ at = "Received" /\ e = "Denied"
    <2>1. Cert[flow] = ProxyCert
      BY <1>4 DEF Cert
    <2>2. /\ "Denied" \in DOMAIN ProxyCert /\ ProxyCert["Denied"] = Now({}, {}, 1)
          /\ ProxyCert["Received"] = Now({"RequestData"}, {}, 0)
      BY DEF ProxyCert
    <2> QED
      BY <1>4, <2>1, <2>2 DEF Now
  <1> QED
    BY <1>1, <1>3, <1>4 DEF ErrorStates

(* Nothing leads on from a granted login, and to it the branch that asks   *)
(* for no challenge or the answered one.                                   *)
LEMMA LoginSteps ==
  ASSUME NEW s \in LoginChallengeFlow.steps
  PROVE  /\ s.from # "LoginGranted"
         /\ s.to = "LoginGranted" =>
              \/ s.kind = "branch" /\ s.key = "LoginChallengeInit" /\ "good" \notin s.picks
              \/ s.kind = "auto" /\ s.from = "ChallengeVerified"
  <1>1. CASE s = Branch("PasswordAccepted", "MfaRequired", "branch(mfa)",
                {"LoginChallengeInit"}, "LoginChallengeInit", {"good"})
    BY <1>1 DEF Branch
  <1>2. CASE s = Branch("PasswordAccepted", "LoginGranted", "branch(grant)",
                {"LoginChallengeInit"}, "LoginChallengeInit", {"bad", "absent"})
    BY <1>2 DEF Branch
  <1>3. CASE s = AutoStep("MfaRequired", "ChallengeSent", "LcSendChallenge",
                {"LoginChallengeInit"}, {}, {"ChallengeSentData"})
    BY <1>3 DEF AutoStep
  <1>4. CASE s = External("ChallengeSent", "ChallengeVerified", "LcVerifyChallengeGuard",
                "ChallengeProof", TRUE, {})
    BY <1>4 DEF External
  <1>5. CASE s = AutoStep("ChallengeVerified", "LoginGranted", "LcGrant",
                {"ChallengeProof"}, {}, {})
    BY <1>5 DEF AutoStep
  <1> QED
    BY <1>1, <1>2, <1>3, <1>4, <1>5 DEF LoginChallengeFlow, Definition

(* An invitation is accepted by the branch that finds the address, or the  *)
(* guard that takes the acceptance.                                        *)
LEMMA InviteSteps ==
  ASSUME NEW s \in InviteFlow.steps
  PROVE  /\ s.from # "Complete"
         /\ s.from = "Accepted" => s.kind = "auto"
         /\ s.to = "Accepted" =>
              \/ s.kind = "branch" /\ s.key = "InviteData" /\ s.picks = {"good"}
              \/ s.kind = "external" /\ s.key = "InviteAcceptance" /\ s.refuses = {"InviteAcceptance"}
         /\ s.to = "Complete" => s.from = "Accepted" /\ s.kind = "auto"
  <1>1. CASE s = Branch("ConsentShown", "Accepted", "match", {"InviteData"}, "InviteData",
                {"good"})
    BY <1>1 DEF Branch
  <1>2. CASE s = Branch("ConsentShown", "AccountSwitching", "switch", {"InviteData"},
                "InviteData", {"bad", "absent"})
    BY <1>2 DEF Branch
  <1>3. CASE s = External("AccountSwitching", "Accepted", "InviteAcceptGuard",
                "InviteAcceptance", TRUE, {})
    BY <1>3 DEF External
  <1>4. CASE s = AutoStep("Accepted", "Complete", "InviteComplete", {"InviteData"}, {},
                {"InviteResult"})
    BY <1>4 DEF AutoStep
  <1> QED
    BY <1>1, <1>2, <1>3, <1>4 DEF InviteFlow, Definition

(* Where these flows go on an error. *)
LEMMA ErrorsOf ==
  /\ Flow["login_challenge"] = LoginChallengeFlow /\ LoginChallengeFlow.error = "LoginDenied"
  /\ Flow["invite"] = InviteFlow /\ InviteFlow.error = "TerminalError"
  BY DEF Flow, LoginChallengeFlow, InviteFlow, Definition

(* What a step of the definition is to its certificate. *)
LEMMA StepFacts ==
  ASSUME FlowInv, NEW s \in StepsFrom(at)
  PROVE  /\ s \in Flow[flow].steps /\ s.from = at
         /\ StepFits(Flow[flow], Cert[flow], s)
         /\ Cert[flow][at].steps \in Nat /\ Cert[flow][s.to].steps \in Nat
  <1>1. PICK d, c : d = Flow[flow] /\ c = Cert[flow]
    OBVIOUS
  <1>2. Fits(d, c) /\ s \in d.steps /\ s.from = at /\ at \in DOMAIN c
    BY <1>1, AllFit DEF FlowInv, StepsFrom
  <1>3. StepFits(d, c, s)
    BY <1>2 DEF Fits
  <1>4. s.to \in DOMAIN c
    BY <1>3 DEF StepFits
  <1> QED
    BY <1>1, <1>2, <1>3, <1>4 DEF Fits

(* A processor runs, or fails. *)
LEMMA AutoKeeps ==
  ASSUME FlowInv, NEW s \in StepsFrom(at), RunAuto(s)
  PROVE  FlowInv'
  <1>1. PICK c : c = Cert[flow]
    OBVIOUS
  <1>2. s.kind = "auto" /\ flow' = flow /\ chain' = chain + 1
    BY DEF RunAuto
  <1>3. /\ s \in Flow[flow].steps /\ s.from = at /\ StepFits(Flow[flow], c, s)
        /\ c[at].steps \in Nat /\ c[s.to].steps \in Nat
    BY <1>1, StepFacts
  <1>4. CASE \E k \in s.refuses : Value(k) = "bad"
    <2>1. at' \in ErrorStates /\ data' = data /\ last' = last
      BY <1>4 DEF RunAuto
    <2>2. /\ at' \in DOMAIN c /\ c[at'].has = {} /\ c[at'].sure = {}
          /\ c[at].steps + 1 <= c[at'].steps /\ c[at'].steps \in Nat
      BY <1>1, <1>2, <2>1, ErrorsFit
    <2>3. DataOK(c[at'], data')
      BY <2>1, <2>2 DEF DataOK, FlowInv
    <2>4. chain' \in Nat /\ chain' <= c[at'].steps
      BY <1>1, <1>2, <1>3, <2>2 DEF FlowInv
    <2>5. /\ flow = "login_challenge" => at' = "LoginDenied"
          /\ flow = "invite" => at' = "TerminalError"
      BY <2>1, ErrorsOf DEF ErrorStates
    <2>6. Chosen'
      BY <1>2, <2>5 DEF Chosen
    <2> QED
      BY <1>1, <1>2, <2>1, <2>2, <2>3, <2>4, <2>6 DEF FlowInv, NoEdge, Edge
  <1>5. CASE ~\E k \in s.refuses : Value(k) = "bad"
    <2>1. /\ at' = s.to /\ last' = Edge(s)
          /\ data' = [k \in DOMAIN data \cup s.makes |-> IF k \in DOMAIN data THEN data[k] ELSE "made"]
      BY <1>5 DEF RunAuto
    <2>2. /\ s.to \in DOMAIN c /\ c[s.to].has \subseteq c[at].has \cup s.makes
          /\ c[s.to].sure \subseteq c[at].sure /\ c[at].steps + 1 <= c[s.to].steps
          /\ s.makes \cap Answers = {}
      BY <1>2, <1>3 DEF StepFits
    <2>3. /\ c[at].has \subseteq DOMAIN data
          /\ \A k \in c[at].sure : k \in DOMAIN data /\ data[k] = "good"
          /\ \A k \in DOMAIN data : k \in Answers => data[k] \in {"good", "bad"}
      BY <1>1 DEF FlowInv, DataOK
    <2>4. /\ DOMAIN data' = DOMAIN data \cup s.makes
          /\ \A k \in DOMAIN data : data'[k] = data[k]
          /\ \A k \in DOMAIN data' : k \notin DOMAIN data => k \in s.makes /\ data'[k] = "made"
      BY <2>1
    <2>5. DataOK(c[at'], data')
      BY <2>1, <2>2, <2>3, <2>4 DEF DataOK
    <2>6. chain' \in Nat /\ chain' <= c[at'].steps
      BY <1>1, <1>2, <1>3, <2>1, <2>2 DEF FlowInv
    <2>7. \A k : (Value(k) = "good" <=> Value(k)' = "good")
      BY <2>4 DEF Value
    <2>8. Chosen'
      <3>1. flow = "login_challenge" /\ at' = "LoginGranted" => Value("ChallengeProof")' = "good"
        <4> SUFFICES ASSUME flow = "login_challenge", at' = "LoginGranted"
                     PROVE  Value("ChallengeProof")' = "good"
          OBVIOUS
        <4>1. s \in LoginChallengeFlow.steps
          BY <1>3, ErrorsOf
        <4>2. at = "ChallengeVerified"
          BY <1>2, <1>3, <2>1, <4>1, LoginSteps
        <4>3. c["ChallengeVerified"] = Now({"ChallengeProof"}, {"ChallengeProof"}, 0)
          BY <1>1 DEF Cert, LoginChallengeCert
        <4>4. "ChallengeProof" \in c[at].sure
          BY <4>2, <4>3 DEF Now
        <4> QED
          BY <2>3, <2>4, <4>4 DEF Value
      <3>2. flow = "invite" /\ at' \in {"Accepted", "Complete"} =>
              Value("InviteData")' = "good" \/ Value("InviteAcceptance")' = "good"
        <4> SUFFICES ASSUME flow = "invite", at' \in {"Accepted", "Complete"}
                     PROVE  Value("InviteData")' = "good" \/ Value("InviteAcceptance")' = "good"
          OBVIOUS
        <4>1. s \in InviteFlow.steps
          BY <1>3, ErrorsOf
        <4>2. at = "Accepted"
          BY <1>2, <1>3, <2>1, <4>1, InviteSteps
        <4> QED
          BY <2>7, <4>2 DEF FlowInv, Chosen
      <3> QED
        BY <1>2, <3>1, <3>2 DEF Chosen
    <2> QED
      BY <1>1, <1>2, <1>3, <2>1, <2>2, <2>5, <2>6, <2>8 DEF FlowInv, Edge
  <1> QED
    BY <1>4, <1>5

(* A branch is taken. *)
LEMMA BranchKeeps ==
  ASSUME FlowInv, NEW s \in StepsFrom(at), RunBranch(s)
  PROVE  FlowInv'
  <1>1. PICK c : c = Cert[flow]
    OBVIOUS
  <1>2. /\ s.kind = "branch" /\ flow' = flow /\ data' = data /\ chain' = chain + 1
        /\ at' = s.to /\ last' = Edge(s) /\ Value(s.key) \in s.picks
    BY DEF RunBranch
  <1>3. /\ s \in Flow[flow].steps /\ s.from = at /\ StepFits(Flow[flow], c, s)
        /\ c[at].steps \in Nat /\ c[s.to].steps \in Nat
    BY <1>1, StepFacts
  <1>4. /\ s.to \in DOMAIN c /\ c[s.to].has \subseteq c[at].has
        /\ c[s.to].sure \subseteq c[at].sure /\ c[at].steps + 1 <= c[s.to].steps
    BY <1>2, <1>3 DEF StepFits
  <1>5. DataOK(c[at'], data')
    BY <1>1, <1>2, <1>4 DEF FlowInv, DataOK
  <1>6. chain' \in Nat /\ chain' <= c[at'].steps
    BY <1>1, <1>2, <1>3, <1>4 DEF FlowInv
  <1>7. \A k : Value(k)' = Value(k)
    BY <1>2 DEF Value
  <1>8. Chosen'
    <2>1. flow = "login_challenge" /\ at' = "LoginGranted" => Value("LoginChallengeInit")' # "good"
      BY <1>2, <1>3, <1>7, ErrorsOf, LoginSteps
    <2>2. flow = "invite" /\ at' \in {"Accepted", "Complete"} => Value("InviteData")' = "good"
      BY <1>2, <1>3, <1>7, ErrorsOf, InviteSteps
    <2> QED
      BY <1>2, <2>1, <2>2 DEF Chosen
  <1> QED
    BY <1>1, <1>2, <1>3, <1>4, <1>5, <1>6, <1>8 DEF FlowInv, Edge

(* A branch names a label that the definition does not have. *)
LEMMA UnknownKeeps ==
  ASSUME FlowInv, NEW s \in StepsFrom(at), RunUnknown(s)
  PROVE  FlowInv'
  <1>1. PICK c : c = Cert[flow]
    OBVIOUS
  <1>2. /\ s.kind = "branch" /\ flow' = flow /\ data' = data /\ last' = last
        /\ chain' = chain + 1 /\ at' \in ErrorStates
    BY DEF RunUnknown, ErrorStates
  <1>3. /\ at' \in DOMAIN c /\ c[at'].has = {} /\ c[at'].sure = {}
        /\ c[at].steps + 1 <= c[at'].steps /\ c[at].steps \in Nat /\ c[at'].steps \in Nat
    BY <1>1, <1>2, ErrorsFit
  <1>4. DataOK(c[at'], data')
    BY <1>2, <1>3 DEF DataOK, FlowInv
  <1>5. chain' \in Nat /\ chain' <= c[at'].steps
    BY <1>1, <1>2, <1>3 DEF FlowInv
  <1>6. /\ flow = "login_challenge" => at' = "LoginDenied"
        /\ flow = "invite" => at' = "TerminalError"
    BY <1>2, ErrorsOf DEF ErrorStates
  <1>7. Chosen'
    BY <1>2, <1>6 DEF Chosen
  <1> QED
    BY <1>1, <1>2, <1>3, <1>4, <1>5, <1>7 DEF FlowInv, NoEdge, Edge

(* A caller comes back; the guard takes what it brings, or not. *)
LEMMA ResumeKeeps ==
  ASSUME FlowInv, NEW s \in StepsFrom(at), Resume(s)
  PROVE  FlowInv'
  <1>1. PICK c : c = Cert[flow]
    OBVIOUS
  <1>2. s.kind = "external" /\ flow' = flow /\ chain' = 0
    BY DEF Resume
  <1>3. /\ s \in Flow[flow].steps /\ s.from = at /\ StepFits(Flow[flow], c, s)
        /\ c[at].steps \in Nat /\ c[s.to].steps \in Nat
    BY <1>1, StepFacts
  <1>4. /\ s.to \in DOMAIN c /\ c[s.to].has \subseteq c[at].has \cup {s.key}
        /\ c[at].sure \cap ({s.key} \cup s.makes) = {}
        /\ c[s.to].sure \subseteq c[at].sure \cup s.refuses
        /\ s.refuses \subseteq {s.key} \cap Answers
    BY <1>2, <1>3 DEF StepFits
  <1>5. PICK keys \in SUBSET ({s.key} \cup s.makes) : \E brought \in [keys -> {"good", "bad"}] :
          /\ data' = [k \in DOMAIN data \cup keys |-> IF k \in keys THEN brought[k] ELSE data[k]]
          /\ IF Accepts(s, data') THEN at' = s.to /\ last' = Edge(s) ELSE UNCHANGED <<at, last>>
    BY DEF Resume
  <1>6. PICK brought \in [keys -> {"good", "bad"}] :
          /\ data' = [k \in DOMAIN data \cup keys |-> IF k \in keys THEN brought[k] ELSE data[k]]
          /\ IF Accepts(s, data') THEN at' = s.to /\ last' = Edge(s) ELSE UNCHANGED <<at, last>>
    BY <1>5
  <1>7. /\ DOMAIN data' = DOMAIN data \cup keys
        /\ \A k \in keys : data'[k] \in {"good", "bad"}
        /\ \A k \in DOMAIN data : k \notin keys => data'[k] = data[k]
    BY <1>6
  <1>8. /\ c[at].has \subseteq DOMAIN data
        /\ \A k \in c[at].sure : k \in DOMAIN data /\ data[k] = "good"
        /\ \A k \in DOMAIN data : k \in Answers => data[k] \in {"good", "bad"}
        /\ at \in DOMAIN c
    BY <1>1 DEF FlowInv, DataOK
  <1>9. DataOK(c[at], data')
    BY <1>4, <1>5, <1>7, <1>8 DEF DataOK
  <1>10. CASE Accepts(s, data')
    <2>1. at' = s.to /\ last' = Edge(s) /\ s.key \in DOMAIN data' /\ \A k \in s.refuses : data'[k] # "bad"
      BY <1>6, <1>10 DEF Accepts
    <2>2. \A k \in s.refuses : k \in DOMAIN data' /\ data'[k] = "good"
      BY <1>4, <1>9, <2>1 DEF DataOK
    <2>3. DataOK(c[at'], data')
      BY <1>4, <1>9, <2>1, <2>2 DEF DataOK
    <2>4. chain' \in Nat /\ chain' <= c[at'].steps
      BY <1>2, <1>3, <2>1
    <2>5. ~(flow = "login_challenge" /\ at' = "LoginGranted")
      BY <1>2, <1>3, <2>1, ErrorsOf, LoginSteps
    <2>6. flow = "invite" /\ at' \in {"Accepted", "Complete"} => Value("InviteAcceptance")' = "good"
      <3>1. flow = "invite" /\ at' \in {"Accepted", "Complete"} => "InviteAcceptance" \in s.refuses
        BY <1>2, <1>3, <2>1, ErrorsOf, InviteSteps
      <3> QED
        BY <2>2, <3>1 DEF Value
    <2>7. Chosen'
      BY <1>2, <2>5, <2>6 DEF Chosen
    <2> QED
      BY <1>1, <1>2, <1>3, <1>4, <2>1, <2>3, <2>4, <2>7 DEF FlowInv, Edge
  <1>11. CASE ~Accepts(s, data')
    <2>1. at' = at /\ last' = last
      BY <1>6, <1>11
    <2>2. chain' \in Nat /\ chain' <= c[at'].steps
      BY <1>2, <1>3, <2>1
    <2>3. ~(flow = "login_challenge" /\ at = "LoginGranted")
      BY <1>3, ErrorsOf, LoginSteps
    <2>4. ~(flow = "invite" /\ at \in {"Accepted", "Complete"})
      BY <1>2, <1>3, ErrorsOf, InviteSteps
    <2>5. Chosen'
      BY <1>2, <2>1, <2>3, <2>4 DEF Chosen
    <2> QED
      BY <1>1, <1>2, <1>8, <1>9, <2>1, <2>2, <2>5 DEF FlowInv, NoEdge, Edge
  <1> QED
    BY <1>10, <1>11

(* Every step of a flow keeps the invariant. *)
LEMMA FlowStepInv == FlowInv /\ [FlowNext]_flowVars => FlowInv'
  <1> SUFFICES ASSUME FlowInv, [FlowNext]_flowVars PROVE FlowInv'
    OBVIOUS
  <1>1. CASE UNCHANGED flowVars
    BY <1>1 DEF flowVars, FlowInv, Chosen, Value, NoEdge, Edge
  <1>2. CASE FlowNext
    BY <1>2, AutoKeeps, BranchKeeps, UnknownKeeps, ResumeKeeps DEF FlowNext
  <1> QED
    BY <1>1, <1>2

(* viz.rs draws RegistrationFlow. *)
LEMMA RegistrationDrawn ==
  /\ \A s \in RegistrationFlow.steps : Edge(s) \in RegistrationView
  /\ \A e \in RegistrationView :
       e[3] = RegistrationFlow.error \/ \E s \in RegistrationFlow.steps : e = Edge(s)
  <1>1. PICK a : a = AutoStep("Start", "EmailVerificationPending", "RegIssueVerification",
           {"RegistrationInit"}, {}, {"VerificationIssued"})
    OBVIOUS
  <1>2. PICK b : b = External("EmailVerificationPending", "EmailVerified",
           "RegVerifyEmailGuard", "EmailVerifiedData", FALSE, {"MfaChoice"})
    OBVIOUS
  <1>3. PICK d : d = Branch("EmailVerified", "MfaSetupOptional", "branch(setup)", {},
           "MfaChoice", {"good"})
    OBVIOUS
  <1>4. PICK g : g = Branch("EmailVerified", "Completed", "branch(skip)", {}, "MfaChoice",
           {"bad", "absent"})
    OBVIOUS
  <1>5. PICK h : h = External("MfaSetupOptional", "Completed", "RegMfaDoneGuard",
           "MfaSetupResult", FALSE, {})
    OBVIOUS
  <1>6. /\ RegistrationFlow.steps = {a, b, d, g, h} /\ RegistrationFlow.error = "Cancelled"
    BY <1>1, <1>2, <1>3, <1>4, <1>5 DEF RegistrationFlow, Definition
  <1>7. Edge(a) = <<"Start", "RegIssueVerification", "EmailVerificationPending">>
    BY <1>1 DEF Edge, AutoStep
  <1>8. Edge(b) = <<"EmailVerificationPending", "RegVerifyEmailGuard", "EmailVerified">>
    BY <1>2 DEF Edge, External
  <1>9. Edge(d) = <<"EmailVerified", "branch(setup)", "MfaSetupOptional">>
    BY <1>3 DEF Edge, Branch
  <1>10. Edge(g) = <<"EmailVerified", "branch(skip)", "Completed">>
    BY <1>4 DEF Edge, Branch
  <1>11. Edge(h) = <<"MfaSetupOptional", "RegMfaDoneGuard", "Completed">>
    BY <1>5 DEF Edge, External
  <1> QED
    BY <1>6, <1>7, <1>8, <1>9, <1>10, <1>11 DEF RegistrationView

(* viz.rs draws EmailVerificationFlow. *)
LEMMA EmailVerificationDrawn ==
  /\ \A s \in EmailVerificationFlow.steps : Edge(s) \in EmailVerificationView
  /\ \A e \in EmailVerificationView :
       e[3] = EmailVerificationFlow.error \/ \E s \in EmailVerificationFlow.steps : e = Edge(s)
  <1>1. PICK a : a = AutoStep("TokenIssued", "SendRequested", "EvRequestSend",
           {"EmailVerificationInit"}, {}, {"SendRequest"})
    OBVIOUS
  <1>2. PICK b : b = External("SendRequested", "Sent", "EvMarkSentGuard", "SendOutcome",
           TRUE, {})
    OBVIOUS
  <1>3. PICK d : d = External("Sent", "Verified", "EvVerifyTokenGuard", "VerificationProof",
           TRUE, {})
    OBVIOUS
  <1>4. /\ EmailVerificationFlow.steps = {a, b, d} /\ EmailVerificationFlow.error = "Cancelled"
    BY <1>1, <1>2, <1>3 DEF EmailVerificationFlow, Definition
  <1>5. Edge(a) = <<"TokenIssued", "EvRequestSend", "SendRequested">>
    BY <1>1 DEF Edge, AutoStep
  <1>6. Edge(b) = <<"SendRequested", "EvMarkSentGuard", "Sent">>
    BY <1>2 DEF Edge, External
  <1>7. Edge(d) = <<"Sent", "EvVerifyTokenGuard", "Verified">>
    BY <1>3 DEF Edge, External
  <1> QED
    BY <1>4, <1>5, <1>6, <1>7 DEF EmailVerificationView

(* viz.rs draws PasswordResetFlow. *)
LEMMA PasswordResetDrawn ==
  /\ \A s \in PasswordResetFlow.steps : Edge(s) \in PasswordResetView
  /\ \A e \in PasswordResetView :
       e[3] = PasswordResetFlow.error \/ \E s \in PasswordResetFlow.steps : e = Edge(s)
  <1>1. PICK a : a = AutoStep("Requested", "TokenIssued", "PrIssueResetToken",
           {"PasswordResetInit"}, {}, {"ResetTokenIssued"})
    OBVIOUS
  <1>2. PICK b : b = AutoStep("TokenIssued", "SendRequested", "PrRequestSend",
           {"ResetTokenIssued", "PasswordResetInit"}, {}, {"ResetSendRequest"})
    OBVIOUS
  <1>3. PICK d : d = External("SendRequested", "Sent", "PrMarkSentGuard",
           "ResetSendOutcome", FALSE, {})
    OBVIOUS
  <1>4. PICK g : g = External("Sent", "TokenVerified", "PrVerifyResetTokenGuard",
           "ResetTokenProof", TRUE, {})
    OBVIOUS
  <1>5. PICK h : h = External("TokenVerified", "PasswordChanged", "PrChangePasswordGuard",
           "PasswordChangedData", TRUE, {})
    OBVIOUS
  <1>6. PICK i : i = AutoStep("PasswordChanged", "Completed", "PrComplete",
           {"PasswordChangedData"}, {}, {})
    OBVIOUS
  <1>7. /\ PasswordResetFlow.steps = {a, b, d, g, h, i} /\ PasswordResetFlow.error = "Cancelled"
    BY <1>1, <1>2, <1>3, <1>4, <1>5, <1>6 DEF PasswordResetFlow, Definition
  <1>8. Edge(a) = <<"Requested", "PrIssueResetToken", "TokenIssued">>
    BY <1>1 DEF Edge, AutoStep
  <1>9. Edge(b) = <<"TokenIssued", "PrRequestSend", "SendRequested">>
    BY <1>2 DEF Edge, AutoStep
  <1>10. Edge(d) = <<"SendRequested", "PrMarkSentGuard", "Sent">>
    BY <1>3 DEF Edge, External
  <1>11. Edge(g) = <<"Sent", "PrVerifyResetTokenGuard", "TokenVerified">>
    BY <1>4 DEF Edge, External
  <1>12. Edge(h) = <<"TokenVerified", "PrChangePasswordGuard", "PasswordChanged">>
    BY <1>5 DEF Edge, External
  <1>13. Edge(i) = <<"PasswordChanged", "PrComplete", "Completed">>
    BY <1>6 DEF Edge, AutoStep
  <1> QED
    BY <1>7, <1>8, <1>9, <1>10, <1>11, <1>12, <1>13 DEF PasswordResetView

(* viz.rs draws MfaSetupFlow. *)
LEMMA MfaSetupDrawn ==
  /\ \A s \in MfaSetupFlow.steps : Edge(s) \in MfaSetupView
  /\ \A e \in MfaSetupView : e[3] = MfaSetupFlow.error \/ \E s \in MfaSetupFlow.steps : e = Edge(s)
  <1>1. PICK a : a = External("NotConfigured", "SetupStarted", "MfaStartSetupGuard",
           "SetupStart", FALSE, {})
    OBVIOUS
  <1>2. PICK b : b = AutoStep("SetupStarted", "SecretIssued", "MfaIssueSecret",
           {"MfaSetupInit"}, {}, {"TotpSecretIssued"})
    OBVIOUS
  <1>3. PICK d : d = AutoStep("SecretIssued", "ConfirmationPending", "MfaPresentSecret",
           {"TotpSecretIssued"}, {}, {"SecretPresented"})
    OBVIOUS
  <1>4. PICK g : g = External("ConfirmationPending", "Enabled", "MfaConfirmCodeGuard",
           "ConfirmResult", TRUE, {})
    OBVIOUS
  <1>5. PICK h : h = AutoStep("Enabled", "RecoveryCodesIssued", "MfaIssueRecoveryCodes",
           {"ConfirmResult"}, {}, {"RecoveryCodesResult"})
    OBVIOUS
  <1>6. /\ MfaSetupFlow.steps = {a, b, d, g, h} /\ MfaSetupFlow.error = "Cancelled"
    BY <1>1, <1>2, <1>3, <1>4, <1>5 DEF MfaSetupFlow, Definition
  <1>7. Edge(a) = <<"NotConfigured", "MfaStartSetupGuard", "SetupStarted">>
    BY <1>1 DEF Edge, External
  <1>8. Edge(b) = <<"SetupStarted", "MfaIssueSecret", "SecretIssued">>
    BY <1>2 DEF Edge, AutoStep
  <1>9. Edge(d) = <<"SecretIssued", "MfaPresentSecret", "ConfirmationPending">>
    BY <1>3 DEF Edge, AutoStep
  <1>10. Edge(g) = <<"ConfirmationPending", "MfaConfirmCodeGuard", "Enabled">>
    BY <1>4 DEF Edge, External
  <1>11. Edge(h) = <<"Enabled", "MfaIssueRecoveryCodes", "RecoveryCodesIssued">>
    BY <1>5 DEF Edge, AutoStep
  <1> QED
    BY <1>6, <1>7, <1>8, <1>9, <1>10, <1>11 DEF MfaSetupView

(* viz.rs draws LoginChallengeFlow. *)
LEMMA LoginChallengeDrawn ==
  /\ \A s \in LoginChallengeFlow.steps : Edge(s) \in LoginChallengeView
  /\ \A e \in LoginChallengeView :
       e[3] = LoginChallengeFlow.error \/ \E s \in LoginChallengeFlow.steps : e = Edge(s)
  <1>1. PICK a : a = Branch("PasswordAccepted", "MfaRequired", "branch(mfa)",
           {"LoginChallengeInit"}, "LoginChallengeInit", {"good"})
    OBVIOUS
  <1>2. PICK b : b = Branch("PasswordAccepted", "LoginGranted", "branch(grant)",
           {"LoginChallengeInit"}, "LoginChallengeInit", {"bad", "absent"})
    OBVIOUS
  <1>3. PICK d : d = AutoStep("MfaRequired", "ChallengeSent", "LcSendChallenge",
           {"LoginChallengeInit"}, {}, {"ChallengeSentData"})
    OBVIOUS
  <1>4. PICK g : g = External("ChallengeSent", "ChallengeVerified",
           "LcVerifyChallengeGuard", "ChallengeProof", TRUE, {})
    OBVIOUS
  <1>5. PICK h : h = AutoStep("ChallengeVerified", "LoginGranted", "LcGrant",
           {"ChallengeProof"}, {}, {})
    OBVIOUS
  <1>6. /\ LoginChallengeFlow.steps = {a, b, d, g, h} /\ LoginChallengeFlow.error = "LoginDenied"
    BY <1>1, <1>2, <1>3, <1>4, <1>5 DEF LoginChallengeFlow, Definition
  <1>7. Edge(a) = <<"PasswordAccepted", "branch(mfa)", "MfaRequired">>
    BY <1>1 DEF Edge, Branch
  <1>8. Edge(b) = <<"PasswordAccepted", "branch(grant)", "LoginGranted">>
    BY <1>2 DEF Edge, Branch
  <1>9. Edge(d) = <<"MfaRequired", "LcSendChallenge", "ChallengeSent">>
    BY <1>3 DEF Edge, AutoStep
  <1>10. Edge(g) = <<"ChallengeSent", "LcVerifyChallengeGuard", "ChallengeVerified">>
    BY <1>4 DEF Edge, External
  <1>11. Edge(h) = <<"ChallengeVerified", "LcGrant", "LoginGranted">>
    BY <1>5 DEF Edge, AutoStep
  <1> QED
    BY <1>6, <1>7, <1>8, <1>9, <1>10, <1>11 DEF LoginChallengeView

(* The two states of a step are states of the flow. *)
LEMMA StatesOfStep ==
  ASSUME NEW f, NEW s \in Flow[f].steps
  PROVE  s.from \in StatesOf(f) /\ s.to \in StatesOf(f)
  <1>1. {s.from, s.to} \in {{t.from, t.to} : t \in Flow[f].steps}
    OBVIOUS
  <1> QED
    BY <1>1 DEF StatesOf

(* Where EmailVerificationFlow stops. *)
LEMMA EmailVerificationEnds ==
  ASSUME NEW x \in DOMAIN EmailVerificationCert, \A s \in EmailVerificationFlow.steps : s.from # x
  PROVE  x \in {"Verified", EmailVerificationFlow.error}
  <1>1. PICK a : a = AutoStep("TokenIssued", "SendRequested", "EvRequestSend",
           {"EmailVerificationInit"}, {}, {"SendRequest"})
    OBVIOUS
  <1>2. PICK b : b = External("SendRequested", "Sent", "EvMarkSentGuard", "SendOutcome",
           TRUE, {})
    OBVIOUS
  <1>3. PICK d : d = External("Sent", "Verified", "EvVerifyTokenGuard", "VerificationProof",
           TRUE, {})
    OBVIOUS
  <1>4. {a, b, d} \subseteq EmailVerificationFlow.steps /\ EmailVerificationFlow.error = "Cancelled"
    BY <1>1, <1>2, <1>3 DEF EmailVerificationFlow, Definition
  <1>5. a.from = "TokenIssued" /\ b.from = "SendRequested" /\ d.from = "Sent"
    BY <1>1, <1>2, <1>3 DEF AutoStep, External
  <1> QED
    BY <1>4, <1>5 DEF EmailVerificationCert

(* Where MfaFlow stops. *)
LEMMA MfaEnds ==
  ASSUME NEW x \in DOMAIN MfaCert, \A s \in MfaFlow.steps : s.from # x
  PROVE  x \in {"Verified", MfaFlow.error}
  <1>1. PICK a : a = External("ChallengeShown", "Verified", "MfaCodeGuard", "MfaCode", TRUE,
           {})
    OBVIOUS
  <1>2. {a} \subseteq MfaFlow.steps /\ MfaFlow.error = "TerminalError"
    BY <1>1 DEF MfaFlow, Definition
  <1>3. a.from = "ChallengeShown"
    BY <1>1 DEF External
  <1> QED
    BY <1>2, <1>3 DEF MfaCert

(* Where PasswordResetFlow stops. *)
LEMMA PasswordResetEnds ==
  ASSUME NEW x \in DOMAIN PasswordResetCert, \A s \in PasswordResetFlow.steps : s.from # x
  PROVE  x \in {"Completed", PasswordResetFlow.error}
  <1>1. PICK a : a = AutoStep("Requested", "TokenIssued", "PrIssueResetToken",
           {"PasswordResetInit"}, {}, {"ResetTokenIssued"})
    OBVIOUS
  <1>2. PICK b : b = AutoStep("TokenIssued", "SendRequested", "PrRequestSend",
           {"ResetTokenIssued", "PasswordResetInit"}, {}, {"ResetSendRequest"})
    OBVIOUS
  <1>3. PICK d : d = External("SendRequested", "Sent", "PrMarkSentGuard",
           "ResetSendOutcome", FALSE, {})
    OBVIOUS
  <1>4. PICK g : g = External("Sent", "TokenVerified", "PrVerifyResetTokenGuard",
           "ResetTokenProof", TRUE, {})
    OBVIOUS
  <1>5. PICK h : h = External("TokenVerified", "PasswordChanged", "PrChangePasswordGuard",
           "PasswordChangedData", TRUE, {})
    OBVIOUS
  <1>6. PICK i : i = AutoStep("PasswordChanged", "Completed", "PrComplete",
           {"PasswordChangedData"}, {}, {})
    OBVIOUS
  <1>7. {a, b, d, g, h, i} \subseteq PasswordResetFlow.steps /\ PasswordResetFlow.error = "Cancelled"
    BY <1>1, <1>2, <1>3, <1>4, <1>5, <1>6 DEF PasswordResetFlow, Definition
  <1>8. /\ a.from = "Requested" /\ b.from = "TokenIssued"
        /\ d.from = "SendRequested" /\ g.from = "Sent"
        /\ h.from = "TokenVerified" /\ i.from = "PasswordChanged"
    BY <1>1, <1>2, <1>3, <1>4, <1>5, <1>6 DEF AutoStep, External
  <1> QED
    BY <1>7, <1>8 DEF PasswordResetCert

(* Where MfaSetupFlow stops. *)
LEMMA MfaSetupEnds ==
  ASSUME NEW x \in DOMAIN MfaSetupCert, \A s \in MfaSetupFlow.steps : s.from # x
  PROVE  x \in {"RecoveryCodesIssued", MfaSetupFlow.error}
  <1>1. PICK a : a = External("NotConfigured", "SetupStarted", "MfaStartSetupGuard",
           "SetupStart", FALSE, {})
    OBVIOUS
  <1>2. PICK b : b = AutoStep("SetupStarted", "SecretIssued", "MfaIssueSecret",
           {"MfaSetupInit"}, {}, {"TotpSecretIssued"})
    OBVIOUS
  <1>3. PICK d : d = AutoStep("SecretIssued", "ConfirmationPending", "MfaPresentSecret",
           {"TotpSecretIssued"}, {}, {"SecretPresented"})
    OBVIOUS
  <1>4. PICK g : g = External("ConfirmationPending", "Enabled", "MfaConfirmCodeGuard",
           "ConfirmResult", TRUE, {})
    OBVIOUS
  <1>5. PICK h : h = AutoStep("Enabled", "RecoveryCodesIssued", "MfaIssueRecoveryCodes",
           {"ConfirmResult"}, {}, {"RecoveryCodesResult"})
    OBVIOUS
  <1>6. {a, b, d, g, h} \subseteq MfaSetupFlow.steps /\ MfaSetupFlow.error = "Cancelled"
    BY <1>1, <1>2, <1>3, <1>4, <1>5 DEF MfaSetupFlow, Definition
  <1>7. /\ a.from = "NotConfigured" /\ b.from = "SetupStarted"
        /\ d.from = "SecretIssued" /\ g.from = "ConfirmationPending"
        /\ h.from = "Enabled"
    BY <1>1, <1>2, <1>3, <1>4, <1>5 DEF AutoStep, External
  <1> QED
    BY <1>6, <1>7 DEF MfaSetupCert

(* Where DeviceGrantFlow stops. *)
LEMMA DeviceGrantEnds ==
  ASSUME NEW x \in DOMAIN DeviceGrantCert, \A s \in DeviceGrantFlow.steps : s.from # x
  PROVE  x \in {"Completed", DeviceGrantFlow.error}
  <1>1. PICK a : a = External("Pending", "Approved", "DeviceDecisionGuard",
           "DeviceDecisionProof", TRUE, {})
    OBVIOUS
  <1>2. PICK b : b = AutoStep("Approved", "Completed", "DeviceIssueToken",
           {"DeviceDecisionProof"}, {}, {})
    OBVIOUS
  <1>3. {a, b} \subseteq DeviceGrantFlow.steps /\ DeviceGrantFlow.error = "Rejected"
    BY <1>1, <1>2 DEF DeviceGrantFlow, Definition
  <1>4. a.from = "Pending" /\ b.from = "Approved"
    BY <1>1, <1>2 DEF AutoStep, External
  <1> QED
    BY <1>3, <1>4 DEF DeviceGrantCert

(* Where LoginChallengeFlow stops. *)
LEMMA LoginChallengeEnds ==
  ASSUME NEW x \in DOMAIN LoginChallengeCert, \A s \in LoginChallengeFlow.steps : s.from # x
  PROVE  x \in {"LoginGranted", LoginChallengeFlow.error}
  <1>1. PICK a : a = Branch("PasswordAccepted", "MfaRequired", "branch(mfa)",
           {"LoginChallengeInit"}, "LoginChallengeInit", {"good"})
    OBVIOUS
  <1>2. PICK b : b = AutoStep("MfaRequired", "ChallengeSent", "LcSendChallenge",
           {"LoginChallengeInit"}, {}, {"ChallengeSentData"})
    OBVIOUS
  <1>3. PICK d : d = External("ChallengeSent", "ChallengeVerified",
           "LcVerifyChallengeGuard", "ChallengeProof", TRUE, {})
    OBVIOUS
  <1>4. PICK g : g = AutoStep("ChallengeVerified", "LoginGranted", "LcGrant",
           {"ChallengeProof"}, {}, {})
    OBVIOUS
  <1>5. {a, b, d, g} \subseteq LoginChallengeFlow.steps /\ LoginChallengeFlow.error = "LoginDenied"
    BY <1>1, <1>2, <1>3, <1>4 DEF LoginChallengeFlow, Definition
  <1>6. /\ a.from = "PasswordAccepted" /\ b.from = "MfaRequired"
        /\ d.from = "ChallengeSent" /\ g.from = "ChallengeVerified"
    BY <1>1, <1>2, <1>3, <1>4 DEF AutoStep, Branch, External
  <1> QED
    BY <1>5, <1>6 DEF LoginChallengeCert

(* Where InviteFlow stops. *)
LEMMA InviteEnds ==
  ASSUME NEW x \in DOMAIN InviteCert, \A s \in InviteFlow.steps : s.from # x
  PROVE  x \in {"Complete", InviteFlow.error}
  <1>1. PICK a : a = Branch("ConsentShown", "Accepted", "match", {"InviteData"},
           "InviteData", {"good"})
    OBVIOUS
  <1>2. PICK b : b = External("AccountSwitching", "Accepted", "InviteAcceptGuard",
           "InviteAcceptance", TRUE, {})
    OBVIOUS
  <1>3. PICK d : d = AutoStep("Accepted", "Complete", "InviteComplete", {"InviteData"}, {},
           {"InviteResult"})
    OBVIOUS
  <1>4. {a, b, d} \subseteq InviteFlow.steps /\ InviteFlow.error = "TerminalError"
    BY <1>1, <1>2, <1>3 DEF InviteFlow, Definition
  <1>5. a.from = "ConsentShown" /\ b.from = "AccountSwitching" /\ d.from = "Accepted"
    BY <1>1, <1>2, <1>3 DEF AutoStep, Branch, External
  <1> QED
    BY <1>4, <1>5 DEF InviteCert

(* A definition has finitely many states. *)
LEMMA StatesFinite ==
  ASSUME NEW f \in DOMAIN Flow
  PROVE  IsFiniteSet(StatesOf(f)) /\ Cardinality(StatesOf(f)) \in Nat
  <1>1. IsFiniteSet(DOMAIN Cert[f])
    <2>1. CASE f = "proxy"
      <3>1. PICK S : S = {"Received", "Validated", "Routed", "AuthChecked", "Forwarded",
                        "Completed", "Denied", "BadGateway"}
        OBVIOUS
      <3>2. IsFiniteSet(S)
        BY <3>1, ListedFinite
      <3>5. DOMAIN Cert[f] \in SUBSET (S)
        BY <2>1, <3>1, <3>2 DEF Cert, ProxyCert
      <3> QED
        BY <3>1, <3>2, <3>5, FS_Subset
    <2>2. CASE f = "oidc"
      <3>1. PICK S : S = {"Init", "Redirected", "CallbackReceived", "TokenExchanged",
                        "UserResolved", "RiskChecked", "Complete", "CompleteMfaPending"}
        OBVIOUS
      <3>2. PICK T : T = {"Blocked", "TerminalError", "none"}
        OBVIOUS
      <3>3. IsFiniteSet(S) /\ IsFiniteSet(T)
        BY <3>1, <3>2, ListedFinite
      <3>4. IsFiniteSet(S \cup T)
        BY <3>3, FS_Union
      <3>5. DOMAIN Cert[f] \in SUBSET (S \cup T)
        BY <2>2, <3>1, <3>2, <3>4 DEF Cert, OidcCert
      <3> QED
        BY <3>1, <3>2, <3>4, <3>5, FS_Subset
    <2>3. CASE f = "passkey"
      <3>1. PICK S : S = {"Init", "ChallengeIssued", "AssertionReceived", "UserResolved",
                        "Complete", "TerminalError"}
        OBVIOUS
      <3>2. IsFiniteSet(S)
        BY <3>1, ListedFinite
      <3>5. DOMAIN Cert[f] \in SUBSET (S)
        BY <2>3, <3>1, <3>2 DEF Cert, PasskeyCert
      <3> QED
        BY <3>1, <3>2, <3>5, FS_Subset
    <2>4. CASE f = "mfa"
      <3>1. PICK S : S = {"ChallengeShown", "Verified", "TerminalError"}
        OBVIOUS
      <3>2. IsFiniteSet(S)
        BY <3>1, ListedFinite
      <3>5. DOMAIN Cert[f] \in SUBSET (S)
        BY <2>4, <3>1, <3>2 DEF Cert, MfaCert
      <3> QED
        BY <3>1, <3>2, <3>5, FS_Subset
    <2>5. CASE f = "invite"
      <3>1. PICK S : S = {"ConsentShown", "AccountSwitching", "Accepted", "Complete",
                        "TerminalError", "none"}
        OBVIOUS
      <3>2. IsFiniteSet(S)
        BY <3>1, ListedFinite
      <3>5. DOMAIN Cert[f] \in SUBSET (S)
        BY <2>5, <3>1, <3>2 DEF Cert, InviteCert
      <3> QED
        BY <3>1, <3>2, <3>5, FS_Subset
    <2>6. CASE f = "registration"
      <3>1. PICK S : S = {"Start", "EmailVerificationPending", "EmailVerified",
                        "MfaSetupOptional", "Completed", "Cancelled"}
        OBVIOUS
      <3>2. IsFiniteSet(S)
        BY <3>1, ListedFinite
      <3>5. DOMAIN Cert[f] \in SUBSET (S)
        BY <2>6, <3>1, <3>2 DEF Cert, RegistrationCert
      <3> QED
        BY <3>1, <3>2, <3>5, FS_Subset
    <2>7. CASE f = "email_verification"
      <3>1. PICK S : S = {"TokenIssued", "SendRequested", "Sent", "Verified", "Cancelled",
                        "none"}
        OBVIOUS
      <3>2. IsFiniteSet(S)
        BY <3>1, ListedFinite
      <3>5. DOMAIN Cert[f] \in SUBSET (S)
        BY <2>7, <3>1, <3>2 DEF Cert, EmailVerificationCert
      <3> QED
        BY <3>1, <3>2, <3>5, FS_Subset
    <2>8. CASE f = "password_reset"
      <3>1. PICK S : S = {"Requested", "TokenIssued", "SendRequested", "Sent",
                        "TokenVerified", "PasswordChanged", "Completed", "Cancelled"}
        OBVIOUS
      <3>2. IsFiniteSet(S)
        BY <3>1, ListedFinite
      <3>5. DOMAIN Cert[f] \in SUBSET (S)
        BY <2>8, <3>1, <3>2 DEF Cert, PasswordResetCert
      <3> QED
        BY <3>1, <3>2, <3>5, FS_Subset
    <2>9. CASE f = "mfa_setup"
      <3>1. PICK S : S = {"NotConfigured", "SetupStarted", "SecretIssued",
                        "ConfirmationPending", "Enabled", "RecoveryCodesIssued",
                        "Cancelled"}
        OBVIOUS
      <3>2. IsFiniteSet(S)
        BY <3>1, ListedFinite
      <3>5. DOMAIN Cert[f] \in SUBSET (S)
        BY <2>9, <3>1, <3>2 DEF Cert, MfaSetupCert
      <3> QED
        BY <3>1, <3>2, <3>5, FS_Subset
    <2>10. CASE f = "login_challenge"
      <3>1. PICK S : S = {"PasswordAccepted", "MfaRequired", "ChallengeSent",
                        "ChallengeVerified", "LoginGranted", "LoginDenied"}
        OBVIOUS
      <3>2. IsFiniteSet(S)
        BY <3>1, ListedFinite
      <3>5. DOMAIN Cert[f] \in SUBSET (S)
        BY <2>10, <3>1, <3>2 DEF Cert, LoginChallengeCert
      <3> QED
        BY <3>1, <3>2, <3>5, FS_Subset
    <2>11. CASE f = "device_grant"
      <3>1. PICK S : S = {"Pending", "Approved", "Completed", "Rejected"}
        OBVIOUS
      <3>2. IsFiniteSet(S)
        BY <3>1, ListedFinite
      <3>5. DOMAIN Cert[f] \in SUBSET (S)
        BY <2>11, <3>1, <3>2 DEF Cert, DeviceGrantCert
      <3> QED
        BY <3>1, <3>2, <3>5, FS_Subset
    <2>12. CASE f = "token_refresh"
      <3>1. PICK S : S = {"Received", "Validated", "Refreshed", "Issued", "Completed",
                        "Denied"}
        OBVIOUS
      <3>2. IsFiniteSet(S)
        BY <3>1, ListedFinite
      <3>5. DOMAIN Cert[f] \in SUBSET (S)
        BY <2>12, <3>1, <3>2 DEF Cert, TokenCert
      <3> QED
        BY <3>1, <3>2, <3>5, FS_Subset
    <2> QED
      BY <2>1, <2>2, <2>3, <2>4, <2>5, <2>6, <2>7, <2>8, <2>9, <2>10, <2>11, <2>12 DEF Flow
  <1>2. StatesOf(f) \in SUBSET DOMAIN Cert[f]
    <2>1. Fits(Flow[f], Cert[f])
      BY AllFit
    <2>2. ASSUME NEW s \in Flow[f].steps PROVE s.from \in DOMAIN Cert[f] /\ s.to \in DOMAIN Cert[f]
      BY <2>1 DEF Fits, StepFits
    <2>3. Flow[f].error \in DOMAIN Cert[f]
      BY <2>1 DEF Fits
    <2>4. ASSUME NEW x \in StatesOf(f) PROVE x \in DOMAIN Cert[f]
      <3>1. x = Flow[f].error \/ \E s \in Flow[f].steps : x \in {s.from, s.to}
        <4>1. PICK U : U = {{s.from, s.to} : s \in Flow[f].steps}
          OBVIOUS
        <4>2. x \in UNION U \/ x = Flow[f].error
          BY <2>4, <4>1 DEF StatesOf
        <4>3. ASSUME NEW T \in U, x \in T PROVE \E s \in Flow[f].steps : x \in {s.from, s.to}
          BY <4>1, <4>3, Zenon
        <4> QED
          BY <4>2, <4>3
      <3> QED
        BY <2>2, <2>3, <3>1
    <2> QED
      BY <2>4
  <1> QED
    BY <1>1, <1>2, FS_Subset, FS_CardinalityType

(* Two members are two, and four are four. *)
LEMMA AtLeast ==
  ASSUME NEW S, IsFiniteSet(S), NEW a \in S, NEW b \in S, a # b
  PROVE  /\ Cardinality(S) \in Nat /\ 2 <= Cardinality(S)
         /\ \A d, e \in S : d # e /\ d \notin {a, b} /\ e \notin {a, b} => 4 <= Cardinality(S)
  <1>1. IsFiniteSet({a}) /\ Cardinality({a}) = 1 /\ b \notin {a}
    BY FS_Singleton
  <1>2. IsFiniteSet({a} \cup {b}) /\ Cardinality({a} \cup {b}) = 2
    BY <1>1, FS_AddElement
  <1>3. Cardinality(S) \in Nat
    BY FS_CardinalityType
  <1>4. Cardinality({a} \cup {b}) <= Cardinality(S)
    BY FS_Subset
  <1>5. ASSUME NEW d \in S, NEW e \in S, d # e, d \notin {a, b}, e \notin {a, b}
        PROVE  4 <= Cardinality(S)
    <2>1. PICK P : P = {a} \cup {b}
      OBVIOUS
    <2>2. IsFiniteSet(P) /\ Cardinality(P) = 2 /\ d \notin P
      BY <1>2, <1>5, <2>1
    <2>3. PICK Q : Q = P \cup {d}
      OBVIOUS
    <2>4. IsFiniteSet(Q) /\ Cardinality(Q) = 3
      BY <2>2, <2>3, FS_AddElement
    <2>a. e \notin Q
      BY <1>5, <2>1, <2>3
    <2>5. PICK R : R = Q \cup {e}
      OBVIOUS
    <2>b. Cardinality(R) = 4
      <3>1. Cardinality(Q \cup {e}) = Cardinality(Q) + 1
        BY <2>4, <2>a, FS_AddElement
      <3> QED
        BY <2>4, <2>5, <3>1
    <2>c. R \in SUBSET S
      BY <2>1, <2>3, <2>5
    <2>6. Cardinality(R) = 4 /\ R \in SUBSET S
      BY <2>b, <2>c
    <2>7. Cardinality(R) <= Cardinality(S)
      BY <2>6, FS_Subset
    <2> QED
      BY <2>6, <2>7
  <1> QED
    BY <1>2, <1>3, <1>4, <1>5

(* A call of the engine takes no more steps than there are states. *)
LEMMA RoomForSteps ==
  ASSUME NEW f \in DOMAIN Flow, NEW x \in DOMAIN Cert[f]
  PROVE  Cert[f][x].steps \in Nat /\ Cert[f][x].steps <= Cardinality(StatesOf(f))
  <1>1. IsFiniteSet(StatesOf(f)) /\ Cardinality(StatesOf(f)) \in Nat
    BY StatesFinite
  <1>2. Cert[f][x].steps \in Nat
    BY AllFit DEF Fits
  <1>3. CASE f = "proxy"
    <2>1. PICK s : s = AutoStep("Received", "Validated", "RequestValidator",
                       {"RequestData"}, {"RequestData"}, {})
      OBVIOUS
    <2>2. s \in Flow[f].steps /\ s.from # s.to
      BY <1>3, <2>1 DEF Flow, ProxyFlow, Definition, AutoStep
    <2>3. 2 <= Cardinality(StatesOf(f))
      BY <1>1, <2>2, StatesOfStep, AtLeast
    <2>4. \A y \in DOMAIN ProxyCert : ProxyCert[y].steps <= 2
      BY DEF ProxyCert, Now
    <2>5. Cert[f] = ProxyCert
      BY <1>3 DEF Cert
    <2> QED
      BY <1>1, <1>2, <2>3, <2>4, <2>5
  <1>4. CASE f = "oidc"
    <2>1. PICK s : s = AutoStep("CallbackReceived", "TokenExchanged", "TokenExchange",
                       {"OidcCallbackData"}, {"OidcCallbackData", "OidcTokenData"},
                       {"OidcTokenData"})
      OBVIOUS
    <2>2. PICK t : t = AutoStep("UserResolved", "RiskChecked", "RiskCheck",
                       {"OidcUserData"}, {}, {"RiskCheckResult"})
      OBVIOUS
    <2>3. /\ s.from = "CallbackReceived" /\ s.to = "TokenExchanged"
          /\ t.from = "UserResolved" /\ t.to = "RiskChecked"
      BY <2>1, <2>2 DEF AutoStep
    <2>4. s \in Flow[f].steps /\ t \in Flow[f].steps
      BY <1>4, <2>1, <2>2 DEF Flow, OidcFlow, Definition
    <2>5. {s.from, s.to, t.from, t.to} \subseteq StatesOf(f)
      BY <2>4, StatesOfStep
    <2>6. 4 <= Cardinality(StatesOf(f))
      BY <1>1, <2>3, <2>5, AtLeast
    <2>7. \A y \in DOMAIN OidcCert : OidcCert[y].steps <= 4
      BY DEF OidcCert, Now
    <2>8. Cert[f] = OidcCert
      BY <1>4 DEF Cert
    <2> QED
      BY <1>1, <1>2, <2>6, <2>7, <2>8
  <1>5. CASE f = "passkey"
    <2>1. PICK s : s = AutoStep("Init", "ChallengeIssued", "PasskeyChallenge",
                       {"PasskeyInitData"}, {}, {"PasskeyChallenge"})
      OBVIOUS
    <2>2. s \in Flow[f].steps /\ s.from # s.to
      BY <1>5, <2>1 DEF Flow, PasskeyFlow, Definition, AutoStep
    <2>3. 2 <= Cardinality(StatesOf(f))
      BY <1>1, <2>2, StatesOfStep, AtLeast
    <2>4. \A y \in DOMAIN PasskeyCert : PasskeyCert[y].steps <= 2
      BY DEF PasskeyCert, Now
    <2>5. Cert[f] = PasskeyCert
      BY <1>5 DEF Cert
    <2> QED
      BY <1>1, <1>2, <2>3, <2>4, <2>5
  <1>6. CASE f = "mfa"
    <2>1. PICK s : s = External("ChallengeShown", "Verified", "MfaCodeGuard", "MfaCode",
                       TRUE, {})
      OBVIOUS
    <2>2. s \in Flow[f].steps /\ s.from # s.to
      BY <1>6, <2>1 DEF Flow, MfaFlow, Definition, External
    <2>3. 2 <= Cardinality(StatesOf(f))
      BY <1>1, <2>2, StatesOfStep, AtLeast
    <2>4. \A y \in DOMAIN MfaCert : MfaCert[y].steps <= 2
      BY DEF MfaCert, Now
    <2>5. Cert[f] = MfaCert
      BY <1>6 DEF Cert
    <2> QED
      BY <1>1, <1>2, <2>3, <2>4, <2>5
  <1>7. CASE f = "invite"
    <2>1. PICK s : s = Branch("ConsentShown", "Accepted", "match", {"InviteData"},
                       "InviteData", {"good"})
      OBVIOUS
    <2>2. s \in Flow[f].steps /\ s.from # s.to
      BY <1>7, <2>1 DEF Flow, InviteFlow, Definition, Branch
    <2>3. 2 <= Cardinality(StatesOf(f))
      BY <1>1, <2>2, StatesOfStep, AtLeast
    <2>4. \A y \in DOMAIN InviteCert : InviteCert[y].steps <= 2
      BY DEF InviteCert, Now
    <2>5. Cert[f] = InviteCert
      BY <1>7 DEF Cert
    <2> QED
      BY <1>1, <1>2, <2>3, <2>4, <2>5
  <1>8. CASE f = "registration"
    <2>1. PICK s : s = AutoStep("Start", "EmailVerificationPending", "RegIssueVerification",
                       {"RegistrationInit"}, {}, {"VerificationIssued"})
      OBVIOUS
    <2>2. s \in Flow[f].steps /\ s.from # s.to
      BY <1>8, <2>1 DEF Flow, RegistrationFlow, Definition, AutoStep
    <2>3. 2 <= Cardinality(StatesOf(f))
      BY <1>1, <2>2, StatesOfStep, AtLeast
    <2>4. \A y \in DOMAIN RegistrationCert : RegistrationCert[y].steps <= 2
      BY DEF RegistrationCert, Now
    <2>5. Cert[f] = RegistrationCert
      BY <1>8 DEF Cert
    <2> QED
      BY <1>1, <1>2, <2>3, <2>4, <2>5
  <1>9. CASE f = "email_verification"
    <2>1. PICK s : s = AutoStep("TokenIssued", "SendRequested", "EvRequestSend",
                       {"EmailVerificationInit"}, {}, {"SendRequest"})
      OBVIOUS
    <2>2. s \in Flow[f].steps /\ s.from # s.to
      BY <1>9, <2>1 DEF Flow, EmailVerificationFlow, Definition, AutoStep
    <2>3. 2 <= Cardinality(StatesOf(f))
      BY <1>1, <2>2, StatesOfStep, AtLeast
    <2>4. \A y \in DOMAIN EmailVerificationCert : EmailVerificationCert[y].steps <= 2
      BY DEF EmailVerificationCert, Now
    <2>5. Cert[f] = EmailVerificationCert
      BY <1>9 DEF Cert
    <2> QED
      BY <1>1, <1>2, <2>3, <2>4, <2>5
  <1>10. CASE f = "password_reset"
    <2>1. PICK s : s = AutoStep("Requested", "TokenIssued", "PrIssueResetToken",
                       {"PasswordResetInit"}, {}, {"ResetTokenIssued"})
      OBVIOUS
    <2>2. s \in Flow[f].steps /\ s.from # s.to
      BY <1>10, <2>1 DEF Flow, PasswordResetFlow, Definition, AutoStep
    <2>3. 2 <= Cardinality(StatesOf(f))
      BY <1>1, <2>2, StatesOfStep, AtLeast
    <2>4. \A y \in DOMAIN PasswordResetCert : PasswordResetCert[y].steps <= 2
      BY DEF PasswordResetCert, Now
    <2>5. Cert[f] = PasswordResetCert
      BY <1>10 DEF Cert
    <2> QED
      BY <1>1, <1>2, <2>3, <2>4, <2>5
  <1>11. CASE f = "mfa_setup"
    <2>1. PICK s : s = External("NotConfigured", "SetupStarted", "MfaStartSetupGuard",
                       "SetupStart", FALSE, {})
      OBVIOUS
    <2>2. s \in Flow[f].steps /\ s.from # s.to
      BY <1>11, <2>1 DEF Flow, MfaSetupFlow, Definition, External
    <2>3. 2 <= Cardinality(StatesOf(f))
      BY <1>1, <2>2, StatesOfStep, AtLeast
    <2>4. \A y \in DOMAIN MfaSetupCert : MfaSetupCert[y].steps <= 2
      BY DEF MfaSetupCert, Now
    <2>5. Cert[f] = MfaSetupCert
      BY <1>11 DEF Cert
    <2> QED
      BY <1>1, <1>2, <2>3, <2>4, <2>5
  <1>12. CASE f = "login_challenge"
    <2>1. PICK s : s = Branch("PasswordAccepted", "MfaRequired", "branch(mfa)",
                       {"LoginChallengeInit"}, "LoginChallengeInit", {"good"})
      OBVIOUS
    <2>2. s \in Flow[f].steps /\ s.from # s.to
      BY <1>12, <2>1 DEF Flow, LoginChallengeFlow, Definition, Branch
    <2>3. 2 <= Cardinality(StatesOf(f))
      BY <1>1, <2>2, StatesOfStep, AtLeast
    <2>4. \A y \in DOMAIN LoginChallengeCert : LoginChallengeCert[y].steps <= 2
      BY DEF LoginChallengeCert, Now
    <2>5. Cert[f] = LoginChallengeCert
      BY <1>12 DEF Cert
    <2> QED
      BY <1>1, <1>2, <2>3, <2>4, <2>5
  <1>13. CASE f = "device_grant"
    <2>1. PICK s : s = External("Pending", "Approved", "DeviceDecisionGuard",
                       "DeviceDecisionProof", TRUE, {})
      OBVIOUS
    <2>2. s \in Flow[f].steps /\ s.from # s.to
      BY <1>13, <2>1 DEF Flow, DeviceGrantFlow, Definition, External
    <2>3. 2 <= Cardinality(StatesOf(f))
      BY <1>1, <2>2, StatesOfStep, AtLeast
    <2>4. \A y \in DOMAIN DeviceGrantCert : DeviceGrantCert[y].steps <= 2
      BY DEF DeviceGrantCert, Now
    <2>5. Cert[f] = DeviceGrantCert
      BY <1>13 DEF Cert
    <2> QED
      BY <1>1, <1>2, <2>3, <2>4, <2>5
  <1>14. CASE f = "token_refresh"
    <2>1. PICK s : s = AutoStep("Received", "Validated", "TokenValidator", {"TokenRequest"},
                       {"TokenRequest"}, {"TokenValidation"})
      OBVIOUS
    <2>2. s \in Flow[f].steps /\ s.from # s.to
      BY <1>14, <2>1 DEF Flow, TokenFlow, Definition, AutoStep
    <2>3. 2 <= Cardinality(StatesOf(f))
      BY <1>1, <2>2, StatesOfStep, AtLeast
    <2>4. \A y \in DOMAIN TokenCert : TokenCert[y].steps <= 2
      BY DEF TokenCert, Now
    <2>5. Cert[f] = TokenCert
      BY <1>14 DEF Cert
    <2> QED
      BY <1>1, <1>2, <2>3, <2>4, <2>5
  <1> QED
    BY <1>3, <1>4, <1>5, <1>6, <1>7, <1>8, <1>9, <1>10, <1>11, <1>12, <1>13, <1>14 DEF Flow

(* A flow that ends well has its proofs. *)
LEMMA ProofsThere == FlowInv => ProofBeforeSuccess
  <1> SUFFICES ASSUME FlowInv, flow \in DOMAIN Proof, StepsFrom(at) = {}, at \notin ErrorStates,
                      NEW k \in Proof[flow]
               PROVE  Value(k) = "good"
    BY DEF ProofBeforeSuccess
  <1>1. PICK d, c : d = Flow[flow] /\ c = Cert[flow]
    OBVIOUS
  <1>2. /\ at \in DOMAIN c /\ at # d.error /\ \A s \in d.steps : s.from # at
        /\ \A j \in c[at].sure : j \in DOMAIN data /\ data[j] = "good"
        /\ Chosen
    BY <1>1 DEF FlowInv, DataOK, StepsFrom, ErrorStates
  <1>3. \A j \in c[at].sure : Value(j) = "good"
    BY <1>2 DEF Value
  <1>4. CASE flow = "email_verification"
    <2>1. d = EmailVerificationFlow /\ c = EmailVerificationCert /\ k = "VerificationProof"
      BY <1>1, <1>4 DEF Flow, Cert, Proof
    <2>2. at = "Verified"
      BY <1>2, <2>1, EmailVerificationEnds
    <2> QED
      BY <1>3, <2>1, <2>2 DEF EmailVerificationCert, Now
  <1>5. CASE flow = "mfa"
    <2>1. d = MfaFlow /\ c = MfaCert /\ k = "MfaCode"
      BY <1>1, <1>5 DEF Flow, Cert, Proof
    <2>2. at = "Verified"
      BY <1>2, <2>1, MfaEnds
    <2> QED
      BY <1>3, <2>1, <2>2 DEF MfaCert, Now
  <1>6. CASE flow = "password_reset"
    <2>1. d = PasswordResetFlow /\ c = PasswordResetCert
          /\ k \in {"ResetTokenProof", "PasswordChangedData"}
      BY <1>1, <1>6 DEF Flow, Cert, Proof
    <2>2. at = "Completed"
      BY <1>2, <2>1, PasswordResetEnds
    <2> QED
      BY <1>3, <2>1, <2>2 DEF PasswordResetCert, Now
  <1>7. CASE flow = "mfa_setup"
    <2>1. d = MfaSetupFlow /\ c = MfaSetupCert /\ k = "ConfirmResult"
      BY <1>1, <1>7 DEF Flow, Cert, Proof
    <2>2. at = "RecoveryCodesIssued"
      BY <1>2, <2>1, MfaSetupEnds
    <2> QED
      BY <1>3, <2>1, <2>2 DEF MfaSetupCert, Now
  <1>8. CASE flow = "device_grant"
    <2>1. d = DeviceGrantFlow /\ c = DeviceGrantCert /\ k = "DeviceDecisionProof"
      BY <1>1, <1>8 DEF Flow, Cert, Proof
    <2>2. at = "Completed"
      BY <1>2, <2>1, DeviceGrantEnds
    <2> QED
      BY <1>3, <2>1, <2>2 DEF DeviceGrantCert, Now
  <1>9. CASE flow = "login_challenge"
    <2>1. /\ d = LoginChallengeFlow /\ c = LoginChallengeCert
          /\ k = "ChallengeProof" /\ Value("LoginChallengeInit") = "good"
      BY <1>1, <1>9 DEF Flow, Cert, Proof
    <2>2. at = "LoginGranted"
      BY <1>2, <2>1, LoginChallengeEnds
    <2> QED
      BY <1>2, <1>9, <2>1, <2>2 DEF Chosen
  <1>10. CASE flow = "invite"
    <2>1. /\ d = InviteFlow /\ c = InviteCert
          /\ k = "InviteAcceptance" /\ Value("InviteData") # "good"
      BY <1>1, <1>10 DEF Flow, Cert, Proof
    <2>2. at = "Complete"
      BY <1>2, <2>1, InviteEnds
    <2> QED
      BY <1>2, <1>10, <2>1, <2>2 DEF Chosen
  <1> QED
    BY <1>4, <1>5, <1>6, <1>7, <1>8, <1>9, <1>10 DEF Proof

(* The pictures are the flows. *)
LEMMA PicturesTrue == FlowInv => DrawnAsBuilt
  <1> SUFFICES ASSUME FlowInv, flow \in DOMAIN View
               PROVE  /\ last \in View[flow] \cup {NoEdge}
                      /\ \A e \in View[flow] : e[3] = Flow[flow].error
                                                 \/ \E s \in Flow[flow].steps : e = Edge(s)
    BY DEF DrawnAsBuilt
  <1>1. /\ \A s \in Flow[flow].steps : Edge(s) \in View[flow]
        /\ \A e \in View[flow] : e[3] = Flow[flow].error \/ \E s \in Flow[flow].steps : e = Edge(s)
    <2>1. CASE flow = "registration"
      BY <2>1, RegistrationDrawn DEF View, Flow
    <2>2. CASE flow = "email_verification"
      BY <2>2, EmailVerificationDrawn DEF View, Flow
    <2>3. CASE flow = "password_reset"
      BY <2>3, PasswordResetDrawn DEF View, Flow
    <2>4. CASE flow = "mfa_setup"
      BY <2>4, MfaSetupDrawn DEF View, Flow
    <2>5. CASE flow = "login_challenge"
      BY <2>5, LoginChallengeDrawn DEF View, Flow
    <2> QED
      BY <2>1, <2>2, <2>3, <2>4, <2>5 DEF View
  <1> QED
    BY <1>1 DEF FlowInv

(* The invariant gives what a definition promises. *)
LEMMA FlowInvGives == FlowInv => FlowsSound
  <1> SUFFICES ASSUME FlowInv PROVE FlowsSound
    OBVIOUS
  <1>1. ASSUME NEW s \in StepsFrom(at) PROVE s.needs \subseteq DOMAIN data
    <2>1. s.needs \subseteq Cert[flow][at].has
      BY StepFacts DEF StepFits
    <2> QED
      BY <2>1 DEF FlowInv, DataOK
  <1>2. EngineCallEnds
    <2>1. PICK n : n = Cert[flow][at].steps
      OBVIOUS
    <2>2. flow \in DOMAIN Flow /\ at \in DOMAIN Cert[flow] /\ chain \in Nat /\ chain <= n
      BY <2>1 DEF FlowInv
    <2>3. n \in Nat /\ n <= Cardinality(StatesOf(flow)) /\ Cardinality(StatesOf(flow)) \in Nat
      BY <2>1, <2>2, RoomForSteps, StatesFinite
    <2> QED
      BY <2>2, <2>3 DEF EngineCallEnds
  <1> QED
    BY <1>1, <1>2, ProofsThere, PicturesTrue DEF FlowsSound, FlowDataReady

(***************************************************************************)
(* Every definition does what it promises, in every order of calls and     *)
(* whatever callers bring: a processor finds the data it requires, no flow *)
(* succeeds without the proofs its guards ask for, viz.rs draws the steps  *)
(* that run, and a call of the engine ends.                                *)
(***************************************************************************)
THEOREM FlowsKept == IdentitySpec => []FlowsSound
  <1>1. IdentityInit => FlowInv
    <2>1. StillFlow => FlowInit
      <3>1. "mfa" \in DOMAIN Flow
        BY DEF Flow
      <3> QED
        BY <3>1 DEF StillFlow, FlowInit
    <2> QED
      BY <2>1, FlowInitInv DEF IdentityInit, Begin
  <1>2. FlowInv /\ [IdentityNext]_identityVars => FlowInv'
    BY PartSteps, FlowStepInv
  <1> QED
    BY <1>1, <1>2, FlowInvGives, PTL DEF IdentitySpec
=============================================================================
