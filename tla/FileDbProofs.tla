---------------------------- MODULE FileDbProofs ----------------------------
(***************************************************************************)
(* The types of FileDb, that the space charged never falls below what the  *)
(* recorded files amount to, and what it takes for the statements that the *)
(* runs violate, for any number of pool threads, contents and requests.    *)
(***************************************************************************)
EXTENDS FileDb, FiniteSetTheorems, SequenceTheorems, WellFoundedInduction, TLAPS

USE DEF Dir, Root

-----------------------------------------------------------------------------
(* Types *)

\* What a move of thread w must see to for OpOK.
StepOK(step, o) ==
  /\ step \in WithContent => o.content \in Content
  /\ step \in {"insert", "children"} => o.id # 0
  /\ step = "walk" => o.frames # <<>>

\* A thread that moves to a step with an operation that fits it keeps the types
\* of both.
LEMMA Move ==
  ASSUME TypeOK, NEW w \in Worker, NEW step \in Steps, NEW o \in Op, StepOK(step, o),
         pc' = [pc EXCEPT ![w] = step], op' = [op EXCEPT ![w] = o]
  PROVE  /\ pc' \in [Worker -> Steps]
         /\ op' \in [Worker -> Op]
         /\ OpOK'
  BY DEF TypeOK, OpOK, StepOK

LEMMA MoveOnly ==
  ASSUME TypeOK, NEW w \in Worker, NEW step \in Steps, StepOK(step, op[w]),
         Goto(w, step), UNCHANGED op
  PROVE  /\ pc' \in [Worker -> Steps]
         /\ op' \in [Worker -> Op]
         /\ OpOK'
  BY DEF TypeOK, OpOK, StepOK, Goto

LEMMA NoOpType == NoOp \in Op
  BY DEF NoOp, Op

LEMMA DoneMoves ==
  ASSUME TypeOK, NEW w \in Worker, Done(w)
  PROVE  /\ pc' \in [Worker -> Steps]
         /\ op' \in [Worker -> Op]
         /\ OpOK'
  <1>1. "idle" \in Steps /\ StepOK("idle", NoOp)
    BY DEF Steps, StepOK, WithContent
  <1> QED
    BY <1>1, NoOpType, Move DEF Done, Goto

LEMMA SucceedMoves ==
  ASSUME TypeOK, NEW w \in Worker, Succeed(w)
  PROVE  /\ pc' \in [Worker -> Steps]
         /\ op' \in [Worker -> Op]
         /\ OpOK'
  <1>1. "walk" \in Steps
    BY DEF Steps
  <1>2. CASE op[w].frames = <<>>
    BY <1>2, DoneMoves DEF Succeed
  <1>3. CASE op[w].frames # <<>>
    <2>1. StepOK("walk", op[w])
      BY <1>3 DEF StepOK, WithContent
    <2> QED
      BY <1>1, <1>3, <2>1, MoveOnly DEF Succeed
  <1> QED
    BY <1>2, <1>3

\* Types of the table and of what a view shows.
LEMMA RowKinds ==
  ASSUME TypeOK, NEW r \in rows
  PROVE  r.id \in Nat \ {0} /\ r.content \in Content \cup {Dir} /\ r.parent \in Nat
  BY DEF TypeOK, Row

LEMMA RequestMoves ==
  ASSUME TypeOK, NEW w \in Worker, NEW step \in Steps, NEW o \in Op, StepOK(step, o),
         Request(w, step, o)
  PROVE  TypeOK'
  <1>1. /\ pc' \in [Worker -> Steps]
        /\ op' \in [Worker -> Op]
        /\ OpOK'
    BY Move DEF Request, Goto
  <1> QED
    BY <1>1 DEF TypeOK, Request

LEMMA TypeRequest ==
  ASSUME TypeOK, NEW w \in Worker,
         RequestUpload(w) \/ RequestCreateDir(w) \/ RequestDelete(w)
  PROVE  TypeOK'
  <1>1. \A p \in Folders : p \in Nat
    BY DEF TypeOK, Folders
  <1>2. ASSUME NEW c \in Content, NEW p \in Folders,
               Request(w, "space", [NoOp EXCEPT !.content = c, !.parent = p])
        PROVE  TypeOK'
    <2> DEFINE o == [NoOp EXCEPT !.content = c, !.parent = p]
    <2>1. o \in Op /\ o.content = c
      BY <1>1, NoOpType DEF Op
    <2>2. StepOK("space", o) /\ "space" \in Steps
      BY <2>1 DEF StepOK, WithContent, Steps
    <2> QED
      BY <1>2, <2>1, <2>2, RequestMoves
  <1>3. ASSUME NEW p \in Folders, Request(w, "newid", [NoOp EXCEPT !.parent = p])
        PROVE  TypeOK'
    <2> DEFINE o == [NoOp EXCEPT !.parent = p]
    <2>1. o \in Op
      BY <1>1, NoOpType DEF Op
    <2>2. StepOK("newid", o) /\ "newid" \in Steps
      BY DEF StepOK, WithContent, Steps
    <2> QED
      BY <1>3, <2>1, <2>2, RequestMoves
  <1>4. ASSUME NEW v \in seen,
               Request(w, IF v.folder THEN "children" ELSE "md5", [NoOp EXCEPT !.id = v.id])
        PROVE  TypeOK'
    <2> DEFINE o == [NoOp EXCEPT !.id = v.id]
               step == IF v.folder THEN "children" ELSE "md5"
    <2>1. v.id \in Nat \ {0}
      BY DEF TypeOK
    <2>2. o \in Op /\ o.id # 0
      BY <2>1, NoOpType DEF Op
    <2>3. StepOK(step, o) /\ step \in Steps
      BY <2>2 DEF StepOK, WithContent, Steps
    <2> QED
      BY <1>4, <2>2, <2>3, RequestMoves
  <1> QED
    BY <1>2, <1>3, <1>4 DEF RequestUpload, RequestCreateDir, RequestDelete

LEMMA TypeUpload ==
  ASSUME TypeOK, NEW w \in Worker,
         \/ GetIsEnoughSpace(w) \/ GetFileExist(w) \/ Open(w) \/ Transferred(w) \/ Abandoned(w)
  PROVE  TypeOK'
  <1>1. \A s \in {"exist", "newid", "open", "transfer"} : s \in Steps
    BY DEF Steps
  <1>2. pc[w] \in WithContent => \A s \in {"exist", "newid", "open", "transfer"} : StepOK(s, op[w])
    BY DEF TypeOK, OpOK, StepOK, WithContent
  <1>3. CASE GetIsEnoughSpace(w)
    <2>1. pc' \in [Worker -> Steps] /\ op' \in [Worker -> Op] /\ OpOK'
      BY <1>1, <1>2, <1>3, MoveOnly, DoneMoves DEF GetIsEnoughSpace, At, WithContent
    <2> QED
      BY <1>3, <2>1 DEF GetIsEnoughSpace, TypeOK
  <1>4. CASE GetFileExist(w)
    <2>1. pc' \in [Worker -> Steps] /\ op' \in [Worker -> Op] /\ OpOK'
      BY <1>1, <1>2, <1>4, MoveOnly DEF GetFileExist, At, WithContent
    <2> QED
      BY <1>4, <2>1 DEF GetFileExist, TypeOK
  <1>5. CASE Open(w)
    <2>1. pc' \in [Worker -> Steps] /\ op' \in [Worker -> Op] /\ OpOK'
      BY <1>1, <1>2, <1>5, MoveOnly, DoneMoves DEF Open, At, WithContent
    <2>2. op[w].content \in Content
      BY <1>5 DEF Open, At, TypeOK, OpOK, WithContent
    <2> QED
      BY <1>5, <2>1, <2>2 DEF Open, TypeOK
  <1>6. CASE Transferred(w)
    <2>1. pc' \in [Worker -> Steps] /\ op' \in [Worker -> Op] /\ OpOK'
      BY <1>1, <1>2, <1>6, MoveOnly DEF Transferred, At, WithContent
    <2> QED
      BY <1>6, <2>1 DEF Transferred, TypeOK
  <1>7. CASE Abandoned(w)
    <2>1. pc' \in [Worker -> Steps] /\ op' \in [Worker -> Op] /\ OpOK'
      BY <1>7, DoneMoves DEF Abandoned
    <2> QED
      BY <1>7, <2>1 DEF Abandoned, TypeOK
  <1> QED
    BY <1>3, <1>4, <1>5, <1>6, <1>7

\* The primary key: ids stay distinct, because an insertion finds its id free.
LEMMA TypeInsert ==
  ASSUME TypeOK, NEW w \in Worker, InsertFileData(w)
  PROVE  TypeOK'
  <1>1. CASE SelectNextId(w)
    <2>1. PICK id \in NextId : op' = [op EXCEPT ![w].id = id]
      BY <1>1 DEF SelectNextId
    <2>2. id \in Nat \ {0}
      BY <2>1, RowKinds DEF NextId, IdsAfterLast
    <2> DEFINE o == [op[w] EXCEPT !.id = id]
    <2>3. o \in Op /\ o.id # 0
      BY <2>2 DEF TypeOK, Op
    <2>4. StepOK("insert", o) /\ "insert" \in Steps
      BY <2>3 DEF StepOK, WithContent, Steps
    <2>5. op' = [op EXCEPT ![w] = o]
      BY <2>1 DEF TypeOK
    <2>6. pc' \in [Worker -> Steps] /\ op' \in [Worker -> Op] /\ OpOK'
      BY <1>1, <2>3, <2>4, <2>5, Move DEF SelectNextId, Goto
    <2> QED
      BY <1>1, <2>6 DEF SelectNextId, TypeOK
  <1>2. CASE InsertRow(w)
    <2>1. op[w].content \in Content \cup {Dir} /\ op[w].parent \in Nat /\ op[w].id \in Nat \ {0}
      BY <1>2 DEF InsertRow, At, TypeOK, OpOK, Op
    <2>2. pc' \in [Worker -> Steps] /\ op' \in [Worker -> Op] /\ OpOK'
      <3>1. op[w].content # Dir => StepOK("charge", op[w]) /\ "charge" \in Steps
        BY <2>1 DEF StepOK, WithContent, Steps
      <3> QED
        BY <1>2, <3>1, MoveOnly, DoneMoves DEF InsertRow
    <2>3. CASE Taken(op[w].id)
      BY <1>2, <2>2, <2>3 DEF InsertRow, TypeOK
    <2>4. CASE ~Taken(op[w].id)
      <3> DEFINE r == [id |-> op[w].id, content |-> op[w].content, parent |-> op[w].parent]
      <3>1. rows' = rows \cup {r} /\ r \in Row /\ \A s \in rows : s.id # r.id
        BY <1>2, <2>1, <2>4 DEF InsertRow, Row, Taken
      <3>2. IsFiniteSet(rows')
        BY <3>1, FS_AddElement DEF TypeOK
      <3>3. rows' \subseteq Row /\ \A s, t \in rows' : s.id = t.id => s = t
        BY <3>1 DEF TypeOK
      <3>4. seen' \subseteq [id : Nat \ {0}, folder : BOOLEAN]
        <4> DEFINE folder == op[w].content = Dir
        <4>1. folder \in BOOLEAN
          OBVIOUS
        <4>2. seen' = seen \cup {[id |-> op[w].id, folder |-> folder]}
          BY <1>2, <2>4 DEF InsertRow
        <4> HIDE DEF folder
        <4> QED
          BY <2>1, <4>1, <4>2 DEF TypeOK
      <3> QED
        BY <1>2, <2>2, <3>2, <3>3, <3>4 DEF InsertRow, TypeOK
    <2> QED
      BY <2>3, <2>4
  <1>3. CASE Charge(w)
    <2>1. pc' \in [Worker -> Steps] /\ op' \in [Worker -> Op] /\ OpOK'
      BY <1>3, DoneMoves DEF Charge
    <2>2. charged' \in [Content -> Int]
      BY <1>3 DEF Charge, At, TypeOK, OpOK, WithContent
    <2> QED
      BY <1>3, <2>1, <2>2 DEF Charge, TypeOK
  <1> QED
    BY <1>1, <1>2, <1>3 DEF InsertFileData

\* Fewer rows are still a table.
LEMMA FewerRows ==
  ASSUME TypeOK, NEW T \in SUBSET rows
  PROVE  T \subseteq Row /\ IsFiniteSet(T) /\ \A s, t \in T : s.id = t.id => s = t
  BY FS_Subset DEF TypeOK

LEMMA TypeDeleteFile ==
  ASSUME TypeOK, NEW w \in Worker, DeleteOneFile(w)
  PROVE  TypeOK'
  <1>1. CASE GetFileMd5(w)
    <2>1. ASSUME NEW r \in rows, r.content # Dir,
                 op' = [op EXCEPT ![w].content = r.content], Goto(w, "count")
          PROVE  pc' \in [Worker -> Steps] /\ op' \in [Worker -> Op] /\ OpOK'
      <3> DEFINE o == [op[w] EXCEPT !.content = r.content]
      <3>1. r.content \in Content
        BY <2>1, RowKinds
      <3>2. o \in Op /\ o.content = r.content
        BY <3>1 DEF TypeOK, Op
      <3>3. StepOK("count", o) /\ "count" \in Steps
        BY <3>1, <3>2 DEF StepOK, WithContent, Steps
      <3>4. op' = [op EXCEPT ![w] = o]
        BY <2>1 DEF TypeOK
      <3> QED
        BY <2>1, <3>2, <3>3, <3>4, Move DEF Goto
    <2>2. pc' \in [Worker -> Steps] /\ op' \in [Worker -> Op] /\ OpOK'
      BY <1>1, <2>1, DoneMoves DEF GetFileMd5
    <2> QED
      BY <1>1, <2>2 DEF GetFileMd5, TypeOK
  <1>2. CASE CountRows(w)
    <2>1. op[w].content \in Content
      BY <1>2 DEF CountRows, At, TypeOK, OpOK, WithContent
    <2>2. ASSUME NEW b \in BOOLEAN, op' = [op EXCEPT ![w].last = b], Goto(w, "delete")
          PROVE  pc' \in [Worker -> Steps] /\ op' \in [Worker -> Op] /\ OpOK'
      <3> DEFINE o == [op[w] EXCEPT !.last = b]
      <3>1. o \in Op /\ o.content = op[w].content
        BY DEF TypeOK, Op
      <3>2. StepOK("delete", o) /\ "delete" \in Steps
        BY <2>1, <3>1 DEF StepOK, WithContent, Steps
      <3>3. op' = [op EXCEPT ![w] = o]
        BY <2>2 DEF TypeOK
      <3> QED
        BY <2>2, <3>1, <3>2, <3>3, Move DEF Goto
    <2>3. pc' \in [Worker -> Steps] /\ op' \in [Worker -> Op] /\ OpOK'
      BY <1>2, <2>2, DoneMoves DEF CountRows
    <2> QED
      BY <1>2, <2>3 DEF CountRows, TypeOK
  <1>3. CASE DeleteRow(w)
    <2>1. StepOK("credit", op[w]) /\ "credit" \in Steps
      BY <1>3 DEF DeleteRow, At, TypeOK, OpOK, StepOK, WithContent, Steps
    <2>2. pc' \in [Worker -> Steps] /\ op' \in [Worker -> Op] /\ OpOK'
      BY <1>3, <2>1, MoveOnly, DoneMoves DEF DeleteRow
    <2>3. rows' \in SUBSET rows
      BY <1>3 DEF DeleteRow
    <2>4. rows' \subseteq Row /\ IsFiniteSet(rows') /\ \A s, t \in rows' : s.id = t.id => s = t
      BY <2>3, FewerRows
    <2> QED
      BY <1>3, <2>2, <2>4 DEF DeleteRow, TypeOK
  <1>4. CASE Credit(w)
    <2>1. StepOK("remove", op[w]) /\ "remove" \in Steps
      BY <1>4 DEF Credit, At, TypeOK, OpOK, StepOK, WithContent, Steps
    <2>2. pc' \in [Worker -> Steps] /\ op' \in [Worker -> Op] /\ OpOK'
      BY <1>4, <2>1, MoveOnly, SucceedMoves DEF Credit
    <2>3. charged' \in [Content -> Int]
      BY <1>4 DEF Credit, At, TypeOK, OpOK, WithContent
    <2> QED
      BY <1>4, <2>2, <2>3 DEF Credit, TypeOK
  <1>5. CASE RemoveFile(w)
    <2>1. pc' \in [Worker -> Steps] /\ op' \in [Worker -> Op] /\ OpOK'
      BY <1>5, SucceedMoves, DoneMoves DEF RemoveFile
    <2> QED
      BY <1>5, <2>1 DEF RemoveFile, TypeOK
  <1> QED
    BY <1>1, <1>2, <1>3, <1>4, <1>5 DEF DeleteOneFile

\* A stack of frames grows, is worked on at its top, and shrinks.
LEMMA Frames ==
  ASSUME NEW s \in Seq(Frame), NEW f \in Frame
  PROVE  /\ <<f>> \o s \in Seq(Frame)
         /\ <<f>> \o s # <<>>
         /\ s # <<>> => Head(s) \in Frame /\ Tail(s) \in Seq(Frame)
  <1>1. <<f>> \in Seq(Frame) /\ Len(<<f>>) = 1
    OBVIOUS
  <1>2. <<f>> \o s \in Seq(Frame) /\ Len(<<f>> \o s) = 1 + Len(s)
    BY <1>1, ConcatProperties
  <1>3. <<f>> \o s # <<>>
    BY <1>2, EmptySeq
  <1>4. s # <<>> => Head(s) \in Frame /\ Tail(s) \in Seq(Frame)
    BY HeadTailProperties
  <1> QED
    BY <1>2, <1>3, <1>4

LEMMA Pop ==
  ASSUME NEW s \in Seq(Frame), Len(s) > 1
  PROVE  Tail(s) \in Seq(Frame) /\ Tail(s) # <<>>
  <1>1. s # <<>>
    BY EmptySeq
  <1>2. Tail(s) \in Seq(Frame) /\ Len(Tail(s)) = Len(s) - 1
    BY <1>1, HeadTailProperties
  <1>3. Len(s) \in Nat
    BY LenProperties
  <1>4. Len(Tail(s)) # 0
    BY <1>2, <1>3
  <1>5. Tail(s) # <<>>
    BY <1>4, EmptySeq, Zenon
  <1> QED
    BY <1>2, <1>5

LEMMA TypeDeleteDir ==
  ASSUME TypeOK, NEW w \in Worker, DeleteOneDir(w)
  PROVE  TypeOK'
  <1> DEFINE s == op[w].frames
  <1>1. op[w] \in Op /\ s \in Seq(Frame)
    BY DEF TypeOK, Op
  <1>2. "walk" \in Steps /\ "children" \in Steps /\ "md5" \in Steps
    BY DEF Steps
  <1>3. CASE SelectChildren(w)
    <2> DEFINE f == [dir |-> op[w].id, todo |-> ChildrenOf(op[w].id)]
               o == [op[w] EXCEPT !.frames = <<f>> \o s]
    <2>1. op[w].id \in Nat \ {0}
      BY <1>1, <1>3 DEF SelectChildren, At, TypeOK, OpOK, Op
    <2>2. ChildrenOf(op[w].id) \subseteq [id : Nat \ {0}, folder : BOOLEAN]
      <3>1. ASSUME NEW r \in rows, NEW b \in BOOLEAN
            PROVE  [id |-> r.id, folder |-> b] \in [id : Nat \ {0}, folder : BOOLEAN]
        BY RowKinds
      <3>2. \A r \in rows : (r.content = Dir) \in BOOLEAN
        OBVIOUS
      <3>3. \A r \in rows : [id |-> r.id, folder |-> r.content = Dir]
                              \in [id : Nat \ {0}, folder : BOOLEAN]
        BY <3>1, <3>2, Zenon
      <3> QED
        BY <3>3 DEF ChildrenOf
    <2>3. f \in Frame
      BY <2>1, <2>2 DEF Frame
    <2>4. o \in Op /\ o.frames # <<>>
      BY <1>1, <2>3, Frames DEF Op
    <2>5. StepOK("walk", o)
      BY <2>4 DEF StepOK, WithContent
    <2>6. op' = [op EXCEPT ![w] = o]
      BY <1>3 DEF SelectChildren, TypeOK
    <2>7. pc' \in [Worker -> Steps] /\ op' \in [Worker -> Op] /\ OpOK'
      BY <1>2, <1>3, <2>4, <2>5, <2>6, Move DEF SelectChildren, Goto
    <2> QED
      BY <1>3, <2>7 DEF SelectChildren, TypeOK
  <1>4. CASE DeleteChild(w)
    <2>1. PICK child \in Head(s).todo :
            /\ op' = [op EXCEPT ![w].id = child.id,
                                ![w].frames = <<[Head(s) EXCEPT !.todo = Head(s).todo \ {child}]>>
                                                 \o Tail(s)]
            /\ Goto(w, IF child.folder THEN "children" ELSE "md5")
      BY <1>4 DEF DeleteChild, Top, Below
    <2> DEFINE f == [Head(s) EXCEPT !.todo = Head(s).todo \ {child}]
               o == [op[w] EXCEPT !.id = child.id, !.frames = <<f>> \o Tail(s)]
               step == IF child.folder THEN "children" ELSE "md5"
    <2>2. s # <<>>
      BY <1>4 DEF DeleteChild, At, TypeOK, OpOK
    <2>3. Head(s) \in Frame /\ Tail(s) \in Seq(Frame)
      BY <1>1, <2>2
    <2>4. child.id \in Nat \ {0} /\ f \in Frame
      BY <2>3 DEF Frame
    <2>5. <<f>> \o Tail(s) \in Seq(Frame)
      BY <2>3, <2>4, Frames
    <2>6. o \in Op /\ o.id # 0
      BY <1>1, <2>4, <2>5 DEF Op
    <2>7. StepOK(step, o) /\ step \in Steps
      BY <1>2, <2>6 DEF StepOK, WithContent
    <2>8. op' = [op EXCEPT ![w] = o]
      BY <2>1 DEF TypeOK
    <2>9. pc' \in [Worker -> Steps] /\ op' \in [Worker -> Op] /\ OpOK'
      BY <2>1, <2>6, <2>7, <2>8, Move DEF Goto
    <2> QED
      BY <1>4, <2>9 DEF DeleteChild, TypeOK
  <1>5. CASE DeleteDirRow(w)
    <2>1. ASSUME Len(s) > 1, op' = [op EXCEPT ![w].frames = Tail(s)], UNCHANGED pc
          PROVE  pc' \in [Worker -> Steps] /\ op' \in [Worker -> Op] /\ OpOK'
      <3> DEFINE o == [op[w] EXCEPT !.frames = Tail(s)]
      <3>1. Tail(s) \in Seq(Frame) /\ Tail(s) # <<>>
        BY <1>1, <2>1, Pop
      <3>2. o \in Op /\ o.frames # <<>>
        BY <1>1, <3>1 DEF Op
      <3>3. StepOK("walk", o)
        BY <3>2 DEF StepOK, WithContent
      <3>4. op' = [op EXCEPT ![w] = o] /\ pc' = [pc EXCEPT ![w] = "walk"]
        BY <1>5, <2>1 DEF TypeOK, DeleteDirRow, At
      <3> QED
        BY <1>2, <3>2, <3>3, <3>4, Move
    <2>2. pc' \in [Worker -> Steps] /\ op' \in [Worker -> Op] /\ OpOK'
      BY <1>5, <2>1, DoneMoves DEF DeleteDirRow, Below
    <2>3. rows' \in SUBSET rows
      BY <1>5 DEF DeleteDirRow
    <2>4. rows' \subseteq Row /\ IsFiniteSet(rows') /\ \A r, t \in rows' : r.id = t.id => r = t
      BY <2>3, FewerRows
    <2> QED
      BY <1>5, <2>2, <2>4 DEF DeleteDirRow, TypeOK
  <1> QED
    BY <1>3, <1>4, <1>5 DEF DeleteOneDir

LEMMA TypeInit == Init => TypeOK
  <1> SUFFICES ASSUME Init PROVE TypeOK
    OBVIOUS
  <1>1. pc \in [Worker -> Steps] /\ op \in [Worker -> Op] /\ OpOK
    BY NoOpType DEF Init, Steps, OpOK, WithContent
  <1> QED
    BY <1>1, FS_EmptySet DEF Init, TypeOK

LEMMA TypeStep == TypeOK /\ [Next]_vars => TypeOK'
  <1> SUFFICES ASSUME TypeOK, [Next]_vars PROVE TypeOK'
    OBVIOUS
  <1>1. ASSUME NEW w \in Worker,
               \/ Upload(w) \/ RequestCreateDir(w) \/ RequestDelete(w)
               \/ InsertFileData(w) \/ DeleteOneFile(w) \/ DeleteOneDir(w)
        PROVE  TypeOK'
    BY <1>1, TypeRequest, TypeUpload, TypeInsert, TypeDeleteFile, TypeDeleteDir DEF Upload
  <1>2. CASE UNCHANGED vars
    BY <1>2 DEF vars, TypeOK, OpOK
  <1> QED
    BY <1>1, <1>2 DEF Next

\* Every variable of the account keeps its type, and ids are distinct.
THEOREM AccountTypes == Spec => []TypeOK
  BY TypeInit, TypeStep, PTL DEF Spec

-----------------------------------------------------------------------------
(* The account.  Only five actions change what NeverUndercharged compares.     *)

\* The inequality for one content.
Covered(c) ==
  Cardinality(RowsOf(c)) + Cardinality(Owing("credit", c))
    <= charged[c] + Cardinality(Owing("charge", c))

\* All four numbers are numbers.
LEMMA Counts ==
  ASSUME TypeOK, NEW c \in Content
  PROVE  /\ IsFiniteSet(RowsOf(c)) /\ Cardinality(RowsOf(c)) \in Nat
         /\ \A s \in Steps : IsFiniteSet(Owing(s, c)) /\ Cardinality(Owing(s, c)) \in Nat
         /\ charged[c] \in Int
  <1>1. IsFiniteSet(RowsOf(c))
    BY FS_Subset DEF TypeOK, RowsOf
  <1>2. \A s \in Steps : IsFiniteSet(Owing(s, c))
    BY FS_Subset, AccountAssumption DEF Owing
  <1> QED
    BY <1>1, <1>2, FS_CardinalityType DEF TypeOK

\* A step of thread w that is at neither of the two steps before or after, and
\* that adds no row, covers what was covered.
LEMMA Aside ==
  ASSUME TypeOK, TypeOK', NEW c \in Content, Covered(c), NEW w \in Worker,
         pc[w] \notin {"charge", "credit"}, pc'[w] \notin {"charge", "credit"},
         \A v \in Worker \ {w} : pc'[v] = pc[v] /\ op'[v] = op[v],
         rows' \subseteq rows, UNCHANGED charged
  PROVE  Covered(c)'
  <1>1. Owing("credit", c)' = Owing("credit", c) /\ Owing("charge", c)' = Owing("charge", c)
    BY DEF Owing
  <1>2. Cardinality(RowsOf(c)') <= Cardinality(RowsOf(c))
    <2>1. RowsOf(c)' \in SUBSET RowsOf(c)
      BY DEF RowsOf
    <2> QED
      BY <2>1, Counts, FS_Subset
  <1>3. Cardinality(RowsOf(c)') \in Nat
    <2>1. IsFiniteSet(rows') /\ RowsOf(c)' \in SUBSET rows'
      BY DEF TypeOK, RowsOf
    <2> QED
      BY <2>1, FS_Subset, FS_CardinalityType
  <1>4. "credit" \in Steps /\ "charge" \in Steps
    BY DEF Steps
  <1> QED
    BY <1>1, <1>2, <1>3, <1>4, Counts DEF Covered

\* Moves of one thread.
LEMMA OthersStay ==
  ASSUME TypeOK, NEW w \in Worker,
         \/ Upload(w) \/ RequestCreateDir(w) \/ RequestDelete(w)
         \/ InsertFileData(w) \/ DeleteOneFile(w) \/ DeleteOneDir(w)
  PROVE  \A v \in Worker \ {w} : pc'[v] = pc[v] /\ op'[v] = op[v]
  <1>1. ASSUME \/ Done(w) \/ Succeed(w)
               \/ (\E s : Goto(w, s)) /\ (UNCHANGED op \/ \E o : op' = [op EXCEPT ![w] = o])
               \/ UNCHANGED pc /\ \E o : op' = [op EXCEPT ![w] = o]
        PROVE  \A v \in Worker \ {w} : pc'[v] = pc[v] /\ op'[v] = op[v]
    BY <1>1 DEF Done, Succeed, Goto, TypeOK
  <1> QED
    BY <1>1 DEF Upload, RequestUpload, RequestCreateDir, RequestDelete, Request,
         GetIsEnoughSpace, GetFileExist, Open, Transferred, Abandoned, InsertFileData,
         SelectNextId, InsertRow, Charge, DeleteOneFile, GetFileMd5, CountRows, DeleteRow,
         Credit, RemoveFile, DeleteOneDir, SelectChildren, DeleteChild, DeleteDirRow

\* The thread that leaves an update undone is one more that owes it, and the one
\* that makes up for it is one less.
LEMMA OwesMore ==
  ASSUME TypeOK, NEW c \in Content, NEW w \in Worker, NEW step \in Steps,
         pc[w] # step, pc'[w] = step, op'[w].content = c,
         \A v \in Worker \ {w} : pc'[v] = pc[v] /\ op'[v] = op[v]
  PROVE  Cardinality(Owing(step, c)') = Cardinality(Owing(step, c)) + 1
  <1>1. Owing(step, c)' = Owing(step, c) \cup {w} /\ w \notin Owing(step, c)
    BY DEF Owing
  <1> QED
    BY <1>1, Counts, FS_AddElement, ZenonT(30)

LEMMA OwesLess ==
  ASSUME TypeOK, NEW c \in Content, NEW w \in Worker, NEW step \in Steps,
         pc[w] = step, op[w].content = c, pc'[w] # step,
         \A v \in Worker \ {w} : pc'[v] = pc[v] /\ op'[v] = op[v]
  PROVE  Cardinality(Owing(step, c)') = Cardinality(Owing(step, c)) - 1
  <1>1. Owing(step, c)' = Owing(step, c) \ {w} /\ w \in Owing(step, c)
    BY DEF Owing
  <1>2. IsFiniteSet(Owing(step, c))
    BY Counts
  <1> QED
    BY <1>1, <1>2, FS_RemoveElement

LEMMA OwesSame ==
  ASSUME NEW c, NEW w \in Worker, NEW step,
         ~(pc[w] = step /\ op[w].content = c), ~(pc'[w] = step /\ op'[w].content = c),
         \A v \in Worker \ {w} : pc'[v] = pc[v] /\ op'[v] = op[v]
  PROVE  Owing(step, c)' = Owing(step, c)
  BY DEF Owing

\* A new row is charged for later; a folder is not charged for.
LEMMA InsertCovers ==
  ASSUME TypeOK, TypeOK', NEW c \in Content, Covered(c), NEW w \in Worker, InsertRow(w)
  PROVE  Covered(c)'
  <1>1. \A v \in Worker \ {w} : pc'[v] = pc[v] /\ op'[v] = op[v]
    BY OthersStay DEF InsertFileData
  <1>2. pc[w] = "insert" /\ UNCHANGED charged /\ "charge" \in Steps /\ "credit" \in Steps
    BY DEF InsertRow, At, Steps
  <1>3. CASE Taken(op[w].id) \/ op[w].content = Dir
    <2>1. pc'[w] = "idle"
      BY <1>3 DEF InsertRow, Done, Goto, TypeOK
    <2>2. Owing("credit", c)' = Owing("credit", c) /\ Owing("charge", c)' = Owing("charge", c)
      BY <1>1, <1>2, <2>1, OwesSame
    <2>3. RowsOf(c)' = RowsOf(c)
      BY <1>3, DirAssumption DEF InsertRow, RowsOf
    <2> QED
      BY <1>2, <2>2, <2>3 DEF Covered
  <1>4. CASE ~Taken(op[w].id) /\ op[w].content # Dir
    <2> DEFINE r == [id |-> op[w].id, content |-> op[w].content, parent |-> op[w].parent]
    <2>1. rows' = rows \cup {r} /\ r \notin rows /\ r.content = op[w].content
      BY <1>4 DEF InsertRow, Taken
    <2>2. pc'[w] = "charge" /\ op'[w] = op[w]
      BY <1>4 DEF InsertRow, Goto, TypeOK
    <2>3. Owing("credit", c)' = Owing("credit", c)
      BY <1>1, <1>2, <2>2, OwesSame
    <2>4. CASE op[w].content = c
      <3>1. RowsOf(c)' = RowsOf(c) \cup {r} /\ r \notin RowsOf(c)
        BY <2>1, <2>4 DEF RowsOf
      <3>2. Cardinality(RowsOf(c)') = Cardinality(RowsOf(c)) + 1
        BY <3>1, Counts, FS_AddElement
      <3>3. Cardinality(Owing("charge", c)') = Cardinality(Owing("charge", c)) + 1
        BY <1>1, <1>2, <2>2, <2>4, OwesMore
      <3> QED
        BY <1>2, <2>3, <3>2, <3>3, Counts DEF Covered
    <2>5. CASE op[w].content # c
      <3>1. RowsOf(c)' = RowsOf(c)
        BY <2>1, <2>5 DEF RowsOf
      <3>2. Owing("charge", c)' = Owing("charge", c)
        BY <1>1, <1>2, <2>2, <2>5, OwesSame
      <3> QED
        BY <1>2, <2>3, <3>1, <3>2 DEF Covered
    <2> QED
      BY <2>4, <2>5
  <1> QED
    BY <1>3, <1>4

\* What was owed is charged.
LEMMA ChargeCovers ==
  ASSUME TypeOK, TypeOK', NEW c \in Content, Covered(c), NEW w \in Worker, Charge(w)
  PROVE  Covered(c)'
  <1>1. \A v \in Worker \ {w} : pc'[v] = pc[v] /\ op'[v] = op[v]
    BY OthersStay DEF InsertFileData
  <1>2. pc[w] = "charge" /\ pc'[w] = "idle" /\ "charge" \in Steps
    BY DEF Charge, At, Done, Goto, TypeOK, Steps
  <1>3. RowsOf(c)' = RowsOf(c)
    BY DEF Charge, RowsOf
  <1>4. Owing("credit", c)' = Owing("credit", c)
    BY <1>1, <1>2, OwesSame
  <1>5. CASE op[w].content = c
    <2>1. charged'[c] = charged[c] + 1
      BY <1>5 DEF Charge, TypeOK
    <2>2. Cardinality(Owing("charge", c)') = Cardinality(Owing("charge", c)) - 1
      BY <1>1, <1>2, <1>5, OwesLess
    <2> QED
      BY <1>2, <1>3, <1>4, <2>1, <2>2, Counts DEF Covered
  <1>6. CASE op[w].content # c
    <2>1. charged'[c] = charged[c]
      BY <1>6 DEF Charge, TypeOK
    <2>2. Owing("charge", c)' = Owing("charge", c)
      BY <1>1, <1>2, <1>6, OwesSame
    <2> QED
      BY <1>3, <1>4, <2>1, <2>2 DEF Covered
  <1> QED
    BY <1>5, <1>6

\* A thread that is to credit a row has deleted one itself.
LEMMA DeleteCovers ==
  ASSUME TypeOK, TypeOK', NEW c \in Content, Covered(c), NEW w \in Worker, DeleteRow(w)
  PROVE  Covered(c)'
  <1>1. \A v \in Worker \ {w} : pc'[v] = pc[v] /\ op'[v] = op[v]
    BY OthersStay DEF DeleteOneFile
  <1>2. pc[w] = "delete" /\ UNCHANGED charged /\ rows' = rows \ Matched(w)
    BY DEF DeleteRow, At
  <1>3. "credit" \in Steps /\ "charge" \in Steps
    BY DEF Steps
  <1>4. CASE ~Deleted(w)
    <2>1. pc'[w] = "idle"
      BY <1>4 DEF DeleteRow, Done, Goto, TypeOK
    <2> QED
      BY <1>1, <1>2, <2>1, Aside
  <1>5. CASE Deleted(w)
    <2>1. pc'[w] = "credit" /\ op'[w] = op[w]
      BY <1>5 DEF DeleteRow, Goto, TypeOK
    <2>2. Owing("charge", c)' = Owing("charge", c)
      BY <1>1, <1>2, <2>1, OwesSame
    <2>3. CASE op[w].content = c
      <3>1. PICK r \in Matched(w) : TRUE
        BY <1>5 DEF Deleted
      <3>2. r \in RowsOf(c) /\ RowsOf(c)' \in SUBSET (RowsOf(c) \ {r})
        BY <1>2, <2>3, <3>1 DEF Matched, RowsOf
      <3>3. /\ IsFiniteSet(RowsOf(c) \ {r})
            /\ Cardinality(RowsOf(c) \ {r}) = Cardinality(RowsOf(c)) - 1
        BY <3>2, Counts, FS_RemoveElement
      <3>4. /\ IsFiniteSet(RowsOf(c)')
            /\ Cardinality(RowsOf(c)') <= Cardinality(RowsOf(c) \ {r})
        BY <3>2, <3>3, FS_Subset
      <3>5. Cardinality(RowsOf(c)') \in Nat
        BY <3>4, FS_CardinalityType
      <3>6. Cardinality(Owing("credit", c)') = Cardinality(Owing("credit", c)) + 1
        BY <1>1, <1>2, <1>3, <2>1, <2>3, OwesMore
      <3> QED
        BY <1>2, <1>3, <2>2, <3>3, <3>4, <3>5, <3>6, Counts DEF Covered
    <2>4. CASE op[w].content # c
      <3>1. RowsOf(c)' = RowsOf(c)
        BY <1>2, <2>4 DEF Matched, RowsOf
      <3>2. Owing("credit", c)' = Owing("credit", c)
        BY <1>1, <1>2, <2>1, <2>4, OwesSame
      <3> QED
        BY <1>2, <2>2, <3>1, <3>2 DEF Covered
    <2> QED
      BY <2>3, <2>4
  <1> QED
    BY <1>4, <1>5

\* The row that is credited is gone already.
LEMMA CreditCovers ==
  ASSUME TypeOK, TypeOK', NEW c \in Content, Covered(c), NEW w \in Worker, Credit(w)
  PROVE  Covered(c)'
  <1>1. \A v \in Worker \ {w} : pc'[v] = pc[v] /\ op'[v] = op[v]
    BY OthersStay DEF DeleteOneFile
  <1>2. /\ pc[w] = "credit" /\ pc'[w] \in {"idle", "walk", "remove"}
        /\ "credit" \in Steps /\ "charge" \in Steps
    BY DEF Credit, At, Succeed, Done, Goto, TypeOK, Steps
  <1>3. RowsOf(c)' = RowsOf(c)
    BY DEF Credit, RowsOf
  <1>4. Owing("charge", c)' = Owing("charge", c)
    BY <1>1, <1>2, OwesSame
  <1>5. CASE op[w].content = c
    <2>1. charged'[c] = charged[c] - 1
      BY <1>5 DEF Credit, TypeOK
    <2>2. Cardinality(Owing("credit", c)') = Cardinality(Owing("credit", c)) - 1
      BY <1>1, <1>2, <1>5, OwesLess
    <2> QED
      BY <1>2, <1>3, <1>4, <2>1, <2>2, Counts DEF Covered
  <1>6. CASE op[w].content # c
    <2>1. charged'[c] = charged[c]
      BY <1>6 DEF Credit, TypeOK
    <2>2. Owing("credit", c)' = Owing("credit", c)
      BY <1>1, <1>2, <1>6, OwesSame
    <2> QED
      BY <1>3, <1>4, <2>1, <2>2 DEF Covered
  <1> QED
    BY <1>5, <1>6

\* Everything else leaves the charge alone and adds no row.
LEMMA OthersCover ==
  ASSUME TypeOK, TypeOK', NEW c \in Content, Covered(c), NEW w \in Worker,
         \/ Upload(w) \/ RequestCreateDir(w) \/ RequestDelete(w) \/ SelectNextId(w)
         \/ GetFileMd5(w) \/ CountRows(w) \/ RemoveFile(w) \/ DeleteOneDir(w)
  PROVE  Covered(c)'
  <1>1. \A v \in Worker \ {w} : pc'[v] = pc[v] /\ op'[v] = op[v]
    BY OthersStay DEF InsertFileData, DeleteOneFile
  <1>2. rows' \subseteq rows /\ UNCHANGED charged
    BY DEF Upload, RequestUpload, RequestCreateDir, RequestDelete, Request, GetIsEnoughSpace,
         GetFileExist, Open, Transferred, Abandoned, SelectNextId, GetFileMd5, CountRows,
         RemoveFile, DeleteOneDir, SelectChildren, DeleteChild, DeleteDirRow
  <1>3. pc[w] \notin {"charge", "credit"}
    BY DEF Upload, RequestUpload, RequestCreateDir, RequestDelete, Request, GetIsEnoughSpace,
         GetFileExist, Open, Transferred, Abandoned, SelectNextId, GetFileMd5, CountRows,
         RemoveFile, DeleteOneDir, SelectChildren, DeleteChild, DeleteDirRow, At
  <1>4. pc'[w] \notin {"charge", "credit"}
    BY <1>3 DEF Upload, RequestUpload, RequestCreateDir, RequestDelete, Request,
         GetIsEnoughSpace, GetFileExist, Open, Transferred, Abandoned, SelectNextId,
         GetFileMd5, CountRows, RemoveFile, DeleteOneDir, SelectChildren, DeleteChild,
         DeleteDirRow, Done, Succeed, Goto, TypeOK
  <1> QED
    BY <1>1, <1>2, <1>3, <1>4, Aside

LEMMA CoveredInit ==
  ASSUME Init, NEW c \in Content
  PROVE  Covered(c)
  <1>1. RowsOf(c) = {} /\ Owing("credit", c) = {} /\ Owing("charge", c) = {} /\ charged[c] = 0
    BY DEF Init, RowsOf, Owing
  <1> QED
    BY <1>1, FS_EmptySet DEF Covered

LEMMA CoveredStep ==
  ASSUME TypeOK, TypeOK', [Next]_vars, NEW c \in Content, Covered(c)
  PROVE  Covered(c)'
  <1>1. ASSUME NEW w \in Worker,
               \/ Upload(w) \/ RequestCreateDir(w) \/ RequestDelete(w)
               \/ InsertFileData(w) \/ DeleteOneFile(w) \/ DeleteOneDir(w)
        PROVE  Covered(c)'
    BY <1>1, InsertCovers, ChargeCovers, DeleteCovers, CreditCovers, OthersCover
       DEF InsertFileData, DeleteOneFile
  <1>2. CASE UNCHANGED vars
    BY <1>2 DEF vars, Covered, RowsOf, Owing
  <1> QED
    BY <1>1, <1>2 DEF Next

\* Whatever requests of one user overlap, the space charged to the user never
\* falls below what the recorded files amount to, up to the updates still owed.
THEOREM ChargesCover == Spec => []NeverUndercharged
  <1>1. Init => NeverUndercharged
    BY CoveredInit DEF NeverUndercharged, Covered
  <1>2. TypeOK /\ TypeOK' /\ NeverUndercharged /\ [Next]_vars => NeverUndercharged'
    BY CoveredStep DEF NeverUndercharged, Covered
  <1> QED
    BY <1>1, <1>2, AccountTypes, PTL DEF Spec

-----------------------------------------------------------------------------
(* What RecordedKeepsFile takes.  It is violated when two threads are between  *)
(* a query about a content and the step that relies on its answer; it holds    *)
(* when no two are, for the same content, whatever else overlaps.              *)

\* Steps of a thread that has asked about its content and not yet acted on it.
Relying == {"open", "transfer", "newid", "insert", "delete", "credit", "remove"}

Relies(w, c) == pc[w] \in Relying /\ op[w].content = c

OnePerContent ==
  \A c \in Content, v, w \in Worker : Relies(v, c) /\ Relies(w, c) => v = w

\* Every recorded content has its file, being deleted or not.
RowsHaveFile == \A r \in rows : r.content # Dir => r.content \in disk

\* What thread w has been told still holds.
AnswerHolds(w) ==
  /\ pc[w] \in {"open", "transfer", "remove"} => RowsOf(op[w].content) = {}
  /\ pc[w] = "credit" /\ op[w].last => RowsOf(op[w].content) = {}
  /\ pc[w] = "delete" /\ op[w].last => \A r, s \in RowsOf(op[w].content) : r = s
  /\ pc[w] \in {"transfer", "newid", "insert"} /\ op[w].content # Dir
       => op[w].content \in disk

KeepInv == RowsHaveFile /\ \A w \in Worker : AnswerHolds(w)

\* A thread that is not relying on an answer has none that must hold.
LEMMA NoAnswer ==
  ASSUME NEW w \in Worker, pc[w] \notin Relying
  PROVE  AnswerHolds(w)
  BY DEF AnswerHolds, Relying

LEMMA NoAnswerNext ==
  ASSUME NEW w \in Worker, pc'[w] \notin Relying
  PROVE  AnswerHolds(w)'
  BY DEF AnswerHolds, Relying

\* While rows of a content only go, and its file stays, an answer keeps.
LEMMA AnswerKept ==
  ASSUME NEW v \in Worker, AnswerHolds(v), pc'[v] = pc[v], op'[v] = op[v],
         \A r \in rows' : r.content = op[v].content => r \in rows,
         op[v].content \in disk => op[v].content \in disk'
  PROVE  AnswerHolds(v)'
  <1>1. RowsOf(op[v].content)' \subseteq RowsOf(op[v].content)
    BY DEF RowsOf
  <1> QED
    BY <1>1 DEF AnswerHolds

\* Steps that touch neither rows nor disk.
LEMMA KeptAside ==
  ASSUME TypeOK, KeepInv, NEW w \in Worker, AnswerHolds(w)',
         \A v \in Worker \ {w} : pc'[v] = pc[v] /\ op'[v] = op[v],
         rows' \subseteq rows, disk \subseteq disk'
  PROVE  KeepInv'
  <1>1. RowsHaveFile'
    BY DEF KeepInv, RowsHaveFile
  <1>2. ASSUME NEW v \in Worker \ {w} PROVE AnswerHolds(v)'
    BY <1>2, AnswerKept DEF KeepInv
  <1> QED
    BY <1>1, <1>2 DEF KeepInv

\* A thread that works on a content alone leaves the answers of all others as
\* they are: they are about other contents.
LEMMA OthersKeep ==
  ASSUME TypeOK, KeepInv, OnePerContent, NEW w \in Worker, Relies(w, op[w].content),
         op[w].content \in Content,
         NEW v \in Worker \ {w}, pc'[v] = pc[v], op'[v] = op[v],
         \A r \in rows' : r.content # op[w].content => r \in rows,
         \A c \in Content \ {op[w].content} : c \in disk => c \in disk'
  PROVE  AnswerHolds(v)'
  <1>1. CASE pc[v] \notin Relying
    BY <1>1, NoAnswerNext
  <1>2. CASE pc[v] \in Relying
    <2>1. op[v].content # op[w].content
      BY <1>2 DEF OnePerContent, Relies
    <2>2. op[v].content \in disk => op[v].content \in Content
      BY DEF TypeOK
    <2>3. op[v].content \in disk => op[v].content \in disk'
      BY <2>1, <2>2
    <2>4. \A r \in rows' : r.content = op[v].content => r \in rows
      BY <2>1
    <2>5. AnswerHolds(v)
      BY DEF KeepInv
    <2> QED
      BY <2>3, <2>4, <2>5, AnswerKept
  <1> QED
    BY <1>1, <1>2

\* Requests, queries and walks rely on nothing yet.
LEMMA KeptByQueries ==
  ASSUME TypeOK, KeepInv, NEW w \in Worker,
         \/ RequestUpload(w) \/ RequestDelete(w) \/ GetIsEnoughSpace(w) \/ Charge(w)
         \/ GetFileMd5(w) \/ SelectChildren(w) \/ DeleteChild(w) \/ DeleteDirRow(w)
  PROVE  KeepInv'
  <1>1. \A v \in Worker \ {w} : pc'[v] = pc[v] /\ op'[v] = op[v]
    BY OthersStay DEF Upload, InsertFileData, DeleteOneFile, DeleteOneDir
  <1>2. pc'[w] \notin Relying
    BY DEF RequestUpload, RequestDelete, Request, GetIsEnoughSpace, Charge, GetFileMd5,
         SelectChildren, DeleteChild, DeleteDirRow, At, Done, Goto, TypeOK, Relying
  <1>3. rows' \subseteq rows /\ disk \subseteq disk'
    BY DEF RequestUpload, RequestDelete, Request, GetIsEnoughSpace, Charge, GetFileMd5,
         SelectChildren, DeleteChild, DeleteDirRow
  <1> QED
    BY <1>1, <1>2, <1>3, NoAnswerNext, KeptAside

\* A new folder has no content.
LEMMA KeptByCreateDir ==
  ASSUME TypeOK, KeepInv, NEW w \in Worker, RequestCreateDir(w)
  PROVE  KeepInv'
  <1>1. \A v \in Worker \ {w} : pc'[v] = pc[v] /\ op'[v] = op[v]
    BY OthersStay
  <1>2. pc'[w] = "newid" /\ op'[w].content = Dir /\ UNCHANGED <<rows, disk>>
    BY DEF RequestCreateDir, Request, Goto, TypeOK, NoOp
  <1>3. AnswerHolds(w)'
    BY <1>2 DEF AnswerHolds
  <1> QED
    BY <1>1, <1>2, <1>3, KeptAside

\* An upload asks whether the content is there, and makes its file if it is not.
LEMMA KeptByUpload ==
  ASSUME TypeOK, KeepInv, OnePerContent, NEW w \in Worker,
         GetFileExist(w) \/ Open(w) \/ Transferred(w) \/ Abandoned(w)
  PROVE  KeepInv'
  <1>1. \A v \in Worker \ {w} : pc'[v] = pc[v] /\ op'[v] = op[v]
    BY OthersStay DEF Upload
  <1>2. op[w].content \in Content /\ op[w].content # Dir /\ AnswerHolds(w)
    BY DirAssumption DEF GetFileExist, Open, Transferred, Abandoned, At, TypeOK, OpOK,
       WithContent, KeepInv
  <1>3. CASE GetFileExist(w)
    <2>1. UNCHANGED <<rows, disk, op>>
      BY <1>3 DEF GetFileExist
    <2>2. RowsOf(op[w].content) # {} => op[w].content \in disk
      BY <1>2 DEF RowsOf, KeepInv, RowsHaveFile
    <2>3. pc'[w] = IF RowsOf(op[w].content) # {} THEN "newid" ELSE "open"
      BY <1>3 DEF GetFileExist, Goto, TypeOK
    <2>4. RowsOf(op[w].content)' = RowsOf(op[w].content)
      BY <2>1 DEF RowsOf
    <2>5. AnswerHolds(w)'
      BY <2>1, <2>2, <2>3, <2>4 DEF AnswerHolds
    <2> QED
      BY <1>1, <2>1, <2>5, KeptAside
  <1>4. CASE Open(w)
    <2>1. UNCHANGED rows /\ disk \subseteq disk' /\ pc[w] = "open"
      BY <1>4 DEF Open, At
    <2>2. CASE op[w].content \in disk
      <3>1. pc'[w] = "idle"
        BY <1>4, <2>2 DEF Open, Done, Goto, TypeOK
      <3>2. AnswerHolds(w)'
        BY <3>1, NoAnswerNext DEF Relying
      <3> QED
        BY <1>1, <2>1, <3>2, KeptAside
    <2>3. CASE op[w].content \notin disk
      <3>1. pc'[w] = "transfer" /\ UNCHANGED op /\ op[w].content \in disk'
        BY <1>4, <2>3 DEF Open, Goto, TypeOK
      <3>2. RowsOf(op[w].content)' = {}
        BY <1>2, <2>1, <3>1 DEF AnswerHolds, RowsOf
      <3>3. AnswerHolds(w)'
        BY <3>1, <3>2 DEF AnswerHolds
      <3> QED
        BY <1>1, <2>1, <3>3, KeptAside
    <2> QED
      BY <2>2, <2>3
  <1>5. CASE Transferred(w)
    <2>1. UNCHANGED <<rows, disk, op>> /\ pc[w] = "transfer" /\ pc'[w] = "newid"
      BY <1>5 DEF Transferred, At, Goto, TypeOK
    <2>2. AnswerHolds(w)'
      BY <1>2, <2>1 DEF AnswerHolds
    <2> QED
      BY <1>1, <2>1, <2>2, KeptAside
  <1>6. CASE Abandoned(w)
    <2>1. UNCHANGED rows /\ disk' = disk \ {op[w].content} /\ pc[w] = "transfer" /\ pc'[w] = "idle"
      BY <1>6 DEF Abandoned, At, Done, Goto, TypeOK
    <2>2. RowsHaveFile'
      BY <1>2, <2>1 DEF AnswerHolds, RowsOf, KeepInv, RowsHaveFile
    <2>3. Relies(w, op[w].content)
      BY <2>1 DEF Relies, Relying
    <2>4. ASSUME NEW v \in Worker \ {w} PROVE AnswerHolds(v)'
      BY <1>1, <1>2, <2>1, <2>3, <2>4, OthersKeep
    <2>5. AnswerHolds(w)'
      BY <2>1, NoAnswerNext DEF Relying
    <2> QED
      BY <2>2, <2>4, <2>5 DEF KeepInv
  <1> QED
    BY <1>3, <1>4, <1>5, <1>6

\* A row is inserted for a content whose file is there.
LEMMA KeptByInsert ==
  ASSUME TypeOK, KeepInv, OnePerContent, NEW w \in Worker, SelectNextId(w) \/ InsertRow(w)
  PROVE  KeepInv'
  <1>1. \A v \in Worker \ {w} : pc'[v] = pc[v] /\ op'[v] = op[v]
    BY OthersStay DEF InsertFileData
  <1>2. AnswerHolds(w)
    BY DEF KeepInv
  <1>3. CASE SelectNextId(w)
    <2>1. UNCHANGED <<rows, disk>> /\ pc[w] = "newid" /\ pc'[w] = "insert"
      BY <1>3 DEF SelectNextId, At, Goto, TypeOK
    <2>2. op'[w].content = op[w].content
      BY <1>3 DEF SelectNextId, TypeOK
    <2>3. AnswerHolds(w)'
      BY <1>2, <2>1, <2>2 DEF AnswerHolds
    <2> QED
      BY <1>1, <2>1, <2>3, KeptAside
  <1>4. CASE InsertRow(w)
    <2>1. UNCHANGED disk /\ pc[w] = "insert" /\ pc'[w] \in {"idle", "charge"}
      BY <1>4 DEF InsertRow, At, Done, Goto, TypeOK
    <2>2. AnswerHolds(w)'
      BY <2>1, NoAnswerNext DEF Relying
    <2>3. \A r \in rows' : r \in rows \/ r.content = op[w].content
      BY <1>4 DEF InsertRow
    <2>4. RowsHaveFile'
      BY <1>2, <2>1, <2>3 DEF KeepInv, RowsHaveFile, AnswerHolds
    <2>5. CASE op[w].content = Dir
      <3>1. ASSUME NEW v \in Worker \ {w} PROVE AnswerHolds(v)'
        <4>1. CASE pc[v] \in WithContent
          <5>1. op[v].content # Dir
            BY <4>1, DirAssumption DEF TypeOK, OpOK
          <5>2. \A r \in rows' : r.content = op[v].content => r \in rows
            BY <2>3, <2>5, <5>1
          <5> QED
            BY <1>1, <2>1, <3>1, <5>2, AnswerKept DEF KeepInv
        <4>2. CASE pc[v] \notin WithContent
          BY <1>1, <2>1, <3>1, <4>2 DEF WithContent, AnswerHolds, KeepInv
        <4> QED
          BY <4>1, <4>2
      <3> QED
        BY <2>2, <2>4, <3>1 DEF KeepInv
    <2>6. CASE op[w].content # Dir
      <3>1. op[w].content \in Content /\ Relies(w, op[w].content)
        BY <2>1, <2>6 DEF TypeOK, Op, Relies, Relying
      <3>2. \A v \in Worker \ {w} : AnswerHolds(v)'
        BY <1>1, <2>1, <2>3, <3>1, OthersKeep
      <3> QED
        BY <2>2, <2>4, <3>2 DEF KeepInv
    <2> QED
      BY <2>5, <2>6
  <1> QED
    BY <1>3, <1>4

\* A deletion counts the rows, and removes the file with the last one.
LEMMA KeptByDelete ==
  ASSUME TypeOK, KeepInv, OnePerContent, NEW w \in Worker,
         CountRows(w) \/ DeleteRow(w) \/ Credit(w) \/ RemoveFile(w)
  PROVE  KeepInv'
  <1>1. \A v \in Worker \ {w} : pc'[v] = pc[v] /\ op'[v] = op[v]
    BY OthersStay DEF DeleteOneFile
  <1>2. op[w].content \in Content /\ op[w].content # Dir /\ AnswerHolds(w)
    BY DirAssumption DEF CountRows, DeleteRow, Credit, RemoveFile, At, TypeOK, OpOK,
       WithContent, KeepInv
  <1>3. CASE CountRows(w)
    <2>1. UNCHANGED <<rows, disk>>
      BY <1>3 DEF CountRows
    <2> DEFINE n == Cardinality(RowsOf(op[w].content))
    <2>2. CASE n = 0
      <3>1. pc'[w] \notin Relying
        BY <1>3, <2>2 DEF CountRows, Done, Goto, TypeOK, Relying
      <3> QED
        BY <1>1, <2>1, <3>1, NoAnswerNext, KeptAside
    <2>3. CASE n # 0
      <3>1. op' = [op EXCEPT ![w].last = (n = 1)] /\ Goto(w, "delete")
        BY <1>3, <2>3 DEF CountRows
      <3>2. /\ pc'[w] = "delete" /\ op'[w].content = op[w].content
            /\ op'[w].last => n = 1
        <4> HIDE DEF n
        <4> QED
          BY <3>1 DEF Goto, TypeOK, Op
      <3>3. n = 1 => \A r, s \in RowsOf(op[w].content) : r = s
        <4> SUFFICES ASSUME n = 1 PROVE \A r, s \in RowsOf(op[w].content) : r = s
          OBVIOUS
        <4>1. IsFiniteSet(RowsOf(op[w].content))
          BY <1>2, Counts
        <4>2. \E x : RowsOf(op[w].content) = {x}
          BY <4>1, FS_Singleton
        <4> QED
          BY <4>2
      <3>4. RowsOf(op[w].content)' = RowsOf(op[w].content)
        BY <2>1, <3>2 DEF RowsOf
      <3>5. AnswerHolds(w)'
        BY <3>2, <3>3, <3>4 DEF AnswerHolds
      <3> QED
        BY <1>1, <2>1, <3>5, KeptAside
    <2> QED
      BY <2>2, <2>3
  <1>4. CASE DeleteRow(w)
    <2>1. UNCHANGED disk /\ rows' = rows \ Matched(w) /\ pc[w] = "delete"
      BY <1>4 DEF DeleteRow, At
    <2>2. AnswerHolds(w)'
      <3>1. CASE ~Deleted(w)
        <4>1. pc'[w] = "idle"
          BY <1>4, <3>1 DEF DeleteRow, Done, Goto, TypeOK
        <4> QED
          BY <4>1, NoAnswerNext DEF Relying
      <3>2. CASE Deleted(w)
        <4>1. pc'[w] = "credit" /\ op'[w] = op[w]
          BY <1>4, <3>2 DEF DeleteRow, Goto, TypeOK
        <4>2. PICK r \in Matched(w) : TRUE
          BY <3>2 DEF Deleted
        <4>3. r \in RowsOf(op[w].content)
          BY <4>2 DEF Matched, RowsOf
        <4>4. op[w].last => RowsOf(op[w].content)' = {}
          <5> SUFFICES ASSUME op[w].last, NEW s \in rows', s.content = op[w].content
                       PROVE  FALSE
            BY <4>1 DEF RowsOf
          <5>1. s \in RowsOf(op[w].content)
            BY <2>1 DEF RowsOf
          <5>2. s = r
            BY <1>2, <2>1, <4>3, <5>1 DEF AnswerHolds
          <5> QED
            BY <2>1, <4>2, <5>2
        <4> QED
          BY <4>1, <4>4 DEF AnswerHolds
      <3> QED
        BY <3>1, <3>2
    <2> QED
      BY <1>1, <2>1, <2>2, KeptAside
  <1>5. CASE Credit(w)
    <2>1. UNCHANGED <<rows, disk>> /\ pc[w] = "credit"
      BY <1>5 DEF Credit, At
    <2>2. AnswerHolds(w)'
      <3>1. CASE op[w].last
        <4>1. pc'[w] = "remove" /\ op'[w] = op[w]
          BY <1>5, <3>1 DEF Credit, Goto, TypeOK
        <4>2. RowsOf(op[w].content)' = {}
          BY <1>2, <2>1, <3>1, <4>1 DEF AnswerHolds, RowsOf
        <4> QED
          BY <4>1, <4>2 DEF AnswerHolds
      <3>2. CASE ~op[w].last
        <4>1. pc'[w] \in {"idle", "walk"}
          BY <1>5, <3>2 DEF Credit, Succeed, Done, Goto, TypeOK
        <4> QED
          BY <4>1, NoAnswerNext DEF Relying
      <3> QED
        BY <3>1, <3>2
    <2> QED
      BY <1>1, <2>1, <2>2, KeptAside
  <1>6. CASE RemoveFile(w)
    <2>1. UNCHANGED rows /\ disk' = disk \ {op[w].content} /\ pc[w] = "remove"
      BY <1>6 DEF RemoveFile, At
    <2>2. RowsHaveFile'
      BY <1>2, <2>1 DEF AnswerHolds, RowsOf, KeepInv, RowsHaveFile
    <2>3. Relies(w, op[w].content)
      BY <2>1 DEF Relies, Relying
    <2>4. ASSUME NEW v \in Worker \ {w} PROVE AnswerHolds(v)'
      BY <1>1, <1>2, <2>1, <2>3, <2>4, OthersKeep
    <2>5. AnswerHolds(w)'
      <3>1. pc'[w] \in {"idle", "walk"}
        BY <1>6 DEF RemoveFile, Succeed, Done, Goto, TypeOK
      <3> QED
        BY <3>1, NoAnswerNext DEF Relying
    <2> QED
      BY <2>2, <2>4, <2>5 DEF KeepInv
  <1> QED
    BY <1>3, <1>4, <1>5, <1>6

LEMMA KeepInit == Init => KeepInv
  BY NoAnswer DEF Init, KeepInv, RowsHaveFile, Relying

LEMMA KeepStep == TypeOK /\ KeepInv /\ OnePerContent /\ [Next]_vars => KeepInv'
  <1> SUFFICES ASSUME TypeOK, KeepInv, OnePerContent, [Next]_vars PROVE KeepInv'
    OBVIOUS
  <1>1. ASSUME NEW w \in Worker,
               \/ Upload(w) \/ RequestCreateDir(w) \/ RequestDelete(w)
               \/ InsertFileData(w) \/ DeleteOneFile(w) \/ DeleteOneDir(w)
        PROVE  KeepInv'
    BY <1>1, KeptByQueries, KeptByCreateDir, KeptByUpload, KeptByInsert, KeptByDelete
       DEF Upload, InsertFileData, DeleteOneFile, DeleteOneDir
  <1>2. CASE UNCHANGED vars
    BY <1>2 DEF vars, KeepInv, RowsHaveFile, AnswerHolds, RowsOf
  <1> QED
    BY <1>1, <1>2 DEF Next

\* What would be enough to make MyDB.cpp's claim true: as long as no two threads
\* rely on answers about the same content at a time, every recorded content has its
\* file, however requests about different contents, deletions of folders and stale
\* views overlap.
THEOREM OnePerContentKeepsFile == Spec /\ []OnePerContent => []RecordedKeepsFile
  <1>1. KeepInv => RecordedKeepsFile
    BY DEF KeepInv, RowsHaveFile, RecordedKeepsFile
  <1> QED
    BY <1>1, KeepInit, KeepStep, AccountTypes, PTL DEF Spec

-----------------------------------------------------------------------------
(* The limit of the account.  The check of the space and the charge are far    *)
(* apart; uploads that overlap all pass the check and go beyond the limit, and *)
(* IsEnoughSpace then wraps.  It does not when uploads of one user take turns. *)

\* The sum over the contents, taken one at a time.
Pick(s) == CHOOSE x \in s : TRUE

IsSum(it, ch) ==
  it = [s \in SUBSET Content |->
          IF s = {} THEN 0 ELSE ch[Pick(s)] * Size[Pick(s)] + it[s \ {Pick(s)}]]

\* it is the sum for sets of up to n contents.
SumsUpTo(it, ch, n) ==
  \A s \in SUBSET Content : Cardinality(s) <= n =>
    it[s] = IF s = {} THEN 0 ELSE ch[Pick(s)] * Size[Pick(s)] + it[s \ {Pick(s)}]

LEMMA PickOne ==
  ASSUME NEW s \in SUBSET Content, s # {}
  PROVE  /\ Pick(s) \in s /\ Pick(s) \in Content
         /\ s \ {Pick(s)} \in SUBSET Content
         /\ Cardinality(s) \in Nat /\ Cardinality(s) # 0
         /\ Cardinality(s \ {Pick(s)}) = Cardinality(s) - 1
         /\ Cardinality(s \ {Pick(s)}) \in Nat
  <1>1. Pick(s) \in s
    BY DEF Pick
  <1>2. IsFiniteSet(s)
    BY FS_Subset, AccountAssumption
  <1>3. Cardinality(s \ {Pick(s)}) = Cardinality(s) - 1 /\ IsFiniteSet(s \ {Pick(s)})
    BY <1>1, <1>2, FS_RemoveElement
  <1>4. Cardinality(s) \in Nat /\ Cardinality(s \ {Pick(s)}) \in Nat
    BY <1>2, <1>3, FS_CardinalityType
  <1>5. Cardinality(s) # 0
    BY <1>3, <1>4
  <1> QED
    BY <1>1, <1>3, <1>4, <1>5

\* A product of two numbers is one.
LEMMA Product ==
  ASSUME NEW a \in Int, NEW b \in Int
  PROVE  a * b \in Int /\ (a + 1) * b = a * b + b /\ (a - 1) * b = a * b - b
  OBVIOUS

LEMMA Term ==
  ASSUME NEW ch \in [Content -> Int], NEW c \in Content
  PROVE  ch[c] * Size[c] \in Int
  BY Product, AccountAssumption

LEMMA SmallestOf ==
  ASSUME NEW T \in SUBSET Nat, NEW n \in T
  PROVE  \E k \in T : \A m \in T : k <= m
  <1>1. \E k \in T : \A m \in T : ~(<<m, k>> \in OpToRel(<, Nat))
    BY NatLessThanWellFounded, WFMin
  <1>2. \A k, m \in Nat : ~(<<m, k>> \in OpToRel(<, Nat)) => k <= m
    BY DEF OpToRel
  <1> QED
    BY <1>1, <1>2

LEMMA SumsUpToAny ==
  ASSUME NEW ch \in [Content -> Int], NEW n \in Nat
  PROVE  \E it \in [SUBSET Content -> Int] : SumsUpTo(it, ch, n)
  <1> DEFINE Bad == {m \in Nat : ~\E it \in [SUBSET Content -> Int] : SumsUpTo(it, ch, m)}
  <1> SUFFICES ASSUME n \in Bad PROVE FALSE
    OBVIOUS
  <1>1. PICK k \in Bad : \A m \in Bad : k <= m
    BY SmallestOf
  <1>2. k # 0
    <2> DEFINE it == [s \in SUBSET Content |-> 0]
    <2>1. it \in [SUBSET Content -> Int]
      OBVIOUS
    <2>2. ASSUME NEW s \in SUBSET Content, Cardinality(s) <= 0 PROVE s = {}
      <3> SUFFICES ASSUME s # {} PROVE FALSE
        OBVIOUS
      <3>1. Cardinality(s) \in Nat /\ Cardinality(s) # 0
        BY PickOne
      <3> QED
        BY <2>2, <3>1
    <2>3. SumsUpTo(it, ch, 0)
      BY <2>2 DEF SumsUpTo
    <2> QED
      BY <2>1, <2>3
  <1>3. k - 1 \in Nat /\ k - 1 \notin Bad
    <2> HIDE DEF Bad
    <2>1. k \in Nat
      BY <1>1 DEF Bad
    <2>2. k - 1 \in Nat /\ ~(k <= k - 1)
      BY <1>2, <2>1
    <2> QED
      BY <1>1, <2>2
  <1>4. PICK it \in [SUBSET Content -> Int] : SumsUpTo(it, ch, k - 1)
    BY <1>3
  <1> DEFINE StepOf(s) == IF s = {} THEN 0 ELSE ch[Pick(s)] * Size[Pick(s)] + it[s \ {Pick(s)}]
             more == [s \in SUBSET Content |-> StepOf(s)]
  <1>5. \A s \in SUBSET Content : StepOf(s) \in Int
    <2> SUFFICES ASSUME NEW s \in SUBSET Content, s # {} PROVE StepOf(s) \in Int
      OBVIOUS
    <2>1. ch[Pick(s)] * Size[Pick(s)] \in Int
      BY PickOne, Term
    <2>2. it[s \ {Pick(s)}] \in Int
      BY PickOne
    <2> QED
      BY <2>1, <2>2
  <1>6. more \in [SUBSET Content -> Int]
    BY <1>5
  <1>7. ASSUME NEW s \in SUBSET Content, Cardinality(s) <= k - 1
        PROVE  more[s] = it[s]
    BY <1>4, <1>7 DEF SumsUpTo
  <1>8. SumsUpTo(more, ch, k)
    <2> SUFFICES ASSUME NEW s \in SUBSET Content, Cardinality(s) <= k, s # {}
                 PROVE  more[s] = ch[Pick(s)] * Size[Pick(s)] + more[s \ {Pick(s)}]
      BY DEF SumsUpTo
    <2>1. Cardinality(s \ {Pick(s)}) <= k - 1 /\ s \ {Pick(s)} \in SUBSET Content
      BY <1>1, PickOne
    <2>2. more[s \ {Pick(s)}] = it[s \ {Pick(s)}]
      BY <1>7, <2>1
    <2>3. more[s] = StepOf(s)
      OBVIOUS
    <2> QED
      BY <2>2, <2>3
  <1> QED
    BY <1>1, <1>6, <1>8

\* So the recursive definition of the sum has a value.
TotalOf(ch) == CHOOSE it : IsSum(it, ch)

LEMMA SumExists ==
  ASSUME NEW ch \in [Content -> Int]
  PROVE  IsSum(TotalOf(ch), ch)
  <1> DEFINE n == Cardinality(Content)
  <1>1. n \in Nat
    BY AccountAssumption, FS_CardinalityType
  <1>2. PICK it \in [SUBSET Content -> Int] : SumsUpTo(it, ch, n)
    BY <1>1, SumsUpToAny
  <1>3. \A s \in SUBSET Content : Cardinality(s) <= n
    BY AccountAssumption, FS_Subset
  <1>4. IsSum(it, ch)
    <2>1. \A s \in SUBSET Content :
            it[s] = IF s = {} THEN 0 ELSE ch[Pick(s)] * Size[Pick(s)] + it[s \ {Pick(s)}]
      BY <1>2, <1>3 DEF SumsUpTo
    <2> QED
      BY <2>1 DEF IsSum
  <1> QED
    BY <1>4 DEF TotalOf

LEMMA SumOf ==
  ASSUME NEW ch \in [Content -> Int], NEW s \in SUBSET Content
  PROVE  TotalOf(ch)[s] = IF s = {} THEN 0
                      ELSE ch[Pick(s)] * Size[Pick(s)] + TotalOf(ch)[s \ {Pick(s)}]
  <1> DEFINE it == TotalOf(ch)
  <1>1. IsSum(it, ch)
    BY SumExists
  <1> HIDE DEF it
  <1>2. it[s] = IF s = {} THEN 0 ELSE ch[Pick(s)] * Size[Pick(s)] + it[s \ {Pick(s)}]
    BY <1>1 DEF IsSum
  <1> QED
    BY <1>2 DEF it

\* A sum of which one term changes by d changes by d.
LEMMA SumChanges ==
  ASSUME NEW old \in [Content -> Int], NEW new \in [Content -> Int],
         NEW c \in Content, NEW d \in Int,
         \A x \in Content \ {c} : new[x] = old[x],
         new[c] * Size[c] = old[c] * Size[c] + d,
         NEW s \in SUBSET Content
  PROVE  /\ TotalOf(old)[s] \in Int
         /\ TotalOf(new)[s] = TotalOf(old)[s] + (IF c \in s THEN d ELSE 0)
  <1> DEFINE Holds(t) == /\ TotalOf(old)[t] \in Int
                         /\ TotalOf(new)[t] = TotalOf(old)[t] + (IF c \in t THEN d ELSE 0)
             Bad == {m \in Nat : \E t \in SUBSET Content : Cardinality(t) = m /\ ~Holds(t)}
  <1>0. \A t \in SUBSET Content : Cardinality(t) \in Nat
    BY FS_Subset, AccountAssumption, FS_CardinalityType
  <1> SUFFICES ASSUME ~Holds(s) PROVE FALSE
    OBVIOUS
  <1>1. PICK k \in Bad : \A m \in Bad : k <= m
    <2>1. Cardinality(s) \in Bad /\ Bad \in SUBSET Nat
      BY <1>0
    <2> QED
      BY <2>1, SmallestOf
  <1>2. PICK t \in SUBSET Content : Cardinality(t) = k /\ ~Holds(t)
    BY <1>1
  <1>3. t # {}
    <2>1. TotalOf(old)[{}] = 0 /\ TotalOf(new)[{}] = 0
      BY SumOf
    <2> SUFFICES ASSUME t = {} PROVE FALSE
      OBVIOUS
    <2>2. Holds({})
      BY <2>1
    <2> QED
      BY <1>2, <2>2
  <1> DEFINE r == t \ {Pick(t)}
             x == Pick(t)
  <1>4. /\ x \in t /\ x \in Content /\ r \in SUBSET Content
        /\ Cardinality(r) = k - 1 /\ Cardinality(r) \in Nat /\ k \in Nat
    BY <1>2, <1>3, PickOne
  <1>5. Cardinality(r) \notin Bad
    BY <1>1, <1>4
  <1>6. Holds(r)
    BY <1>4, <1>5
  <1>7. /\ TotalOf(old)[t] = old[x] * Size[x] + TotalOf(old)[r]
        /\ TotalOf(new)[t] = new[x] * Size[x] + TotalOf(new)[r]
    BY <1>3, SumOf
  <1>8. old[x] * Size[x] \in Int /\ new[x] * Size[x] \in Int
    BY <1>4, Term
  <1>9. new[x] * Size[x] = old[x] * Size[x] + (IF x = c THEN d ELSE 0)
    <2>1. CASE x = c
      BY <2>1
    <2>2. CASE x # c
      <3>1. new[x] = old[x]
        BY <1>4, <2>2
      <3> QED
        BY <1>8, <2>2, <3>1
    <2> QED
      BY <2>1, <2>2
  <1>10. c \in t <=> (c \in r \/ x = c)
    BY <1>4
  <1>11. ~(c \in r /\ x = c)
    OBVIOUS
  <1> DEFINE a == old[x] * Size[x]
             b == new[x] * Size[x]
             so == TotalOf(old)[r]
             sn == TotalOf(new)[r]
             to == TotalOf(old)[t]
             tn == TotalOf(new)[t]
  <1>12. /\ a \in Int /\ b \in Int /\ so \in Int
         /\ sn = so + (IF c \in r THEN d ELSE 0)
         /\ to = a + so /\ tn = b + sn
         /\ b = a + (IF x = c THEN d ELSE 0)
    BY <1>6, <1>7, <1>8, <1>9
  <1>13. to \in Int /\ tn = to + (IF c \in t THEN d ELSE 0)
    <2> HIDE DEF a, b, so, sn, to, tn, x, r
    <2>1. CASE c \in r
      BY <1>10, <1>11, <1>12, <2>1
    <2>2. CASE x = c
      BY <1>10, <1>11, <1>12, <2>2
    <2>3. CASE c \notin r /\ x # c
      BY <1>10, <1>12, <2>3
    <2> QED
      BY <2>1, <2>2, <2>3
  <1> QED
    BY <1>2, <1>13

LEMMA UsedIs == Used = TotalOf(charged)[Content]
  BY DEF Used, MapThenSumSet, MapThenFoldSet, TotalOf, IsSum, Pick

\* Charging for a content uses its bytes more, crediting it less.
LEMMA UsedChanges ==
  ASSUME TypeOK, NEW c \in Content, NEW d \in {1, -1},
         charged' = [charged EXCEPT ![c] = @ + d]
  PROVE  Used \in Int /\ Size[c] \in Nat /\ Used' = Used + d * Size[c]
  <1> DEFINE new == charged'
  <1>1. charged \in [Content -> Int] /\ Size[c] \in Nat
    BY AccountAssumption DEF TypeOK
  <1>2. new \in [Content -> Int] /\ new[c] = charged[c] + d
        /\ \A x \in Content \ {c} : new[x] = charged[x]
    BY <1>1
  <1>3. charged[c] \in Int /\ Size[c] \in Int /\ d * Size[c] \in Int
    BY <1>1
  <1>4. new[c] * Size[c] = charged[c] * Size[c] + d * Size[c]
    BY <1>2, <1>3, Product
  <1>5. Used' = TotalOf(new)[Content]
    BY DEF Used, MapThenSumSet, MapThenFoldSet, TotalOf, IsSum, Pick
  <1> HIDE DEF new
  <1>6. TotalOf(charged)[Content] \in Int /\ TotalOf(new)[Content] = TotalOf(charged)[Content] + d * Size[c]
    BY <1>1, <1>2, <1>3, <1>4, SumChanges
  <1> QED
    BY <1>1, <1>5, <1>6, UsedIs

\* Steps of an upload that has passed the check and is not charged for.
Admitted == {"exist", "open", "transfer", "newid", "insert", "charge"}

Uploads(w) == pc[w] \in Admitted /\ op[w].content # Dir

OneUpload == \A v, w \in Worker : Uploads(v) /\ Uploads(w) => v = w

WithinCapacity == Used <= Capacity

LimitInv ==
  /\ WithinCapacity
  /\ \A w \in Worker : Uploads(w) => Used + Size[op[w].content] <= Capacity

LEMMA UsedType ==
  ASSUME TypeOK
  PROVE  Used \in Int /\ \A c \in Content : Size[c] \in Nat
  <1>1. charged \in [Content -> Int] /\ \A c \in Content : Size[c] \in Nat
    BY AccountAssumption DEF TypeOK
  <1>2. CASE Content = {}
    <2>1. TotalOf(charged)[Content] = 0
      BY <1>1, <1>2, SumOf
    <2> QED
      BY <1>1, <2>1, UsedIs
  <1>3. ASSUME NEW c \in Content PROVE TotalOf(charged)[Content] \in Int
    <2>1. charged[c] * Size[c] = charged[c] * Size[c] + 0
      BY <1>1, Term
    <2> QED
      BY <1>1, <2>1, SumChanges
  <1> QED
    BY <1>1, <1>2, <1>3, UsedIs

LEMMA UsedSame ==
  ASSUME UNCHANGED charged
  PROVE  Used' = Used
  <1>1. Used' = TotalOf(charged')[Content]
    BY DEF Used, MapThenSumSet, MapThenFoldSet, TotalOf, IsSum, Pick
  <1> QED
    BY <1>1, UsedIs

\* A step that charges nothing and admits no upload.
LEMMA LimitAside ==
  ASSUME TypeOK, LimitInv, NEW w \in Worker, UNCHANGED charged,
         \A v \in Worker \ {w} : pc'[v] = pc[v] /\ op'[v] = op[v],
         Uploads(w)' => Uploads(w) /\ op'[w].content = op[w].content
  PROVE  LimitInv'
  <1>1. Used' = Used
    BY UsedSame
  <1>2. ASSUME NEW v \in Worker, Uploads(v)'
        PROVE  Uploads(v) /\ op'[v].content = op[v].content
    BY <1>2 DEF Uploads
  <1> QED
    BY <1>1, <1>2 DEF LimitInv, WithinCapacity

LEMMA LimitAdmits ==
  ASSUME TypeOK, LimitInv, NEW w \in Worker, GetIsEnoughSpace(w)
  PROVE  LimitInv'
  <1>1. \A v \in Worker \ {w} : pc'[v] = pc[v] /\ op'[v] = op[v]
    BY OthersStay DEF Upload
  <1>2. UNCHANGED charged /\ op[w].content \in Content
    BY DEF GetIsEnoughSpace, At, TypeOK, OpOK, WithContent
  <1>3. CASE ~IsEnoughSpace(op[w].content)
    <2>1. pc'[w] = "idle"
      BY <1>3 DEF GetIsEnoughSpace, Done, Goto, TypeOK
    <2>2. ~Uploads(w)'
      BY <2>1 DEF Uploads, Admitted
    <2> QED
      BY <1>1, <1>2, <2>2, LimitAside
  <1>4. CASE IsEnoughSpace(op[w].content)
    <2>1. UNCHANGED op
      BY <1>4 DEF GetIsEnoughSpace
    <2>2. Used' = Used
      BY <1>2, UsedSame
    <2>3. Used \in Int /\ Size[op[w].content] \in Nat /\ Capacity \in Nat
      BY <1>2, UsedType, AccountAssumption
    <2>4. Used + Size[op[w].content] <= Capacity
      <3>1. Used <= Capacity /\ (Used > Capacity \/ Capacity - Used >= Size[op[w].content])
        BY <1>4 DEF LimitInv, WithinCapacity, IsEnoughSpace
      <3> QED
        BY <2>3, <3>1
    <2>5. ASSUME NEW v \in Worker, Uploads(v)'
          PROVE  Used' + Size[op'[v].content] <= Capacity
      <3>1. CASE v = w
        BY <2>1, <2>2, <2>4, <3>1
      <3>2. CASE v # w
        BY <1>1, <2>2, <2>5, <3>2 DEF LimitInv, Uploads
      <3> QED
        BY <3>1, <3>2
    <2> QED
      BY <2>2, <2>5 DEF LimitInv, WithinCapacity
  <1> QED
    BY <1>3, <1>4

LEMMA LimitCharge ==
  ASSUME TypeOK, LimitInv, OneUpload, NEW w \in Worker, Charge(w)
  PROVE  LimitInv'
  <1> DEFINE c == op[w].content
  <1>1. \A v \in Worker \ {w} : pc'[v] = pc[v] /\ op'[v] = op[v]
    BY OthersStay DEF InsertFileData
  <1>2. c \in Content /\ Uploads(w) /\ pc'[w] = "idle"
    BY DirAssumption DEF Charge, At, Done, Goto, TypeOK, OpOK, WithContent, Uploads, Admitted
  <1>3. charged' = [charged EXCEPT ![c] = @ + 1]
    BY DEF Charge
  <1>4. Used \in Int /\ Size[c] \in Nat /\ Used' = Used + 1 * Size[c]
    BY <1>2, <1>3, UsedChanges
  <1>5. Used + Size[c] <= Capacity
    BY <1>2 DEF LimitInv
  <1>6. Used' <= Capacity
    <2> HIDE DEF c
    <2> QED
      BY <1>4, <1>5
  <1>7. \A v \in Worker : ~Uploads(v)'
    BY <1>1, <1>2 DEF OneUpload, Uploads, Admitted
  <1> QED
    BY <1>6, <1>7 DEF LimitInv, WithinCapacity

LEMMA LimitCredit ==
  ASSUME TypeOK, LimitInv, NEW w \in Worker, Credit(w)
  PROVE  LimitInv'
  <1> DEFINE c == op[w].content
  <1>1. \A v \in Worker \ {w} : pc'[v] = pc[v] /\ op'[v] = op[v]
    BY OthersStay DEF DeleteOneFile
  <1>2. c \in Content /\ pc'[w] \in {"idle", "walk", "remove"}
    BY DEF Credit, At, Succeed, Done, Goto, TypeOK, OpOK, WithContent
  <1>3. charged' = [charged EXCEPT ![c] = @ + (-1)]
    BY <1>2 DEF Credit, TypeOK
  <1>4. Used \in Int /\ Size[c] \in Nat /\ Used' = Used + (-1) * Size[c]
    BY <1>2, <1>3, UsedChanges
  <1>5. Used' \in Int /\ Used' <= Used
    <2> HIDE DEF c
    <2> QED
      BY <1>4
  <1>6. ASSUME NEW v \in Worker, Uploads(v)'
        PROVE  Used' + Size[op'[v].content] <= Capacity
    <2>1. v # w
      BY <1>2, <1>6 DEF Uploads, Admitted
    <2>2. Uploads(v) /\ op'[v] = op[v]
      BY <1>1, <1>6, <2>1 DEF Uploads
    <2>3. op[v].content \in Content
      BY <2>2 DEF TypeOK, Op, Uploads
    <2>4. Used + Size[op[v].content] <= Capacity /\ Size[op[v].content] \in Nat
      BY <2>2, <2>3, UsedType DEF LimitInv
    <2> QED
      BY <1>4, <1>5, <2>2, <2>4, AccountAssumption
  <1>7. Used' <= Capacity
    BY <1>4, <1>5, AccountAssumption DEF LimitInv, WithinCapacity
  <1> QED
    BY <1>6, <1>7 DEF LimitInv, WithinCapacity

\* Everything else charges nothing, and goes on with an upload or ends it.
LEMMA LimitOthers ==
  ASSUME TypeOK, LimitInv, NEW w \in Worker,
         \/ RequestUpload(w) \/ RequestCreateDir(w) \/ RequestDelete(w)
         \/ GetFileExist(w) \/ Open(w) \/ Transferred(w) \/ Abandoned(w)
         \/ SelectNextId(w) \/ InsertRow(w)
         \/ GetFileMd5(w) \/ CountRows(w) \/ DeleteRow(w) \/ RemoveFile(w) \/ DeleteOneDir(w)
  PROVE  LimitInv'
  <1>1. \A v \in Worker \ {w} : pc'[v] = pc[v] /\ op'[v] = op[v]
    BY OthersStay DEF Upload, InsertFileData, DeleteOneFile
  <1>2. UNCHANGED charged
    BY DEF RequestUpload, RequestCreateDir, RequestDelete, Request, GetFileExist, Open,
         Transferred, Abandoned, SelectNextId, InsertRow, GetFileMd5, CountRows, DeleteRow,
         RemoveFile, DeleteOneDir, SelectChildren, DeleteChild, DeleteDirRow
  <1>3. CASE RequestCreateDir(w)
    <2>1. op'[w].content = Dir
      BY <1>3 DEF RequestCreateDir, Request, TypeOK, NoOp
    <2>2. ~Uploads(w)'
      BY <2>1 DEF Uploads
    <2> QED
      BY <1>1, <1>2, <2>2, LimitAside
  <1>4. CASE \/ RequestUpload(w) \/ RequestDelete(w) \/ Abandoned(w) \/ GetFileMd5(w)
             \/ CountRows(w) \/ DeleteRow(w) \/ RemoveFile(w) \/ DeleteOneDir(w)
    <2>1. pc'[w] \notin Admitted
      BY <1>4 DEF RequestUpload, RequestDelete, Request, Abandoned, GetFileMd5, CountRows,
           DeleteRow, RemoveFile, DeleteOneDir, SelectChildren, DeleteChild, DeleteDirRow,
           Done, Succeed, Goto, At, TypeOK, Admitted
    <2>2. ~Uploads(w)'
      BY <2>1 DEF Uploads
    <2> QED
      BY <1>1, <1>2, <2>2, LimitAside
  <1>5. CASE GetFileExist(w) \/ Open(w) \/ Transferred(w) \/ SelectNextId(w) \/ InsertRow(w)
    <2>1. pc[w] \in Admitted
      BY <1>5 DEF GetFileExist, Open, Transferred, SelectNextId, InsertRow, At, Admitted
    <2>2. pc'[w] = "idle" \/ op'[w].content = op[w].content
      <3>1. CASE SelectNextId(w)
        BY <3>1 DEF SelectNextId, TypeOK
      <3>2. CASE GetFileExist(w) \/ Transferred(w)
        BY <3>2 DEF GetFileExist, Transferred
      <3>3. CASE Open(w) \/ InsertRow(w)
        BY <3>3 DEF Open, InsertRow, Done, Goto, TypeOK
      <3> QED
        BY <1>5, <3>1, <3>2, <3>3
    <2>3. Uploads(w)' => Uploads(w) /\ op'[w].content = op[w].content
      BY <2>1, <2>2 DEF Uploads, Admitted
    <2> QED
      BY <1>1, <1>2, <2>3, LimitAside
  <1> QED
    BY <1>3, <1>4, <1>5

LEMMA LimitInit == Init => LimitInv
  <1> SUFFICES ASSUME Init PROVE LimitInv
    OBVIOUS
  <1>1. TypeOK
    BY TypeInit
  <1>2. \A c \in Content : charged[c] = 0
    BY DEF Init
  <1> DEFINE Bad == {m \in Nat : \E t \in SUBSET Content :
                                   Cardinality(t) = m /\ TotalOf(charged)[t] # 0}
  <1>3. ASSUME NEW s \in SUBSET Content, TotalOf(charged)[s] # 0 PROVE FALSE
    <2>1. charged \in [Content -> Int] /\ \A c \in Content : Size[c] \in Nat
      BY <1>1, AccountAssumption DEF TypeOK
    <2>2. \A t \in SUBSET Content : Cardinality(t) \in Nat
      BY FS_Subset, AccountAssumption, FS_CardinalityType
    <2>3. PICK k \in Bad : \A m \in Bad : k <= m
      <3>1. Cardinality(s) \in Bad /\ Bad \in SUBSET Nat
        BY <1>3, <2>2
      <3> QED
        BY <3>1, SmallestOf
    <2>4. PICK t \in SUBSET Content : Cardinality(t) = k /\ TotalOf(charged)[t] # 0
      BY <2>3
    <2>5. t # {}
      BY <2>1, <2>4, SumOf
    <2> DEFINE r == t \ {Pick(t)}
    <2>6. /\ Pick(t) \in Content /\ r \in SUBSET Content
          /\ Cardinality(r) = k - 1 /\ Cardinality(r) \in Nat /\ k \in Nat
      BY <2>4, <2>5, PickOne
    <2>7. TotalOf(charged)[r] = 0
      <3>1. Cardinality(r) \notin Bad
        <4> HIDE DEF Bad
        <4>1. ~(k <= Cardinality(r))
          BY <2>6
        <4> QED
          BY <2>3, <4>1
      <3> QED
        BY <2>6, <3>1
    <2>8. charged[Pick(t)] * Size[Pick(t)] = 0
      BY <1>2, <2>1, <2>6
    <2>9. TotalOf(charged)[t] = charged[Pick(t)] * Size[Pick(t)] + TotalOf(charged)[r]
      BY <2>1, <2>5, SumOf
    <2> QED
      BY <2>4, <2>7, <2>8, <2>9
  <1>4. Used = 0
    BY <1>3, UsedIs
  <1> QED
    BY <1>4, AccountAssumption DEF Init, LimitInv, WithinCapacity, Uploads, Admitted

LEMMA LimitStep == TypeOK /\ LimitInv /\ OneUpload /\ [Next]_vars => LimitInv'
  <1> SUFFICES ASSUME TypeOK, LimitInv, OneUpload, [Next]_vars PROVE LimitInv'
    OBVIOUS
  <1>1. ASSUME NEW w \in Worker,
               \/ Upload(w) \/ RequestCreateDir(w) \/ RequestDelete(w)
               \/ InsertFileData(w) \/ DeleteOneFile(w) \/ DeleteOneDir(w)
        PROVE  LimitInv'
    BY <1>1, LimitAdmits, LimitCharge, LimitCredit, LimitOthers
       DEF Upload, InsertFileData, DeleteOneFile
  <1>2. CASE UNCHANGED vars
    <2>1. Used' = Used
      BY <1>2, UsedSame DEF vars
    <2> QED
      BY <1>2, <2>1 DEF vars, LimitInv, WithinCapacity, Uploads
  <1> QED
    BY <1>1, <1>2 DEF Next

\* As long as at most one upload of the user is between the check of the space and
\* its charge, the account stays within its capacity, so that the unsigned difference
\* of MyDB::getIsEnoughSpace never wraps.
THEOREM OneUploadStaysWithin == Spec /\ []OneUpload => []WithinCapacity
  <1>1. LimitInv => WithinCapacity
    BY DEF LimitInv
  <1> QED
    BY <1>1, LimitInit, LimitStep, AccountTypes, PTL DEF Spec

-----------------------------------------------------------------------------
(* What the rule about missing parents would take *)

\* A row goes into a folder that is not there, the root apart.
InsertsIntoMissing ==
  /\ rows' # rows
  /\ \E w \in Worker : InsertRow(w) /\ op[w].parent # Root /\ ~Taken(op[w].parent)

\* The rule of MyDB.cpp's comment is enough for what it is there for: if no row is
\* inserted under a parent that is missing, none is its own parent, although ids are
\* given out again and the client chose the parent from a view that may be stale.
THEOREM RuleKeepsOwnParent == Spec /\ [][~InsertsIntoMissing]_vars => []NeverOwnParent
  <1>1. Init => NeverOwnParent
    BY DEF Init, NeverOwnParent
  <1>2. TypeOK /\ NeverOwnParent /\ [Next]_vars /\ [~InsertsIntoMissing]_vars => NeverOwnParent'
    <2> SUFFICES ASSUME TypeOK, NeverOwnParent, [Next]_vars, [~InsertsIntoMissing]_vars
                 PROVE  NeverOwnParent'
      OBVIOUS
    <2>1. ASSUME NEW w \in Worker, InsertRow(w) PROVE NeverOwnParent'
      <3>1. CASE Taken(op[w].id)
        BY <2>1, <3>1 DEF InsertRow, NeverOwnParent
      <3>2. CASE ~Taken(op[w].id)
        <4>1. rows' = rows \cup {[id |-> op[w].id, content |-> op[w].content, parent |-> op[w].parent]}
          BY <2>1, <3>2 DEF InsertRow
        <4>2. op[w].id # 0
          BY <2>1 DEF InsertRow, At, TypeOK, OpOK
        <4>3. [id |-> op[w].id, content |-> op[w].content, parent |-> op[w].parent] \notin rows
          BY <3>2 DEF Taken
        <4>4. op[w].parent = Root \/ Taken(op[w].parent)
          BY <2>1, <4>1, <4>3 DEF InsertsIntoMissing, vars
        <4>5. op[w].parent # op[w].id
          BY <3>2, <4>2, <4>4
        <4> QED
          BY <4>1, <4>5 DEF NeverOwnParent
      <3> QED
        BY <3>1, <3>2
    <2>2. ASSUME NEW w \in Worker,
                 \/ Upload(w) \/ RequestCreateDir(w) \/ RequestDelete(w)
                 \/ SelectNextId(w) \/ Charge(w) \/ DeleteOneFile(w) \/ DeleteOneDir(w)
          PROVE  rows' \subseteq rows
      BY <2>2 DEF Upload, RequestUpload, Request, GetIsEnoughSpace, GetFileExist, Open, Transferred,
         Abandoned, RequestCreateDir, RequestDelete, SelectNextId, Charge, DeleteOneFile, GetFileMd5,
         CountRows, DeleteRow, Credit, RemoveFile, DeleteOneDir, SelectChildren, DeleteChild,
         DeleteDirRow
    <2>3. UNCHANGED vars => rows' \subseteq rows
      BY DEF vars
    <2> QED
      BY <2>1, <2>2, <2>3 DEF Next, InsertFileData, NeverOwnParent
  <1> QED
    BY <1>1, <1>2, AccountTypes, PTL DEF Spec
=============================================================================
