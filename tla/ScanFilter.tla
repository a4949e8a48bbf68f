----------------------------- MODULE ScanFilter -----------------------------
(***************************************************************************)
(* The scan of one table for the rows a WHERE keeps, qe_scan_filter of      *)
(* src/src/query_exec/query_exec.c: the condition is compiled to a program  *)
(* for the stack machine of scan_filter.comp, or, when it is a few numeric  *)
(* comparisons, to intervals of whole numbers for scan_simple.comp, or it   *)
(* is evaluated row by row on the CPU.                                      *)
(*                                                                         *)
(* A table is [rows, types, dicts]: types gives each column "u32", "i32",   *)
(* "f64" or "text", dicts lists the values of a text column that has a      *)
(* dictionary in the order of their codes.  Numbers count halves, so that a *)
(* whole number is even and 2.5 is 5.  Such a table has no NULL: others are *)
(* scanned row by row.                                                      *)
(***************************************************************************)
EXTENDS Conditions, FiniteSetsExt, Functions

CONSTANTS MaxStack,       \* QE_SCAN_MAX_STACK
          MaxSlots,       \* QE_MAX_COLUMN_BINDINGS
          MaxInList,      \* QE_IN_LIST_GPU_MAX_ITEMS
          MaxSimple,      \* QE_SIMPLE_SCAN_MAX_LEAVES
          WordSize,       \* 2 ^ 32
          NarrowSize,     \* 256, and its square is 65536
          GroupRows       \* 64, the rows of one word of bits
ASSUME ScanFilterAssumption == {MaxStack, MaxSlots, MaxInList, MaxSimple, WordSize, NarrowSize, GroupRows} \subseteq Nat \ {0}

IsText(table, node) == node.type = "column" /\ table.types[node.name] = "text"
IsWhole(table, name) == table.types[name] \in {"u32", "i32"}

-------------------------------------------------------------------------------
(* The program                                                             *)

NoProgram == [words |-> <<>>, uses |-> {}, cpu |-> FALSE, failed |-> FALSE]
Instr(code, arg, column) == [code |-> code, arg |-> arg, column |-> column]
Push(value) == Instr("push", value, "")
Emit(p, word) == [p EXCEPT !.words = Append(@, word)]

(* The text of a column takes two buffers, its offsets being one.  A column *)
(* that finds no buffer is read as 0, and an error is logged.               *)
Slots(uses) == Cardinality(uses) + Cardinality({use \in uses : use[2] = "text"})
HasSlots(p, use) == use \in p.uses \/ Slots(p.uses \cup {use}) <= MaxSlots
Bind(p, use) == IF HasSlots(p, use) THEN [p EXCEPT !.uses = @ \cup {use}] ELSE [p EXCEPT !.failed = TRUE]
Use(table, node) == <<node.name, IF IsText(table, node) THEN "text" ELSE "value">>

LoadValue(p, table, node) ==
  IF node.type # "column" THEN Emit(p, Push(node.value))
  ELSE Emit(Bind(p, Use(table, node)), IF HasSlots(p, Use(table, node)) THEN Instr("load", 0, node.name) ELSE Push(0))

CompareText(p, column, op, value) == Emit(Bind(p, <<column, "text">>), Instr("text " \o op, value, column))

(* An equality of a text with a dictionary compares codes; a text that is   *)
(* not in the dictionary equals none.                                       *)
ByCode(p, dict, column, op, value) ==
  LET codes == {i \in DOMAIN dict : dict[i] = value}
      bound == Bind(p, <<column, "code">>)
  IN  IF codes = {} THEN Emit(p, Push(IF op = "!=" THEN 1 ELSE 0))
      ELSE IF ~HasSlots(p, <<column, "code">>) THEN CompareText(bound, column, op, value)
      ELSE Emit(Emit(Emit(bound, Instr("code", 0, column)), Push(Min(codes))), Instr(op, 0, ""))

(* Codes are given in the order of insertion.                               *)
UsesCodes(table, name, op) == name \in DOMAIN table.dicts /\ op \in {"=", "!="}

CompileComparison(p, table, op, left, right) ==
  IF IsText(table, left) /\ HasSlots(p, Use(table, left))
  THEN IF UsesCodes(table, left.name, op) THEN ByCode(p, table.dicts[left.name], left.name, op, right.value)
       ELSE CompareText(p, left.name, op, right.value)
  ELSE Emit(LoadValue(LoadValue(p, table, left), table, right), Instr(op, 0, ""))

CompileIn(p, table, node) ==
  LET items   == node.right.items
      notIn   == node.op = "not in"
      Item(q, value) == CompileComparison(q, table, IF notIn THEN "!=" ELSE "=", node.left, Numeric(value))
      Joined(q, value) == Emit(Item(q, value), Instr(IF notIn THEN "and" ELSE "or", 0, ""))
  IN  IF items = <<>> THEN Emit(p, Push(IF notIn THEN 1 ELSE 0))
      ELSE IF node.left.type # "column" \/ Len(items) > MaxInList THEN [Emit(p, Push(1)) EXCEPT !.cpu = TRUE]
      ELSE FoldLeft(Joined, Item(p, Head(items)), Tail(items))

RECURSIVE CompileCondition(_, _, _)
CompileCondition(p, table, node) ==
  CASE node.type = "none" -> Emit(p, Push(1))
    [] IsOp(node, "and") \/ IsOp(node, "or") ->
         Emit(CompileCondition(CompileCondition(p, table, node.left), table, node.right), Instr(node.op, 0, ""))
    [] IsOp(node, "is null") -> Emit(p, Push(0))
    [] IsOp(node, "is not null") -> Emit(p, Push(1))
    [] IsOp(node, "in") \/ IsOp(node, "not in") -> CompileIn(p, table, node)
    [] OTHER -> CompileComparison(p, table, node.op, node.left, node.right)

IsPush(word) == word.code \in {"push", "load", "code"} \cup {"text " \o op : op \in Comparisons}
StackDepth(words) ==
  LET After(i) == FoldLeft(LAMBDA depth, word : depth + (IF IsPush(word) THEN 1 ELSE -1), 0, SubSeq(words, 1, i))
  IN  Max({After(i) : i \in 0 .. Len(words)})

-------------------------------------------------------------------------------
(* The stack machine                                                       *)

Truth(b) == IF b THEN 1 ELSE 0
CodeOf(table, column, row) == CHOOSE i \in DOMAIN table.dicts[column] : table.dicts[column][i] = table.rows[row][column]

(* What is pushed on a full stack is lost.                                  *)
PushOn(stack, value) == IF Len(stack) < MaxStack THEN Append(stack, value) ELSE stack
Execute1(table, row, stack, word) ==
  LET n      == Len(stack)
      Apply(b) == Append(SubSeq(stack, 1, n - 2), Truth(b))
      cell   == table.rows[row][word.column]
  IN  CASE word.code = "push" -> PushOn(stack, word.arg)
        [] word.code = "load" -> PushOn(stack, cell)
        [] word.code = "code" -> PushOn(stack, CodeOf(table, word.column, row))
        [] word.code = "and" -> Apply(stack[n - 1] # 0 /\ stack[n] # 0)
        [] word.code = "or" -> Apply(stack[n - 1] # 0 \/ stack[n] # 0)
        [] word.code \in Comparisons -> Apply(Compare(word.code, stack[n - 1], stack[n]))
        [] OTHER -> PushOn(stack, Truth(\E op \in Comparisons : word.code = "text " \o op /\ Compare(op, cell, word.arg)))
Matched(table, words, row) ==
  LET stack == FoldLeft(LAMBDA s, word : Execute1(table, row, s, word), <<>>, words)
  IN  stack # <<>> /\ Last(stack) # 0

-------------------------------------------------------------------------------
(* Comparisons of whole numbers                                            *)

FloorOf(v) == 2 * (v \div 2)
CeilOf(v) == -FloorOf(-v)

(* Mutant of HighOf: less than is rounded down as less or equal is.         *)
HighOfFloor(op, target) == IF op \in {"=", "<="} THEN FloorOf(target) ELSE FloorOf(target) - 2

(* The values from LowOf to HighOf satisfy the comparison; an open end is   *)
(* beyond every column.                                                     *)
LowOf(op, target) == CASE op \in {"=", ">="} -> CeilOf(target) [] op = ">" -> FloorOf(target) + 2 [] OTHER -> -8 * WordSize
HighOf(op, target) == CASE op \in {"=", "<="} -> FloorOf(target) [] op = "<" -> CeilOf(target) - 2 [] OTHER -> 8 * WordSize

(* How a column is held: as it is, as its distance to its least value in    *)
(* one or two bytes, or not at all when each value is one more than that of *)
(* the row before.  offset is the value whose code is 0.                    *)
ValuesOf(table, name) == {table.rows[i][name] \div 2 : i \in DOMAIN table.rows}
Whole(table, name) == [width |-> 0, offset |-> IF table.types[name] = "i32" THEN -(WordSize \div 2) ELSE 0, max |-> WordSize - 1]
Encoding(table, name) ==
  LET rows   == table.rows
      values == ValuesOf(table, name)
      Narrow(width, size) == [width |-> width, offset |-> Min(values), max |-> size - 1]
      first  == rows[1][name] \div 2
      last   == IF table.types[name] = "i32" THEN WordSize \div 2 - 1 ELSE WordSize - 1
  IN  IF rows = <<>> THEN Whole(table, name)
      ELSE IF first + Len(rows) - 1 <= last /\ \A i \in DOMAIN rows : rows[i][name] \div 2 = first + i - 1
      THEN [width |-> 3, offset |-> first, max |-> WordSize - 1]
      ELSE IF Max(values) - Min(values) < NarrowSize THEN Narrow(1, NarrowSize)
      ELSE IF Max(values) - Min(values) < NarrowSize * NarrowSize THEN Narrow(2, NarrowSize * NarrowSize)
      ELSE Whole(table, name)

(* The code of a row, and the least code and the number of further codes a  *)
(* comparison lets pass, {} when it lets none pass.                         *)
Code(table, name, encoding, row) ==
  IF encoding.width = 3 THEN row - 1 ELSE (table.rows[row][name] \div 2 - encoding.offset) % (encoding.max + 1)
Interval(op, target, encoding) ==
  LET low  == Max({LowOf(op, target) \div 2 - encoding.offset, 0})
      high == Min({HighOf(op, target) \div 2 - encoding.offset, encoding.max})
  IN  IF low > high THEN {} ELSE {[lo |-> low, span |-> high - low]}

(* The difference wraps, so that one comparison tests both ends.            *)
Passes(table, leaf, streamed, row) ==
  LET name == leaf.left.name
      encoding == IF streamed THEN Encoding(table, name) ELSE Whole(table, name)
  IN  IF IsWhole(table, name)
      THEN \E i \in Interval(leaf.op, leaf.right.value, encoding) :
             (Code(table, name, encoding, row) - i.lo) % WordSize <= i.span
      ELSE Compare(leaf.op, table.rows[row][name], leaf.right.value)

NumericLeaf(table, leaf) ==
  /\ leaf.type = "op" /\ leaf.op \in Comparisons \ {"!="}
  /\ leaf.left.type = "column" /\ leaf.right.type = "numeric" /\ ~IsText(table, leaf.left)
IsSimple(table, node) ==
  /\ Len(Leaves(node)) \in 1 .. MaxSimple
  /\ \A i \in DOMAIN Leaves(node) : NumericLeaf(table, Leaves(node)[i])

-------------------------------------------------------------------------------
(* The scan                                                                *)

(* On the CPU the rows of a range are bits of words, the first and the last *)
(* of which may hold rows outside of the range.  Rows count from 0 there.   *)
RangeRows(table, leaves, range) ==
  LET Bits(g) == {row - g * GroupRows : row \in {r \in Max({g * GroupRows, range.min}) .. Min({(g + 1) * GroupRows, range.max}) - 1 :
                    \A i \in DOMAIN leaves : Compare(leaves[i].op, table.rows[r + 1][leaves[i].left.name], leaves[i].right.value)}}
      first  == range.min \div GroupRows
      groups == (range.max + GroupRows - 1) \div GroupRows - first
  IN  UNION {{(first + w) * GroupRows + bit + 1 : bit \in Bits(first + w)} : w \in 0 .. groups - 1}

(* The rows found over the ranges of a dispatch; failed is a logged error.  *)
ScanFound(table, node, streamed, ranges) ==
  LET p      == CompileCondition(NoProgram, table, node)
      In(row) == \E i \in DOMAIN ranges : row - 1 \in ranges[i].min .. ranges[i].max - 1
      leaves == Leaves(node)
      Rows(Keep(_)) == {row \in DOMAIN table.rows : In(row) /\ Keep(row)}
      ByRow(row) == Holds(<<table.rows>>, 1 :> row, node)
      Simple(row) == \A i \in DOMAIN leaves : Passes(table, leaves[i], streamed, row)
      ByProgram(row) == Matched(table, p.words, row)
  IN  IF p.cpu \/ StackDepth(p.words) > MaxStack
      THEN [failed |-> p.failed \/ ~p.cpu, rows |-> {row \in DOMAIN table.rows : ByRow(row)}]
      ELSE [failed |-> p.failed, rows |-> IF IsSimple(table, node) THEN Rows(Simple) ELSE Rows(ByProgram)]

(* Columns too large for a buffer whose stream could not be made.           *)
ScanChunked(table, node, ranges) ==
  UNION {RangeRows(table, Leaves(node), ranges[i]) : i \in DOMAIN ranges}
=============================================================================
