--------------------------------- MODULE Csv ---------------------------------
(***************************************************************************)
(* The text that a decoded event becomes in a CSV file: getAsCSV of every  *)
(* struct in tool/cpp/event.h.  A text is a sequence of symbols, where a   *)
(* symbol is a character of a string or a number as it is printed.         *)
(***************************************************************************)
EXTENDS Codec

Text(s) == [i \in DOMAIN s |-> <<"char", s[i]>>]
Dec(arg) == <<<<"dec", arg[1]>>>>
Hex(arg) == <<<<"hex", arg[1]>>>>     \* showbase, so it reads back as it is
Bool(arg) == Dec(<<IF arg[1] = 0 THEN 0 ELSE 1>>)

Comma == Text(<<44>>)
Newline == Text(<<10>>)

EventCSV(e) == Dec(<<e.count>>) \o Comma \o Dec(<<e.code>>) \o Comma \o Dec(<<e.time>>)

Row(e, columns) ==
  EventCSV(e) \o FlattenSeq([i \in DOMAIN columns |-> Comma \o columns[i]]) \o Newline

RemoveAllAllocationsRow(e) == Row(e, <<Dec(e.args[1])>>)
InitStreamRow(e) == Row(e, <<Hex(e.args[1]), Text(e.args[2]), Dec(e.args[3])>>)
StopStreamRow(e) == Row(e, <<<<<<"remark", "#stream ended">>>>>>)
AddHeapRow(e) == Row(e, <<Dec(e.args[1]), Text(e.args[2]), Text(e.args[3])>>)
RemoveHeapRow(e) == Row(e, <<Dec(e.args[1])>>)
AddCoreRow(e) == Row(e, <<Dec(e.args[1]), Hex(e.args[2]), Dec(e.args[3])>>)
GrowCoreRow(e) == Row(e, <<Dec(e.args[1]), Hex(e.args[2]), Dec(e.args[3])>>)
RemoveCoreRow(e) == Row(e, <<Dec(e.args[1]), Hex(e.args[2]), Dec(e.args[3])>>)
ShrinkCoreRow(e) == Row(e, <<Dec(e.args[1]), Hex(e.args[2]), Dec(e.args[3])>>)
AddAllocationRow(e) ==
  Row(e, <<Dec(e.args[1]), Hex(e.args[2]), Dec(e.args[3]), Bool(e.args[4])>>)
RemoveAllocationRow(e) == Row(e, <<Dec(e.args[1]), Hex(e.args[2]), Bool(e.args[3])>>)
StartEventRow(e) == Row(e, <<Text(e.args[1])>>)
EndEventRow(e) == Row(e, <<Text(e.args[1])>>)
HeapSetBackingAllocatorRow(e) == Row(e, <<Dec(e.args[1]), Dec(e.args[2])>>)

\* event->getAsCSV(ss): the struct that oneStep made of the event.
GetAsCSV(e) ==
  CASE e.code = BeginStream -> InitStreamRow(e)
    [] e.code = EndStream -> StopStreamRow(e)
    [] e.code = HeapCreate -> AddHeapRow(e)
    [] e.code = HeapDestroy -> RemoveHeapRow(e)
    [] e.code = HeapAddCore -> AddCoreRow(e)
    [] e.code = HeapGrowCore -> GrowCoreRow(e)
    [] e.code = HeapRemoveCore -> RemoveCoreRow(e)
    [] e.code = HeapShrinkCore -> ShrinkCoreRow(e)
    [] e.code = HeapAllocate -> AddAllocationRow(e)
    [] e.code = HeapFree -> RemoveAllocationRow(e)
    [] e.code = HeapFreeAll -> RemoveAllAllocationsRow(e)
    [] e.code = EventStart -> StartEventRow(e)
    [] e.code = EventEnd -> EndEventRow(e)
    [] e.code = SetBackingAllocator -> HeapSetBackingAllocatorRow(e)

-----------------------------------------------------------------------------
(***************************************************************************)
(* Reading the file again, the way a spreadsheet does: a newline ends a    *)
(* row, unless the line is blank, and a comma ends a cell.  Used by        *)
(* properties.                                                             *)
(***************************************************************************)
Blank == <<<<>>>>

ReadSymbol(rows, symbol) ==
  LET row == Last(rows)
  IN  IF <<symbol>> = Newline
      THEN IF row = Blank THEN rows ELSE Append(rows, Blank)
      ELSE Append(Front(rows),
                  IF <<symbol>> = Comma THEN Append(row, <<>>)
                                        ELSE Append(Front(row), Append(Last(row), symbol)))

ReadRows(text) ==
  LET Read[n \in 0 .. Len(text)] == IF n = 0 THEN <<Blank>> ELSE ReadSymbol(Read[n - 1], text[n])
  IN  Read[Len(text)]

\* A row by its cells: the header, then the arguments of its code.
ReadRow(cells) ==
  LET Cell(i) == [k \in DOMAIN cells[i] |-> cells[i][k][2]]
  IN  [count |-> Cell(1)[1], code |-> Cell(2)[1], time |-> Cell(3)[1],
       args |-> [i \in DOMAIN Layout[Cell(2)[1]] |-> Cell(i + 3)]]

ReadBack(text) ==
  LET rows == IF Last(ReadRows(text)) = Blank THEN Front(ReadRows(text)) ELSE ReadRows(text)
  IN  [n \in DOMAIN rows |-> ReadRow(rows[n])]

=============================================================================
