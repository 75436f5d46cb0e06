----------------------------- MODULE StreamNode -----------------------------
(***************************************************************************)
(* main() of the mock stream node: it reads the rows of the test file, one *)
(* door each, and starts a thread for every row that never ends.  The      *)
(* first bad row ends the reading with an exception that main() catches;   *)
(* the rows in front of it are used.                                       *)
(*                                                                         *)
(* Of the four columns there are two, one of each kind: a text and a       *)
(* number.  What the nodes publish is in MqttProxy.                        *)
(***************************************************************************)
EXTENDS LineReader, FiniteSetsExt

CONSTANTS
    Digits,        \* the bytes a number can start with
    PoolCapacity   \* the initial capacity of the thread pool, 16 in Poco

ASSUME PoolAssumption == PoolCapacity \in Nat \ {0}

Comma == "comma"
Space == "space"
\* The columns main() asks for: "switch_id" stands for the texts, "channel" for
\* the numbers.
ColNames == <<<<"switch_id">>, <<"channel">>>>

VARIABLES
    main,          \* "header", "rows", "leave" (out of the try block), "start" or "joinAll"
    parsed,        \* the number of lines that have been parsed
    col_order,     \* for every column of the file, its place in ColNames, or 0
    nodes,         \* t_vecSeetaMockStreamNode
    started,       \* how many of them run
    capacity       \* the capacity of the pool

nodeVars == <<main, parsed, col_order, nodes, started, capacity>>

NodeInit ==
    /\ Init
    /\ main = "header"
    /\ parsed = 0
    /\ col_order = <<>>
    /\ nodes = <<>>
    /\ started = 0
    /\ capacity = PoolCapacity

-----------------------------------------------------------------------------
(* Lines and columns                                                         *)

Trimmed(bytes) ==
    LET kept == {i \in DOMAIN bytes : bytes[i] # Space}
    IN IF kept = {} THEN <<>> ELSE SubSeq(bytes, Min(kept), Max(kept))

\* The parts between the commas, one more than there are commas.
Columns(bytes) ==
    LET commas == {i \in DOMAIN bytes : bytes[i] = Comma}
        Comma_(n) == IF n = 0 THEN 0
                     ELSE IF n > Cardinality(commas) THEN Len(bytes) + 1
                     ELSE CHOOSE i \in commas : Cardinality({j \in commas : j <= i}) = n
    IN [n \in 1 .. Cardinality(commas) + 1 |->
           Trimmed(SubSeq(bytes, Comma_(n - 1) + 1, Comma_(n) - 1))]

\* Every column is there once; others are ignored.
Order(bytes) ==
    [n \in DOMAIN Columns(bytes) |->
        IF \E i \in DOMAIN ColNames : ColNames[i] = Columns(bytes)[n]
        THEN CHOOSE i \in DOMAIN ColNames : ColNames[i] = Columns(bytes)[n]
        ELSE 0]
IsHeader(bytes) ==
    \A i \in DOMAIN ColNames :
        Cardinality({n \in DOMAIN Columns(bytes) : Columns(bytes)[n] = ColNames[i]}) = 1

\* A row has as many columns as the header, and its numbers start with a digit.
Row(order, bytes) ==
    [i \in DOMAIN ColNames |-> Columns(bytes)[CHOOSE n \in DOMAIN order : order[n] = i]]
IsRow(order, bytes) ==
    /\ Len(Columns(bytes)) = Len(order)
    /\ Row(order, bytes)[2] # <<>> /\ Row(order, bytes)[2][1] \in Digits

-----------------------------------------------------------------------------
(* main                                                                      *)

Reading == main \in {"header", "rows"}

\* read_header and read_row ask for a line when they are done with the last one.
CallNextLine ==
    /\ Reading
    /\ parsed = file_line
    /\ NextLine
    /\ UNCHANGED nodeVars

InNextLine ==
    /\ FinishRead \/ StartRead \/ Scan
    /\ UNCHANGED nodeVars

HasLine == at = "ready" /\ parsed < file_line

ReadHeader ==
    /\ main = "header"
    /\ HasLine
    /\ parsed' = file_line
    /\ \/ /\ IsHeader(line)
          /\ main' = "rows"
          /\ col_order' = Order(line)
       \/ /\ ~IsHeader(line)
          /\ main' = "leave"
          /\ UNCHANGED col_order
    /\ UNCHANGED <<vars, nodes, started, capacity>>

ReadRow ==
    /\ main = "rows"
    /\ HasLine
    /\ parsed' = file_line
    /\ \/ /\ IsRow(col_order, line)
          /\ nodes' = Append(nodes, Row(col_order, line))
          /\ UNCHANGED main
       \/ /\ ~IsRow(col_order, line)
          /\ main' = "leave"
          /\ UNCHANGED nodes
    /\ UNCHANGED <<vars, col_order, started, capacity>>

\* No line is left - which is an error for the header - or the next one is too long.
NoLine ==
    /\ Reading
    /\ at \in {"end", "limit"}
    /\ main' = "leave"
    /\ UNCHANGED <<vars, parsed, col_order, nodes, started, capacity>>

\* The reader is destroyed with the try block.
LeaveTry ==
    /\ main = "leave"
    /\ Destroy
    /\ UNCHANGED nodeVars

JoinReader ==
    /\ Join
    /\ main' = "start"
    /\ UNCHANGED <<parsed, col_order, nodes, started, capacity>>

\* The pool is doubled when it has no thread left.
StartNode ==
    /\ main = "start"
    /\ \/ /\ started < Len(nodes)
          /\ started' = started + 1
          /\ capacity' = IF started < capacity THEN capacity ELSE 2 * capacity
          /\ UNCHANGED main
       \/ /\ started = Len(nodes)
          /\ main' = "joinAll"
          /\ UNCHANGED <<started, capacity>>
    /\ UNCHANGED <<vars, parsed, col_order, nodes>>

Main ==
    \/ CallNextLine \/ InNextLine \/ ReadHeader \/ ReadRow \/ NoLine
    \/ LeaveTry \/ JoinReader \/ StartNode
ReadAhead == Worker /\ UNCHANGED nodeVars

NodeNext == Main \/ ReadAhead

NodeSpec ==
    NodeInit /\ [][NodeNext]_<<vars, nodeVars>>
    /\ WF_<<vars, nodeVars>>(Main) /\ WF_<<vars, nodeVars>>(ReadAhead)

-----------------------------------------------------------------------------
(* Properties                                                                *)

\* Every variable stays in its range, and the pool never runs more than it can.
NodeTypeOK ==
    /\ TypeOK
    /\ main \in {"header", "rows", "leave", "start", "joinAll"}
    /\ parsed \in {file_line - 1, file_line}
    /\ \A n \in DOMAIN col_order : col_order[n] \in 0 .. Len(ColNames)
    /\ \A n \in DOMAIN nodes : DOMAIN nodes[n] = DOMAIN ColNames
    /\ started \in 0 .. Len(nodes)
    /\ started <= capacity

\* The rows by their definition: the lines after a header up to the first one that
\* is too long or no row.
Lines == 1 .. Cardinality(Ends)
Fine(n) == Len(RawLine(n)) < BlockLen
Header == Stripped(RawLine(1))
GoodRow(n) == Fine(n) /\ IsRow(Order(Header), Stripped(RawLine(n)))
GoodRows ==
    IF Ends # {} /\ Fine(1) /\ IsHeader(Header)
    THEN {n \in Lines \ {1} : \A k \in 2 .. n : GoodRow(k)}
    ELSE {}

\* Every row in front of the first bad one gets its node, and every node runs in
\* the end, however the two threads of the reader run - unless an assertion stops
\* the program behind a last line without newline.
EveryRowRuns ==
    <>(\/ /\ main = "joinAll"
          /\ nodes = [k \in 1 .. Cardinality(GoodRows) |->
                         Row(Order(Header), Stripped(RawLine(k + 1)))]
          /\ started = Len(nodes)
       \/ at = "aborted" /\ ~Whole)
=============================================================================
