---------------------------- MODULE MCStreamNode ----------------------------
(* A small instance of StreamNode.                                           *)
EXTENDS StreamNode, SequencesExt

Id == "switch_id"
Number == "channel"
D == "digit"
X == "letter"

\* Headers in both orders, with a column nobody asks for, with one missing and
\* with a byte order mark.
MCHeaders ==
    {<<Id, Comma, Number>>, <<Number, Comma, Id, CR>>, <<Comma, Id, Comma, Number>>, <<Id, Comma>>,
     Bom \o <<Id, Comma, Number>>}

\* Rows of three lengths for two columns, so that lines end at every place of a
\* block, and rows of every kind: spaces, no number, too few and too many columns,
\* a carriage return, nothing, too long.
MCRows == {<<Comma, D>>, <<D, Comma, D>>, <<D, Comma, D, X>>}
MCLastRows ==
    {<<Space, Comma, D, CR>>, <<X, Comma, Space>>, <<X, Comma, X>>, <<D>>,
     <<D, Comma, Comma, D>>, <<X, X, X, Comma, D>>, <<CR>>, <<>>}

MCFiles ==
    {FlattenSeq(<<header, <<NL>>>> \o [k \in 1 .. Len(rows) |-> Append(rows[k], NL)]
                \o <<last>> \o end) :
        header \in MCHeaders, rows \in UNION {[1 .. n -> MCRows] : n \in 0 .. 3},
        last \in MCLastRows, end \in {<<>>, <<<<NL>>>>, <<<<NL>>, <<X, Comma, D>>>>}}
    \cup {<<>>, Bom}
=============================================================================
