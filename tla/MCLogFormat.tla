---------------------------- MODULE MCLogFormat ----------------------------
\* Inputs for LogFormat: one payload of each kind.  Lengths and counts are also entry
\* types, so that a misread word may pass for a header; names and types of edges are
\* not, and most floats are larger than any length.
EXTENDS LogFormat

Plain == [op |-> "upsert", id |-> 11, dense |-> <<7>>, sparse |-> None, multi |-> None,
          meta |-> <<8>>]

Rich == [op |-> "upsert", id |-> 11, dense |-> None,
         sparse |-> [indices |-> <<13, 15>>, values |-> <<900, 901>>],
         multi |-> <<<<902, 2>>, <<1, 903>>>>, meta |-> None]

MCPayload == {Plain, Rich, [op |-> "delete", id |-> 12],
              [op |-> "insert_edge", from |-> 11, to |-> 12, kind |-> 13, weight |-> 6,
               meta |-> <<8>>],
              [op |-> "delete_edge", from |-> 11, to |-> 12, kind |-> 13]}
=============================================================================
