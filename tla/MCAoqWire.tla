------------------------------ MODULE MCAoqWire ------------------------------
(***************************************************************************)
(* Requests for AoqWire with chunks of four tokens and keys of two bytes:  *)
(* a value that goes on in the next chunk, one with a newline at the end   *)
(* of a chunk, one with a head behind a newline, and an empty one; a name  *)
(* that ends with a blank, one that is a blank, one as long as a key, and  *)
(* one that does not fit the first chunk.                                  *)
(***************************************************************************)
EXTENDS AoqWire

CONSTANTS n, a, s, v, w

MCPush(name, value) == [op |-> "push", args |-> <<name, value>>]
MCPop(name) == [op |-> "pop", args |-> <<name>>]

MCHidden == <<"push", <<1>>>>

MCLetter == {n, a, s, v, w, NL, MCHidden}
MCBlank == {s, NL}

MCRequest ==
  { MCPush(<<n>>, <<w, v, w>>), MCPush(<<n>>, <<NL, MCHidden, n>>),
    MCPush(<<n, s>>, <<NL, w>>), MCPush(<<n, n>>, <<>>), MCPush(<<s>>, <<v>>),
    MCPop(<<n>>), MCPop(<<n, n, n, a>>),
    [op |-> "status", args |-> <<>>] }

MCClientRequest ==
  { MCPush(<<n>>, <<v>>), MCPop(<<n>>),
    [op |-> "status", args |-> <<>>], [op |-> "queues", args |-> <<>>] }
=============================================================================
