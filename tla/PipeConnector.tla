---------------------------- MODULE PipeConnector ----------------------------
(***************************************************************************)
(* The connector, the service every pipe starts with: it collects the name  *)
(* the guest writes (host-qemu/hw/android/pipe.c, pipeConnector_xxx) and     *)
(* hands the pipe to the service of that name.  PipeHost has the outcomes of *)
(* a write to it; this module has the buffer they come from.                *)
(*                                                                          *)
(* A byte is a member of Byte, with "p" for the four letters of "pipe".      *)
(***************************************************************************)
EXTENDS Naturals, Sequences, FiniteSetsExt, SequencesExt

CONSTANTS
  Cap,                   \* sizeof(pcon->buffer)
  MaxWrite,              \* bound: the longest write
  MaxRefused,            \* bound: the refused writes
  Known,                 \* the names of registered services: sequences of bytes
  NeedsArgs              \* those of them whose init fails without arguments

Colon == ":"
Nul == "NUL"
Byte == {"p", Colon, Nul, "a", "b"}
Prefix == <<"p", Colon>>

ASSUME ConnectorAssumption ==
  /\ {Cap, MaxWrite, MaxRefused} \subseteq Nat \ {0}
  /\ NeedsArgs \subseteq Known

VARIABLES
  buffer,                \* pcon->buffer up to buffpos
  service,               \* the name and arguments the pipe was handed over with, or None
  stored,                \* everything the connector has copied to its buffer
  written,               \* what the guest was told is transferred
  refused                \* number of writes answered with PIPE_ERROR_INVAL

vars == <<buffer, service, stored, written, refused>>

None == <<>>
Writes == UNION {[1..n -> Byte] : n \in 1..MaxWrite}
Strings(n) == UNION {[1..k -> Byte] : k \in 0..n}

TypeOK ==
  /\ buffer \in Strings(Cap)
  /\ service = None \/ service.name \in Known
  /\ refused \in 0..MaxRefused

Init ==
  /\ buffer = <<>> /\ service = None
  /\ stored = <<>> /\ written = <<>>
  /\ refused = 0

----------------------------------------------------------------------------
Positions(s, b) == {i \in 1..Len(s) : s[i] = b}
Has(s, b) == Positions(s, b) # {}
Before(s, b) == IF Has(s, b) THEN SubSeq(s, 1, Min(Positions(s, b)) - 1) ELSE s
After(s, b) == IF Has(s, b) THEN SubSeq(s, Min(Positions(s, b)) + 1, Len(s)) ELSE <<>>

\* The C string a buffer starts with.
CString(s) == Before(s, Nul)

Name(s) == SubSeq(CString(s), Len(Prefix) + 1, Len(CString(s)))

\* pipeName and pipeArgs; no arguments and empty ones are both NULL.
Invited(s) ==
  [name |-> Before(Name(s), Colon), args |-> After(Name(s), Colon)]

WellFormed(s) == IsPrefix(Prefix, CString(s))

\* The split ends the name in place, in the connector's own buffer.
SplitInPlace(s) ==
  IF WellFormed(s) /\ Has(Name(s), Colon)
  THEN [s EXCEPT ![Len(Prefix) + Min(Positions(Name(s), Colon))] = Nul]
  ELSE s

\* Mutant: the copy is not bounded by the room left.
RoomUnchecked(data) == data

\* The part of a write that fits the buffer, which is the part copied.
Room(data) == SubSeq(data, 1, Min({Cap - Len(buffer), Len(data)}))

\* Mutant: the whole write is counted.
CountedAll(data) == data

\* The part that the returned number of bytes covers.
Counted(data) == Room(data)

\* The bytes are copied and no terminator has come yet.
Collect(data) ==
  /\ service = None
  /\ ~Has(buffer \o Room(data), Nul)
  /\ buffer' = buffer \o Room(data)
  /\ stored' = stored \o Room(data)
  /\ written' = written \o Counted(data)
  /\ UNCHANGED <<service, refused>>

\* Mutant: the bytes of a refused write are taken back.
RefuseUndone(data) ==
  /\ service = None /\ refused < MaxRefused
  /\ Has(buffer \o Room(data), Nul)
  /\ stored' = stored \o Room(data)
  /\ refused' = refused + 1
  /\ UNCHANGED <<buffer, service, written>>

\* Not a pipe name, no such service, or its init fails: the bytes stay in the
\* buffer, the guest gets an error.
Refuse(data) ==
  /\ service = None /\ refused < MaxRefused
  /\ Has(buffer \o Room(data), Nul)
  /\ buffer' = SplitInPlace(buffer \o Room(data))
  /\ stored' = stored \o Room(data)
  /\ refused' = refused + 1
  /\ UNCHANGED <<service, written>>

\* The init of the service succeeds, and the connector is gone: later writes are the
\* service's.
HandOver(data) ==
  LET s == buffer \o Room(data) IN
  /\ service = None /\ Has(s, Nul)
  /\ WellFormed(s) /\ Invited(s).name \in Known
  /\ Invited(s).name \in NeedsArgs => Invited(s).args # <<>>
  /\ service' = Invited(s)
  /\ stored' = stored \o Room(data)
  /\ written' = written \o Counted(data)
  /\ UNCHANGED <<buffer, refused>>

Next == \E data \in Writes : Collect(data) \/ Refuse(data) \/ HandOver(data)

Spec == Init /\ [][Next]_vars

----------------------------------------------------------------------------
\* However the guest splits its writes, and whatever was refused in between, the
\* pipe goes to the service named by all the bytes up to the first terminator; its
\* arguments are the ones written, or were lost when an earlier attempt split the
\* name in place.
ServiceAsInvited ==
  service # None =>
    /\ service.name = Invited(stored).name
    /\ service.args = Invited(stored).args \/ (refused > 0 /\ service.args = <<>>)

\* Until a write is refused, the guest is told of exactly the bytes that were kept.
AcceptedIsKept ==
  refused = 0 /\ service = None => written = buffer
=============================================================================
