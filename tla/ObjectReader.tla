---------------------------- MODULE ObjectReader ----------------------------
(***************************************************************************)
(* A receiver of a fragment: APDUParser::Parse goes over its objects       *)
(* twice, first with the white list of the handler and then, if there was  *)
(* no error, with the handler.                                             *)
(*                                                                         *)
(* A fragment is a sequence of written headers, [octets, valid, tells],    *)
(* with what they mean to a handler if they are valid; and it may end      *)
(* anywhere.                                                               *)
(***************************************************************************)
EXTENDS ObjectParser

CONSTANTS
  Fragments,       \* [written: sequences of headers, contents, whiteList]
  Supported,       \* the objects the handler has a ProcessHeader for
  SingleObject     \* the object a handler with white list "single" expects

VARIABLES
  fragment,        \* what was sent
  input,           \* the octets that are parsed
  parse,           \* [pass, rest, count, result] of APDUParser::ParseSinglePass
  handler          \* [told, total, ignored, errors] of the IAPDUHandler

vars == <<fragment, input, parse, handler>>

Octets(written) == FlattenSeq([i \in DOMAIN written |-> written[i].octets])

NewHandler == [told |-> <<>>, total |-> 0, ignored |-> 0, errors |-> {}]

\* ParseSinglePass starts over, at the first octet and header.
Pass(n) == [pass |-> n, rest |-> input, count |-> 0, result |-> "OK"]

Init ==
  /\ fragment \in Fragments
  /\ \E n \in 0 .. Len(Octets(fragment.written)) : input = Take(Octets(fragment.written), n)
  /\ parse = Pass(1)
  /\ handler = NewHandler

\* The objects for which IsAllowed holds: all (MeasurementHandler, ReadHandler,
\* WriteHandler), or one as the only header (TimeSyncHandler).
Allowed(count) ==
  IF fragment.whiteList = "any" THEN DOMAIN Objects
  ELSE IF count = 0 THEN {SingleObject} ELSE {}

\* IAPDUHandler::ProcessHeader: an object the handler has none of its own for.
ProcessHeader(tell) == IF tell.object \in Supported THEN {} ELSE {"FUNC_NOT_SUPPORTED"}

\* IAPDUHandler::Record, and the count of ProcessUnsupportedHeader.
Record(h, tell) ==
  [told |-> Append(h.told, tell),
   total |-> h.total + 1,
   ignored |-> h.ignored + Cardinality(ProcessHeader(tell)),
   errors |-> h.errors \cup ProcessHeader(tell)]

\* IAPDUHandler::OnHeader.  OnDeviceAttribute is not recorded.
OnHeader(h, tell) ==
  IF tell.kind = "attribute" THEN [h EXCEPT !.told = Append(@, tell)] ELSE Record(h, tell)

Parsing(n) == parse.pass = n /\ parse.result = "OK" /\ parse.rest # <<>>

Step(r) == [parse EXCEPT !.rest = r.rest, !.count = @ + 1, !.result = r.result]

\* ParseHeader of the first pass: no handler.
CheckHeader ==
  /\ Parsing(1)
  /\ parse' = Step(ParseHeader(parse.rest, fragment.contents, Allowed(parse.count)))
  /\ UNCHANGED <<fragment, input, handler>>

\* Wrong: the result of the first pass is not looked at.
SecondPassAlways ==
  /\ parse.pass = 1 /\ (parse.result # "OK" \/ parse.rest = <<>>)
  /\ parse' = Pass(2)
  /\ UNCHANGED <<fragment, input, handler>>

\* The first pass ends without an error.
SecondPass ==
  /\ parse.pass = 1 /\ parse.result = "OK" /\ parse.rest = <<>>
  /\ parse' = Pass(2)
  /\ UNCHANGED <<fragment, input, handler>>

\* ParseHeader of the second pass: no white list.
HandleHeader ==
  LET r == ParseHeader(parse.rest, fragment.contents, DOMAIN Objects)
  IN
  /\ Parsing(2)
  /\ parse' = Step(r)
  /\ handler' = FoldLeft(OnHeader, handler, r.tells)
  /\ UNCHANGED <<fragment, input>>

Returned == parse.result # "OK" \/ (parse.pass = 2 /\ parse.rest = <<>>)

Next ==
  \/ CheckHeader
  \/ SecondPass
  \/ HandleHeader
  \/ Returned /\ UNCHANGED vars

----------------------------------------------------------------------------
(* Properties.                                                             *)

\* The first n headers of the fragment are all that arrived, and none of them
\* has to be rejected.
Arrived(n) ==
  /\ input = Octets(Take(fragment.written, n))
  /\ \A i \in 1 .. n : fragment.written[i].valid
  /\ fragment.whiteList = "single" =>
       n <= 1 /\ \A i \in 1 .. n : fragment.written[i].octets[1] = SingleObject

Tells(n) == FlattenSeq([i \in 1 .. n |-> fragment.written[i].tells])

\* APDUParser::Parse is all or nothing.  It succeeds exactly if the octets are
\* complete headers none of which is malformed or not allowed, and the handler
\* has then been told exactly what was written, in order, with an error for every
\* object it does not support; if any header, also the last, is not, the handler
\* has been told nothing, and an error is returned.
AllOrNothing ==
  Returned =>
    IF \E n \in 0 .. Len(fragment.written) : Arrived(n)
    THEN /\ parse.result = "OK"
         /\ \E n \in 0 .. Len(fragment.written) : Arrived(n) /\ handler.told = Tells(n)
         /\ handler.errors = {} <=> \A i \in DOMAIN handler.told :
              handler.told[i].kind = "attribute" \/ handler.told[i].object \in Supported
    ELSE parse.result # "OK" /\ handler = NewHandler
=============================================================================
