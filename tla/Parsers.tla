------------------------------- MODULE Parsers -------------------------------
(***************************************************************************)
(* The functions without state, given all their inputs up to a bound: the  *)
(* frame codec (FrameCodec's behaviours), the extraction of JSON fields,   *)
(* parse_url, the latency percentiles and the timestamps.                  *)
(***************************************************************************)
EXTENDS FrameCodec, JsonFields, Url, Percentiles, Timestamps

CONSTANTS
  MaxTokens,   \* bound: tokens of a JSON text
  MaxPart,     \* bound: characters of a part of a URL
  MaxSamples,  \* bound: latency samples
  MaxTicks,    \* bound: ticks since the clock started
  Offsets      \* bound: ns by which the clock of the kernel's timestamps is
               \* ahead of get_time_ns; 0 is what the code takes for granted

ASSUME OffsetAssumption == Offsets \subseteq Nat

VARIABLES
  parser,  \* the function that is looked at
  input    \* what it is given

parsersVars == <<vars, parser, input>>

(* JSON text is put together from these.                                   *)
Tokens == {SearchPattern, << Quote >>, << Backslash >>, << "," >>, << Space >>, << "x" >>}

Strings(chars, n) == UNION {[1 .. k -> chars] : k \in 0 .. n}
Hosts == Strings({"h"}, MaxPart)
Ports == {<< >>} \cup {<< ":" >> \o d : d \in Strings(Digits, MaxPart)}
PathsWith(c) == {<< c >> \o p : p \in Strings({"/", "?", ":", "1"}, MaxPart)}
Paths == {<< >>} \cup PathsWith("/") \cup PathsWith("?")
Urls == [use_ssl : BOOLEAN, host : Hosts, port : Ports, path : Paths]
Windows == UNION {[0 .. n - 1 -> 1 .. 3] : n \in 1 .. MaxSamples}

Reads ==
  [kind : {"timespec", "timeval", "none"}, arrival : 0 .. MaxTicks, read : 1 .. MaxTicks,
   offset : Offsets]

ParsersInit ==
  /\ parser \in {"frame", "json", "url", "latency", "stamp"}
  /\ Init
  /\ parser # "frame" => sentFrame = CHOOSE f \in Frames : TRUE
  /\ input = IF parser = "json" THEN [text |-> << >>, tokens |-> 0] ELSE << >>

Frame == parser = "frame" /\ Next /\ UNCHANGED <<parser, input>>

MoreText ==
  /\ parser = "json" /\ input.tokens < MaxTokens
  /\ \E t \in Tokens : input' = [text |-> input.text \o t, tokens |-> input.tokens + 1]
  /\ UNCHANGED <<vars, parser>>

SomeUrl ==
  /\ parser = "url" /\ input = << >> /\ input' \in Urls
  /\ UNCHANGED <<vars, parser>>

SomeWindow ==
  /\ parser = "latency" /\ input = << >> /\ input' \in Windows
  /\ UNCHANGED <<vars, parser>>

(* A packet arrives at one tick and is read at the same or a later one.    *)
SomeRead ==
  /\ parser = "stamp" /\ input = << >>
  /\ \E r \in Reads : r.arrival <= r.read /\ input' = r
  /\ UNCHANGED <<vars, parser>>

ParsersNext == Frame \/ MoreText \/ SomeUrl \/ SomeWindow \/ SomeRead

ParsersSpec == ParsersInit /\ [][ParsersNext]_parsersVars
-----------------------------------------------------------------------------
Text == input.text

(* The vector and the scalar version find the same value of a field,       *)
(* wherever blocks of the vector version begin and end ("for comparison/   *)
(* validation"), in all text that can hold the field's name and does not   *)
(* end with it.                                                            *)
JsonVersionsAgree ==
  parser = "json" /\ Len(Text) >= pattern_len => Agree(Text)

(* The value found is a JSON value: escaped quotes do not end it, and it   *)
(* never reaches beyond the text, also where the text ends in an escape.   *)
JsonValueExact ==
  parser = "json" /\ Len(Text) >= pattern_len =>
    LET v == neon_parse_json_market_data(Text) IN v.result = 0 => IsValue(Text, v)

(* Host, port and path of a URL are found again, colons and question marks *)
(* in the path notwithstanding, and a part that does not fit is refused.   *)
UrlSplitsBack == parser = "url" /\ input # << >> => SplitsBack(input)

(* p50 and p99 of n samples: at most k of the samples are below, more than *)
(* k at or below, k being the half or 99 of 100 of n, rounded down.        *)
IsRanked(p, k) ==
  /\ Cardinality({i \in DOMAIN input : input[i] < p}) <= k
  /\ Cardinality({i \in DOMAIN input : input[i] <= p}) > k
PercentilesRanked ==
  parser = "latency" /\ input # << >> =>
    LET n == Cardinality(DOMAIN input)
        p == calculate_latency_percentiles(input, n)
    IN  IsRanked(p.p50, n \div 2) /\ IsRanked(p.p99, (n * P99Num) \div P99Den)

(* The stamps the two read functions give a packet.                        *)
NoStamp == [ns |-> 0, ticks |-> 0]
ArrivalNs == get_time_ns(input.arrival) + input.offset
Stamps == {IoStamp(input.kind, ArrivalNs, input.read, NoStamp),
           SslStamp(input.kind, ArrivalNs, input.read)}

(* The two forms of a timestamp that is not ahead of the clock name the    *)
(* same moment: the ticks are not in the future, and converted back they   *)
(* are the nanoseconds, at most a tick and the rounding later.             *)
StampFormsAgree ==
  parser = "stamp" /\ input # << >> =>
    \A s \in Stamps :
      /\ s.ticks <= input.read
      /\ s.ns <= get_time_ns(input.read) =>
           get_time_ns(s.ticks) - s.ns \in 0 .. 1 + numer \div denom

(* "Calculate latency if NIC timestamp is available" (websocket.c): the    *)
(* latency is the time since the packet arrived, to the microsecond.       *)
LatencyMeasured ==
  parser = "stamp" /\ input # << >> /\ input.kind # "none" =>
    \A s \in Stamps :
      Latency(s.ns, input.read) - (get_time_ns(input.read) - get_time_ns(input.arrival))
        \in 0 .. Micro - 1
=============================================================================
