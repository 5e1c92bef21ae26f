--------------------------------- MODULE Url ---------------------------------
(***************************************************************************)
(* parse_url: a URL behind "ws://" or "wss://" is split into host, port    *)
(* and path.  It is a sequence of characters; the scheme is given apart.   *)
(***************************************************************************)
EXTENDS Integers, Sequences, FiniteSetsExt

CONSTANTS
  host_len, path_len,  \* sizes of the buffers for host and path
  PortLen              \* 20: characters of the port that are looked at

ASSUME UrlAssumption == {host_len, path_len} \subseteq Nat /\ PortLen \in Nat \ {0}

Digits == {"1", "2"}
DigitValue == [d \in Digits |-> IF d = "1" THEN 1 ELSE 2]

(* strchr: how many characters come before the first c; all, without one.  *)
Before(url, c) == Min({Len(url)} \cup {i \in 0 .. Len(url) - 1 : url[i + 1] = c})

atoi(text) ==
  LET digits == Min({Len(text)} \cup {i \in 0 .. Len(text) - 1 : text[i + 1] \notin Digits})
      value[k \in 0 .. digits] ==
        IF k = 0 THEN 0 ELSE 10 * value[k - 1] + DigitValue[text[k]]
  IN  value[digits]

Default(use_ssl) == IF use_ssl THEN 443 ELSE 80
Invalid == [result |-> -1]

(* Variant: a colon is taken for that of the port wherever it is.          *)
AnyColonEnd(url) == Len(url)

(* Where host and port end: at the path or the query.                      *)
HostEnd(url) == Min({Before(url, "/"), Before(url, "?")})

parse_url(use_ssl, url) ==
  LET host_end == HostEnd(url)
      colon == Before(url, ":")
      host == SubSeq(url, 1, Min({colon, host_end}))
      port == SubSeq(url, colon + 2, Min({host_end, colon + 1 + PortLen}))
      path == IF host_end < Len(url) THEN SubSeq(url, host_end + 1, Len(url)) ELSE << "/" >>
  IN  IF Len(host) >= host_len \/ Len(path) >= path_len THEN Invalid
      ELSE [result |-> 0, use_ssl |-> use_ssl, host |-> host, path |-> path,
            port |-> IF colon < host_end /\ port # << >> THEN atoi(port) ELSE Default(use_ssl)]
-----------------------------------------------------------------------------
(* A URL is put together from its parts, and parse_url finds them again,   *)
(* or refuses those that do not fit its buffers.  port << >> stands for    *)
(* none, << ":" >> for an empty one.                                       *)
Composed(u) == u.host \o u.port \o u.path
SplitsBack(u) ==
  parse_url(u.use_ssl, Composed(u)) =
    LET path == IF u.path = << >> THEN << "/" >> ELSE u.path IN
    IF Len(u.host) >= host_len \/ Len(path) >= path_len THEN Invalid
    ELSE [result |-> 0, use_ssl |-> u.use_ssl, host |-> u.host, path |-> path,
          port |-> IF Len(u.port) < 2 THEN Default(u.use_ssl)
                   ELSE atoi(SubSeq(Tail(u.port), 1, Min({PortLen, Len(u.port) - 1})))]
=============================================================================
