----------------------------- MODULE Connection -----------------------------
(***************************************************************************)
(* The life of WebSocket objects and of the descriptors they hold:         *)
(* websocket_create, websocket_connect, what websocket_process does to the *)
(* connection, websocket_close and websocket_destroy, for several objects  *)
(* of one process.                                                         *)
(*                                                                         *)
(* A descriptor is a number; the kernel gives the lowest free one to       *)
(* whoever opens next.  files says who opened each number: an object's     *)
(* "socket" or "kqueue", or nobody.  A call that fails and leaves          *)
(* everything as it was is a stuttering step and has no action.            *)
(***************************************************************************)
EXTENDS Integers, FiniteSets

CONSTANTS
  PlainObjects,  \* the WebSocket objects of a process that uses ws:// URLs
  TlsObjects,    \* those of a process that uses wss:// URLs
  MaxFd,    \* the process may open the descriptors 0 .. MaxFd
  Endings   \* how connections may end besides by the application: a subset
            \* of {"rejected", "close_frame", "eof", "tls_closed"}

ASSUME ConnectionAssumption ==
  /\ MaxFd \in Nat
  /\ Endings \subseteq {"rejected", "close_frame", "eof", "tls_closed"}

VARIABLES
  use_ssl,  \* which of the two processes this is
  ws,       \* the objects
  files,    \* the kernel's table: who opened each descriptor
  stray,    \* history: close was called on a number not opened by the caller
  peerEnded, \* history: objects with a connection that the server ended
  reused    \* history: objects that connected more than once

vars == <<use_ssl, ws, files, stray, peerEnded, reused>>

Objects == IF use_ssl THEN TlsObjects ELSE PlainObjects

Fds == 0 .. MaxFd
Nobody == << "nobody" >>

(* alive: allocated.  ssl: ssl_ctx->fd, or -2 without an ssl_ctx.  kq:     *)
(* io_ctx->kq, or -1 without an io_ctx.  errors: how often on_error was    *)
(* called for this connection.                                             *)
Fresh == [alive |-> FALSE, state |-> "CLOSED", fd |-> -1, ssl |-> -2, kq |-> -1,
          errors |-> 0]

Init ==
  /\ use_ssl \in BOOLEAN
  /\ ws = [w \in Objects |-> Fresh]
  /\ files = [f \in Fds |-> Nobody]
  /\ stray = FALSE
  /\ peerEnded = {}
  /\ reused = {}
-----------------------------------------------------------------------------
(* The kernel.                                                             *)

Lowest(table) ==
  CHOOSE f \in Fds : table[f] = Nobody /\ \A g \in Fds : g < f => table[g] # Nobody
Opened(table, owner) == [table EXCEPT ![Lowest(table)] = owner]
Free(table) == Cardinality({f \in Fds : table[f] = Nobody})

(* close(f): whoever opened f loses it.                                    *)
Closed(table, f) == IF f \in Fds THEN [table EXCEPT ![f] = Nobody] ELSE table
-----------------------------------------------------------------------------
(* What the parts of an object do to the table.                            *)
io_init(table, w) == Opened(table, <<w, "kqueue">>)
io_cleanup(table, kq) == Closed(table, kq)
tcp_connect(table, w) == Opened(table, <<w, "socket">>)

(* The TLS context keeps a copy of the number, and closes it in the end.   *)
ssl_connect(fd) == fd
ssl_cleanup(table, ssl) == Closed(table, ssl)
-----------------------------------------------------------------------------
websocket_create(w) ==
  /\ ~ws[w].alive
  /\ ws' = [ws EXCEPT ![w] = [Fresh EXCEPT !.alive = TRUE]]
  /\ UNCHANGED <<files, stray, peerEnded, reused>>

(* The application connects an object that is not connected: a new one,    *)
(* or one whose connection has ended.  websocket_connect does not test the *)
(* state, so this is what it takes its caller to do.                       *)
Connectable(w) == ws[w].alive /\ ws[w].state \notin {"CONNECTING", "CONNECTED"}
Reuse(w) == reused' = IF ws[w].kq >= 0 THEN reused \cup {w} ELSE reused

(* A successful websocket_connect: io_init opens the kqueue, tcp_connect   *)
(* the socket, ssl_connect keeps a copy of its number, io_add_socket fills *)
(* slot 0 of the socket table.  What the object held before is overwritten *)
(* without being closed.                                                   *)
websocket_connect(w) ==
  LET kq == Lowest(files)
      withKq == io_init(files, w)
      fd == Lowest(withKq)
  IN  /\ Connectable(w)
      /\ Free(files) >= 2
      /\ files' = tcp_connect(withKq, w)
      /\ ws' = [ws EXCEPT ![w] =
                  [@ EXCEPT !.state = "CONNECTING", !.fd = fd, !.kq = kq,
                            !.ssl = IF use_ssl THEN ssl_connect(fd) ELSE -2, !.errors = 0]]
      /\ Reuse(w)
      /\ UNCHANGED <<stray, peerEnded>>

(* Is the number still the socket w opened?                                *)
Owns(table, w, f) == f < 0 \/ table[f] = <<w, "socket">>

(* The cleanup label of websocket_connect: the socket is closed if there   *)
(* is one, then the kqueue that io_init opened.                            *)
ConnectCleanup(w, table, fd, kq, ssl) ==
  /\ Connectable(w)
  /\ stray' = (stray \/ ~Owns(table, w, fd))
  /\ files' = io_cleanup(Closed(table, fd), kq)
  /\ ws' = [ws EXCEPT ![w] = [@ EXCEPT !.fd = -1, !.kq = -1, !.ssl = ssl]]
  /\ Reuse(w)
  /\ UNCHANGED peerEnded

(* io_init fails: cleanup finds the socket of an earlier connection.       *)
ConnectFailsEarly(w) ==
  /\ Free(files) = 0
  /\ ConnectCleanup(w, files, ws[w].fd, -1, ws[w].ssl)

(* tcp_connect fails (and has closed what it opened): an earlier socket is *)
(* forgotten.                                                              *)
ConnectFails(w) ==
  /\ Free(files) >= 1
  /\ ConnectCleanup(w, io_init(files, w), -1, Lowest(files), ws[w].ssl)

(* ssl_connect or io_add_socket fails after the context took the number    *)
(* (send_handshake does not: it writes to an empty tx_ring): ssl_cleanup   *)
(* closes it, and then the cleanup label.                                  *)
ConnectFailsWithTls(w) ==
  LET withKq == io_init(files, w)
      fd == Lowest(withKq)
  IN  /\ use_ssl /\ Free(files) >= 2
      /\ ConnectCleanup(w, ssl_cleanup(tcp_connect(withKq, w), ssl_connect(fd)), fd,
                        Lowest(files), -2)

(* Variant: no early return, and the number is not forgotten.              *)
ForgetfulClose(table, w, o) ==
  [files |-> Closed(table, o.fd), stray |-> ~Owns(table, w, o.fd),
   object |-> [o EXCEPT !.state = "CLOSED"]]

(* Variant: the state is left as it was.                                   *)
StatelessClose(table, w, o) ==
  IF o.state = "CLOSED" THEN [files |-> table, stray |-> FALSE, object |-> o]
  ELSE [files |-> Closed(table, o.fd), stray |-> ~Owns(table, w, o.fd),
        object |-> [o EXCEPT !.fd = -1]]

(* Variant: the socket is forgotten without being closed.                  *)
LazyClose(table, w, o) ==
  IF o.state = "CLOSED" THEN [files |-> table, stray |-> FALSE, object |-> o]
  ELSE [files |-> table, stray |-> FALSE,
        object |-> [o EXCEPT !.fd = -1, !.state = "CLOSED"]]

(* websocket_close on object w in condition o: one that is CLOSED is left  *)
(* alone, also if it still has its socket.                                 *)
CloseResult(table, w, o) ==
  IF o.state = "CLOSED" THEN [files |-> table, stray |-> FALSE, object |-> o]
  ELSE [files |-> Closed(table, o.fd), stray |-> ~Owns(table, w, o.fd),
        object |-> [o EXCEPT !.fd = -1, !.state = "CLOSED"]]

websocket_close(w) ==
  LET r == CloseResult(files, w, ws[w]) IN
  /\ ws[w].alive
  /\ files' = r.files
  /\ ws' = [ws EXCEPT ![w] = r.object]
  /\ stray' = (stray \/ r.stray)
  /\ UNCHANGED <<peerEnded, reused>>
-----------------------------------------------------------------------------
(* websocket_process, as far as the connection changes.                    *)

Active(w) == ws[w].alive /\ ws[w].kq >= 0 /\ ws[w].state \in {"CONNECTING", "CONNECTED"}
OnError(o) == [o EXCEPT !.errors = @ + 1]

(* The handshake response is valid.                                        *)
HandshakeComplete(w) ==
  /\ Active(w) /\ ws[w].state = "CONNECTING"
  /\ ws' = [ws EXCEPT ![w].state = "CONNECTED"]
  /\ UNCHANGED <<files, stray, peerEnded, reused>>

(* It is not: on_error, then websocket_close.                              *)
HandshakeRejected(w) ==
  LET r == CloseResult(files, w, OnError(ws[w])) IN
  /\ "rejected" \in Endings
  /\ Active(w) /\ ws[w].state = "CONNECTING"
  /\ files' = r.files
  /\ ws' = [ws EXCEPT ![w] = r.object]
  /\ stray' = (stray \/ r.stray)
  /\ UNCHANGED <<peerEnded, reused>>

(* A CLOSE frame, possibly behind a message whose on_message has called    *)
(* websocket_close: process_frames goes on and sets CLOSING over CLOSED.   *)
CloseFrame(w) ==
  /\ "close_frame" \in Endings
  /\ Active(w) /\ ws[w].state = "CONNECTED"
  /\ \E r \in {CloseResult(files, w, ws[w]),
                [files |-> files, stray |-> FALSE, object |-> ws[w]]} :
       /\ files' = r.files
       /\ ws' = [ws EXCEPT ![w] = [r.object EXCEPT !.state = "CLOSING"]]
       /\ stray' = (stray \/ r.stray)
  /\ peerEnded' = peerEnded \cup {w}
  /\ UNCHANGED reused

(* Variant: the error is reported whatever the state.                      *)
RepeatedEofEvent(w) ==
  /\ "eof" \in Endings
  /\ ws[w].alive /\ ws[w].kq >= 0 /\ ws[w].fd >= 0 /\ ws[w].errors < 2
  /\ ws' = [ws EXCEPT ![w] = [OnError(@) EXCEPT !.state = "CLOSED"]]
  /\ peerEnded' = peerEnded \cup {w}
  /\ UNCHANGED <<files, stray, reused>>

(* An event with EV_EOF or EV_ERROR: the state changes and on_error runs,  *)
(* the socket stays as it is.                                              *)
EofEvent(w) ==
  /\ "eof" \in Endings
  /\ Active(w)
  /\ ws' = [ws EXCEPT ![w] = [OnError(@) EXCEPT !.state = "CLOSED"]]
  /\ peerEnded' = peerEnded \cup {w}
  /\ UNCHANGED <<files, stray, reused>>

(* What ssl_read leaves of the number when it returns -1: the              *)
(* SecureTransport context forgets it, the OpenSSL one keeps it.           *)
NumberAfterSslRead(o) == {-1, o.ssl}

(* ssl_read returns -1: a connected object is closed with on_error, and    *)
(* then the frames that came with the handshake response are processed,    *)
(* with perhaps a CLOSE among them.                                        *)
TlsClosed(w) ==
  /\ "tls_closed" \in Endings /\ use_ssl
  /\ Active(w)
  /\ \E left \in NumberAfterSslRead(ws[w]) :
       LET o == [ws[w] EXCEPT !.ssl = left] IN
       \/ /\ o.state = "CONNECTING"
          /\ ws' = [ws EXCEPT ![w] = o]
       \/ /\ o.state = "CONNECTED"
          /\ \E final \in {"CLOSED"} \cup {f \in {"CLOSING"} : "close_frame" \in Endings} :
               ws' = [ws EXCEPT ![w] = [OnError(o) EXCEPT !.state = final]]
  /\ peerEnded' = peerEnded \cup {w}
  /\ UNCHANGED <<files, stray, reused>>
-----------------------------------------------------------------------------
(* Variant: an object that is still connecting is not closed.              *)
HastyDestroy(w) ==
  LET r == IF ws[w].state = "CONNECTED"
             THEN CloseResult(files, w, ws[w])
             ELSE [files |-> files, stray |-> FALSE, object |-> ws[w]]
  IN  /\ ws[w].alive
      /\ files' = io_cleanup(ssl_cleanup(r.files, r.object.ssl), r.object.kq)
      /\ ws' = [ws EXCEPT ![w] = Fresh]
      /\ stray' = (stray \/ r.stray \/ ~Owns(r.files, w, r.object.ssl))
      /\ UNCHANGED <<peerEnded, reused>>

(* websocket_destroy: websocket_close if active, then ssl_cleanup closes   *)
(* the context's number, then io_cleanup the kqueue.                       *)
websocket_destroy(w) ==
  LET r == IF ws[w].state \in {"CONNECTED", "CONNECTING"}
             THEN CloseResult(files, w, ws[w])
             ELSE [files |-> files, stray |-> FALSE, object |-> ws[w]]
  IN  /\ ws[w].alive
      /\ files' = io_cleanup(ssl_cleanup(r.files, r.object.ssl), r.object.kq)
      /\ ws' = [ws EXCEPT ![w] = Fresh]
      /\ stray' = (stray \/ r.stray \/ ~Owns(r.files, w, r.object.ssl))
      /\ UNCHANGED <<peerEnded, reused>>

Next ==
  /\ UNCHANGED use_ssl
  /\ \E w \in Objects :
       \/ websocket_create(w) \/ websocket_connect(w)
       \/ ConnectFailsEarly(w) \/ ConnectFails(w) \/ ConnectFailsWithTls(w)
       \/ websocket_close(w) \/ HandshakeComplete(w) \/ HandshakeRejected(w)
       \/ CloseFrame(w) \/ EofEvent(w) \/ TlsClosed(w) \/ websocket_destroy(w)

Spec == Init /\ [][Next]_vars
-----------------------------------------------------------------------------
(* A connection in use has its own socket and kqueue open: no other        *)
(* object's close or destroy took them away.                               *)
OwnDescriptors ==
  \A w \in Objects :
    ws[w].state \in {"CONNECTING", "CONNECTED"} =>
      /\ ws[w].fd >= 0 /\ files[ws[w].fd] = <<w, "socket">>
      /\ ws[w].kq >= 0 /\ files[ws[w].kq] = <<w, "kqueue">>

(* close is only called on numbers the caller opened and has not closed    *)
(* (not so with TLS: the context has a copy of the number).                *)
NoStrayClose == stray => use_ssl

(* websocket_destroy leaves no descriptor of the object behind ("Ensure    *)
(* clean shutdown sequence"), with two exceptions: the socket of a         *)
(* connection that the server ended, because the state is no longer active *)
(* and the socket passed over; and the kqueue of an object that connected  *)
(* again.                                                                  *)
NothingLeftOpen ==
  \A f \in Fds : files[f] # Nobody =>
    LET w == files[f][1] IN
    \/ ws[w].alive
    \/ files[f] = <<w, "socket">> /\ w \in peerEnded
    \/ files[f] = <<w, "kqueue">> /\ w \in reused

(* on_error is called at most once per connection.                         *)
ErrorOnce == \A w \in Objects : ws[w].errors <= 1

(* "Close WebSocket connection" (websocket.h): an object that is CLOSED    *)
(* has no open socket, unless the server ended a connection of it.         *)
ClosedMeansClosed ==
  \A w \in Objects \ peerEnded, f \in Fds :
    files[f] = <<w, "socket">> => ws[w].state # "CLOSED"
=============================================================================
