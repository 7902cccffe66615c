------------------------------- MODULE Stream -------------------------------
(***************************************************************************)
(* asio_bind/impl/stream_*.hpp and util/ioc_queue.hpp: packets written one *)
(* by one, or in bulk, to a layer that may close, on an executor that runs *)
(* one handler at a time.                                                  *)
(*   ex    the executor: ready holds what was posted, in its order; now is *)
(*         the handler that runs, followed by the handlers that it reached *)
(*         with as::dispatch, which run before anything else;              *)
(*   strm  the members of stream_impl, the async_write, async_read_some    *)
(*         and async_close of the layers that are in progress, and issued, *)
(*         which numbers the packets passed to async_write_packet;         *)
(*   net   what lies beyond the socket: link says that the peer is         *)
(*         reachable, wire holds the packets it got on this connection,    *)
(*         got the requests whose packets it ever got (history), inbox     *)
(*         what it sent and was not read, and stale says that a packet was *)
(*         stored while the socket was closed (history); the rest belongs  *)
(*         to the peer.                                                    *)
(* A handler is a record: fn names the state of an operation that it       *)
(* continues, k the handler that the operation completes with, ec the      *)
(* error code that it is completed with.                                   *)
(***************************************************************************)
EXTENDS Integers, Sequences, FiniteSets, FiniteSetsExt, Functions, TLC

VARIABLES setup, ex, strm, net

streamVars == <<setup, ex, strm, net>>

self == Head(ex.now)
Running(fn) == ex.now # <<>> /\ self.fn = fn
Waiting == ex.now = <<>>

\* The handler that runs ends with as::dispatch of hs, and it posted ps.
Then(hs) == [ex EXCEPT !.now = hs \o Tail(@)]
ThenPost(hs, ps) == [now |-> hs \o Tail(ex.now), ready |-> ex.ready \o ps]
\* A handler posted when none runs: the completion of an I/O operation.
Posted(hs) == [ex EXCEPT !.ready = @ \o hs]

Resume(k, ec) == [k EXCEPT !.ec = ec]

NewExecutor == [now |-> <<>>, ready |-> <<>>]
NewStream ==
  [open |-> FALSE, working |-> FALSE, queue |-> <<>>, storing |-> <<>>, sending |-> <<>>,
   flight |-> <<>>, reading |-> <<>>, closing |-> <<>>, connecting |-> <<>>, issued |-> 0]

StreamInit ==
  /\ ex = NewExecutor
  /\ strm = NewStream
  /\ net = [link |-> FALSE, wire |-> <<>>, inbox |-> <<>>, seen |-> 0, acks |-> 0,
            session |-> setup.restored # <<>>, sent |-> 0, got |-> {}, stale |-> FALSE]

Detached ==
  /\ Running("detached")
  /\ ex' = Then(<<>>)
  /\ UNCHANGED <<setup, strm, net>>

\* io_context::run_one
RunOne ==
  /\ Waiting
  /\ ex.ready # <<>>
  /\ ex' = [now |-> <<Head(ex.ready)>>, ready |-> Tail(ex.ready)]
  /\ UNCHANGED <<setup, strm, net>>
-----------------------------------------------------------------------------
(***************************************************************************)
(* Writing.                                                                *)
(***************************************************************************)
write_packet(k, p) == [fn |-> "write_packet", k |-> k, p |-> p]
poll_one == [fn |-> "poll_one"]
detached == [fn |-> "detached", ec |-> "ok"]
written(w, ec) == [fn |-> "written", w |-> w, ec |-> ec]

\* immediate_executable(): the io_context of the queue is stopped whenever the
\* queue is not working.
immediate_executable == ~ strm.working

\* Mutant of async_write_packet: in bulk mode every packet is stored.
async_write_packet_twice ==
  /\ Running("write_packet")
  /\ LET bulk == setup.bulk /\ ~ immediate_executable
         p == [p |-> self.p, n |-> strm.issued + 1]
     IN /\ strm' = [strm EXCEPT !.queue = Append(@, [k |-> self.k, p |-> p, bulk |-> bulk]),
                                !.storing = IF setup.bulk THEN Append(@, p) ELSE @,
                                !.issued = @ + 1]
        /\ net' = [net EXCEPT !.stale = @ \/ (bulk /\ ~ strm.open)]
  /\ ex' = Then(IF immediate_executable THEN <<poll_one>> ELSE <<>>)
  /\ UNCHANGED setup

async_write_packet ==
  /\ Running("write_packet")
  /\ LET bulk == setup.bulk /\ ~ immediate_executable
         p == [p |-> self.p, n |-> strm.issued + 1]
     IN /\ strm' = [strm EXCEPT !.queue = Append(@, [k |-> self.k, p |-> p, bulk |-> bulk]),
                                !.storing = IF bulk THEN Append(@, p) ELSE @,
                                !.issued = @ + 1]
        /\ net' = [net EXCEPT !.stale = @ \/ (bulk /\ ~ strm.open)]
  /\ ex' = Then(IF immediate_executable THEN <<poll_one>> ELSE <<>>)
  /\ UNCHANGED setup

PollEmpty ==
  /\ Running("poll_one")
  /\ strm.queue = <<>>
  /\ strm' = [strm EXCEPT !.working = FALSE]
  /\ ex' = Then(<<>>)
  /\ UNCHANGED <<setup, net>>

\* The states write and bulk_write of the operation at the head of the queue.
PollWrite ==
  /\ Running("poll_one")
  /\ strm.queue # <<>>
  /\ LET w == Head(strm.queue)
         s == [strm EXCEPT !.working = TRUE, !.queue = Tail(@)]
     IN \/ /\ ~ strm.open
           /\ strm' = s
           /\ ex' = Then(<<written(w, "reset")>>)
        \/ /\ strm.open /\ ~ w.bulk
           /\ strm' = [s EXCEPT !.flight = <<[w |-> w, bufs |-> <<w.p>>]>>]
           /\ ex' = Then(<<>>)
        \/ /\ strm.open /\ w.bulk /\ strm.storing = <<>>
           /\ strm' = s
           /\ ex' = Then(<<written(w, "ok")>>)
        \/ /\ strm.open /\ w.bulk /\ strm.storing # <<>>
           /\ strm' = [s EXCEPT !.sending = strm.storing, !.storing = <<>>,
                                !.flight = <<[w |-> w, bufs |-> strm.storing]>>]
           /\ ex' = Then(<<>>)
  /\ UNCHANGED <<setup, net>>

\* Mutant of Written: the queue goes on before the operation is completed.
WrittenPolls ==
  /\ Running("written")
  /\ strm' = [strm EXCEPT !.sending = IF self.ec = "ok" THEN <<>> ELSE @, !.working = FALSE]
  /\ ex' = ThenPost(<<Resume(self.w.k, self.ec)>>, <<poll_one>>)
  /\ UNCHANGED <<setup, net>>

Written ==
  /\ Running("written")
  /\ strm' = [strm EXCEPT !.sending = IF self.ec = "ok" THEN <<>> ELSE @]
  /\ ex' = ThenPost(<<Resume(self.w.k, self.ec)>>, <<poll_one>>)
  /\ UNCHANGED <<setup, net>>

\* The layers take the bytes and they arrive, unless the peer is lost; while the
\* layers shut down they may refuse them.
AsyncWriteDone ==
  /\ Waiting
  /\ strm.flight # <<>>
  /\ LET f == strm.flight[1]
     IN \/ /\ net.link
           /\ ex' = Posted(<<written(f.w, "ok")>>)
           /\ net' = [net EXCEPT !.wire = @ \o f.bufs, !.got = @ \cup {b.p.i : b \in Range(f.bufs)}]
        \/ /\ ~ net.link \/ strm.closing # <<>>
           /\ ex' = Posted(<<written(f.w, "reset")>>)
           /\ UNCHANGED net
  /\ strm' = [strm EXCEPT !.flight = <<>>]
  /\ UNCHANGED setup
-----------------------------------------------------------------------------
(***************************************************************************)
(* Reading: data holds what was read.                                      *)
(***************************************************************************)
read_some(k) == [fn |-> "read_some", k |-> k]

async_read_some ==
  /\ Running("read_some")
  /\ IF strm.open
     THEN /\ strm' = [strm EXCEPT !.reading = <<self.k>>]
          /\ ex' = Then(<<>>)
     ELSE /\ ex' = ThenPost(<<>>, <<Resume(self.k, "reset")>>)
          /\ UNCHANGED strm
  /\ UNCHANGED <<setup, net>>

AsyncReadDone ==
  /\ Waiting
  /\ strm.reading # <<>>
  /\ \/ /\ net.inbox # <<>>
        /\ ex' = Posted(<<[Resume(strm.reading[1], "ok") EXCEPT !.data = net.inbox]>>)
     \/ /\ net.inbox = <<>> /\ ~ net.link
        /\ ex' = Posted(<<Resume(strm.reading[1], "reset")>>)
  /\ strm' = [strm EXCEPT !.reading = <<>>]
  /\ net' = [net EXCEPT !.inbox = <<>>]
  /\ UNCHANGED setup
-----------------------------------------------------------------------------
(***************************************************************************)
(* Opening and closing.  setup.layers names the layers, the outermost      *)
(* first: ws, ssl, tcp.  A handshake goes from the innermost to the        *)
(* outermost, a close the other way; at is the layer that is concerned.    *)
(***************************************************************************)
stream_close(k) == [fn |-> "stream_close", k |-> k, at |-> 1]
handshake(k) == [fn |-> "handshake", k |-> k]

Closes(layer) == Running("stream_close") /\ setup.layers[self.at] = layer

\* async_close of a layer that has another one below.
StreamClose ==
  /\ \E layer \in {"ws", "ssl"} : Closes(layer)
  /\ strm' = [strm EXCEPT !.closing = <<self>>]
  /\ ex' = Then(<<>>)
  /\ UNCHANGED <<setup, net>>

\* The layer is closed, with or without an error, and it is the turn of the next.
LayerClosed(layer) ==
  /\ Waiting
  /\ \E c \in Range(strm.closing) :
       /\ setup.layers[c.at] = layer
       /\ ex' = Posted(<<[c EXCEPT !.at = @ + 1]>>)
  /\ strm' = [strm EXCEPT !.closing = <<>>]
  /\ net' = [net EXCEPT !.link = FALSE]
  /\ UNCHANGED setup

\* The close frame is answered, or reading fails.
WsClosed == LayerClosed("ws")
\* async_shutdown is answered, or gives up after shutdown_timeout.
SslClosed == LayerClosed("ssl")

\* close() of the socket cancels what it does; then the buffers are forgotten.
TcpClose ==
  /\ Closes("tcp")
  /\ strm' = [strm EXCEPT !.open = FALSE, !.flight = <<>>, !.reading = <<>>,
                          !.storing = <<>>, !.sending = <<>>]
  /\ ex' = ThenPost(<<self.k>>,
                    (IF strm.flight = <<>> THEN <<>> ELSE <<written(strm.flight[1].w, "aborted")>>)
                      \o (IF strm.reading = <<>> THEN <<>> ELSE <<Resume(strm.reading[1], "aborted")>>))
  /\ net' = [net EXCEPT !.link = FALSE, !.inbox = <<>>]
  /\ UNCHANGED setup

\* The peer is resolved, and async_connect opens the socket.
AsyncHandshake ==
  /\ Running("handshake")
  /\ strm' = [strm EXCEPT !.open = TRUE, !.connecting = <<[k |-> self.k, at |-> Len(setup.layers)]>>]
  /\ net' = [net EXCEPT !.wire = <<>>, !.seen = 0, !.acks = 0]
  /\ ex' = Then(<<>>)
  /\ UNCHANGED setup

\* The handshake of a layer is done: the one above it begins, or all are done.  One
\* that fails ends them all.
LayerUp(layer, may, fails) ==
  /\ Waiting
  /\ \E c \in Range(strm.connecting) :
       /\ setup.layers[c.at] = layer
       /\ \/ /\ may
             /\ net' = [net EXCEPT !.link = TRUE]
             /\ strm' = [strm EXCEPT !.connecting = IF c.at = 1 THEN <<>> ELSE <<[c EXCEPT !.at = @ - 1]>>]
             /\ ex' = IF c.at = 1 THEN Posted(<<Resume(c.k, "ok")>>) ELSE ex
          \/ /\ fails
             /\ strm' = [strm EXCEPT !.connecting = <<>>]
             /\ ex' = Posted(<<Resume(c.k, "reset")>>)
             /\ UNCHANGED net
  /\ UNCHANGED setup

TcpConnected == LayerUp("tcp", TRUE, setup.loss)
SslHandshaken == LayerUp("ssl", net.link, ~ net.link)
WsHandshaken == LayerUp("ws", net.link, ~ net.link)

\* The peer, or the way to it, fails; what was received can still be read.
LinkLost ==
  /\ Waiting
  /\ setup.loss
  /\ net.link
  /\ net' = [net EXCEPT !.link = FALSE]
  /\ UNCHANGED <<setup, ex, strm>>

StreamNext ==
  \/ RunOne \/ Detached
  \/ async_write_packet \/ PollEmpty \/ PollWrite \/ Written \/ AsyncWriteDone
  \/ async_read_some \/ AsyncReadDone
  \/ StreamClose \/ WsClosed \/ SslClosed \/ TcpClose
  \/ AsyncHandshake \/ TcpConnected \/ SslHandshaken \/ WsHandshaken
=============================================================================
