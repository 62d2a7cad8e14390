------------------------------- MODULE Session -------------------------------
(***************************************************************************)
(* The two windows of the tool.  The server window (tool/server/server.js) *)
(* accepts connections of traced programs, or of the chart window itself   *)
(* when the user chooses a file, and pipes them into one internal socket;  *)
(* the chart window (tool/visualization) decodes what arrives there and    *)
(* has the buttons and the status.  The windows send each other messages   *)
(* through main.js, in order, beside the internal socket: the two ways     *)
(* overtake each other.                                                    *)
(*                                                                         *)
(* A connection sends the events 1 .. Events, the last one EndStream, in   *)
(* chunks of whole events; how chunks are cut is Decoder.tla's matter.     *)
(***************************************************************************)
EXTENDS Integers, Sequences, SequencesExt

CONSTANTS Events,     \* events of a complete trace, EndStream included
          May,        \* what may happen beside clean connections one by one
          MaxConns,   \* bound: connections
          MaxClicks   \* bound: clicks

\* A connection is cut by its program, lost by the network, open beside another;
\* a file is unpacked; the server page misses the address of the chart window.
AllMay == {"cut", "lost", "overlap", "unpack", "late server"}

ASSUME SessionAssumption ==
  Events \in Nat \ {0} /\ May \subseteq AllMay /\ MaxConns \in Nat /\ MaxClicks \in Nat

VARIABLES sockets,        \* the connections: state, events sent, whether piped
          pipe,           \* pipe of server.js
          internal,       \* internal_socket: "none", "open", "ended"
          inner,          \* on the internal socket: chunks, and its end
          toServer, toChart,   \* messages between the windows
          decoder,        \* Window.decoder: events decoded, streamEnd()
          collecting, visualization_enabled, message,   \* status.js
          clicks,
          disturbed,      \* ghost: a connection was lost or not alone, or a file unpacked
          undefined       \* the decoder ran into undefined behaviour

server == <<sockets, pipe, internal>>
channels == <<inner, toServer, toChart>>
status == <<collecting, visualization_enabled, message>>
ghosts == <<clicks, disturbed, undefined>>
vars == <<server, channels, decoder, status, ghosts>>

NewDecoder == [decoded |-> <<>>, end |-> FALSE]

\* onload has drawn the chart and sent its address.
Init ==
  /\ sockets = <<>> /\ pipe = TRUE /\ internal = "none"
  /\ inner = <<>> /\ toServer = <<"internal-server-address">> /\ toChart = <<>>
  /\ decoder = NewDecoder
  /\ collecting = FALSE /\ visualization_enabled = TRUE
  /\ message = "Waiting for connection"
  /\ clicks = 0 /\ disturbed = FALSE /\ undefined = FALSE

Open(c) == sockets[c].state = "open"
Conns == DOMAIN sockets
SomeOpen == \E c \in Conns : sockets[c].state \in {"open", "broken"}

\* Bytes are read from a connection with its handlers, or while it is piped.
Reads(c) == Open(c) \/ sockets[c].piped

\* After undefined behaviour nothing is known.
Defined == ~undefined

-----------------------------------------------------------------------------
(***************************************************************************)
(* The server window.  A connection before the internal socket is there    *)
(* throws in socket.pipe(undefined): none of the handlers is attached, and *)
(* nothing of it is read unless a later enable-pipe pipes it after all.    *)
(***************************************************************************)
Connection ==
  /\ Defined /\ Len(sockets) < MaxConns
  /\ SomeOpen => "overlap" \in May
  /\ sockets' = Append(sockets, [state |-> IF pipe /\ internal = "none" THEN "broken" ELSE "open",
                                 sent |-> 0, piped |-> pipe /\ internal # "none"])
  /\ toChart' = Append(toChart, "connection-established")
  /\ disturbed' = (disturbed \/ SomeOpen)
  /\ UNCHANGED <<pipe, internal, inner, toServer, decoder, status, clicks, undefined>>

\* A chunk of the next events; writing after the end of the internal socket is
\* an error, which unpipes.
Data(c, n) ==
  LET first == sockets[c].sent + 1
      writes == sockets[c].piped /\ internal = "open"
  IN  /\ Defined /\ Reads(c) /\ sockets[c].sent + n <= Events
      /\ sockets' = [sockets EXCEPT ![c].sent = @ + n, ![c].piped = writes]
      /\ inner' = IF writes
                  THEN Append(inner, [from |-> c, first |-> first, last |-> first + n - 1])
                  ELSE inner
      /\ UNCHANGED <<pipe, internal, toServer, toChart, decoder, status, ghosts>>

TheEnd == [from |-> 0, first |-> 0, last |-> 0]

\* The end of a piped connection ends the internal socket too, for good.
EndsInternal ==
  IF internal = "open" THEN internal' = "ended" /\ inner' = Append(inner, TheEnd)
                       ELSE UNCHANGED <<internal, inner>>

Close(c) ==
  /\ Defined /\ Reads(c) /\ (sockets[c].sent < Events => "cut" \in May)
  /\ sockets' = [sockets EXCEPT ![c].state = "closed", ![c].piped = FALSE]
  /\ IF sockets[c].piped THEN EndsInternal ELSE UNCHANGED <<internal, inner>>
  /\ toChart' = IF Open(c) THEN Append(toChart, "connection-closed") ELSE toChart
  /\ UNCHANGED <<pipe, toServer, decoder, status, ghosts>>

\* An error closes the connection without an end.
Error(c) ==
  /\ Defined /\ "lost" \in May /\ Open(c)
  /\ sockets' = [sockets EXCEPT ![c].state = "lost", ![c].piped = FALSE]
  /\ toChart' = toChart \o <<"external-error", "connection-closed">>
  /\ disturbed' = TRUE
  /\ UNCHANGED <<pipe, internal, inner, toServer, decoder, status, clicks, undefined>>

ServerGets(channel) ==
  /\ Defined /\ toServer # <<>> /\ Head(toServer) = channel
  /\ toServer' = Tail(toServer)

ServerRest == UNCHANGED <<toChart, decoder, status, ghosts>>

InternalServerAddress ==
  /\ ServerGets("internal-server-address")
  /\ \/ internal' = "open"
     \/ "late server" \in May /\ UNCHANGED internal
  /\ UNCHANGED <<sockets, pipe, inner>> /\ ServerRest

\* pause and resume name a variable that does not exist.
PauseOrResume ==
  /\ ServerGets("pause") \/ ServerGets("resume")
  /\ UNCHANGED <<server, inner>> /\ ServerRest

\* Mutant of DisablePipe: without a connection the flag stays.
DisablePipeOfSocket ==
  /\ ServerGets("disable-pipe")
  /\ sockets' = IF sockets = <<>> THEN sockets ELSE [sockets EXCEPT ![1].piped = FALSE]
  /\ pipe' = (pipe /\ sockets = <<>>)
  /\ UNCHANGED <<internal, inner>> /\ ServerRest

\* Only the first connection ever made is unpiped.
DisablePipe ==
  /\ ServerGets("disable-pipe")
  /\ sockets' = IF sockets = <<>> THEN sockets ELSE [sockets EXCEPT ![1].piped = FALSE]
  /\ pipe' = FALSE
  /\ UNCHANGED <<internal, inner>> /\ ServerRest

\* ... and piped again; if it has ended, that ends the internal socket, and
\* without an internal socket the handler throws before it sets the flag.
EnablePipe ==
  /\ ServerGets("enable-pipe")
  /\ \/ sockets = <<>> /\ pipe' = TRUE /\ UNCHANGED <<sockets, internal, inner>>
     \/ sockets # <<>> /\ internal = "none" /\ UNCHANGED <<server, inner>>
     \/ /\ sockets # <<>> /\ internal # "none"
        /\ pipe' = TRUE
        /\ sockets' = [sockets EXCEPT ![1].piped = sockets[1].state \in {"open", "broken"}]
        /\ IF sockets[1].state = "closed" THEN EndsInternal ELSE UNCHANGED <<internal, inner>>
  /\ ServerRest

-----------------------------------------------------------------------------
(***************************************************************************)
(* The chart window.                                                       *)
(***************************************************************************)
ChartGets(channel) ==
  /\ Defined /\ toChart # <<>> /\ Head(toChart) = channel
  /\ toChart' = Tail(toChart)

ChartRest == UNCHANGED <<server, inner, toServer, decoder, visualization_enabled, ghosts>>

ConnectionEstablished ==
  /\ ChartGets("connection-established")
  /\ collecting' = TRUE /\ message' = "Collecting data"
  /\ ChartRest

ConnectionClosed ==
  /\ ChartGets("connection-closed")
  /\ message' = "Successfully collected data" /\ UNCHANGED collecting
  /\ ChartRest

ExternalError ==
  /\ ChartGets("external-error")
  /\ message' = "ERROR" /\ UNCHANGED collecting
  /\ ChartRest

\* Mutant of Decodes: every event of a chunk is taken, decoded before or not.
DecodesAll(from, first, last) ==
  IF Len(decoder.decoded) + 1 \in first .. last
  THEN /\ decoder' = [decoded |-> decoder.decoded \o
                                   [i \in 1 .. (last - first + 1) |-> <<from, first + i - 1>>],
                     end |-> decoder.end \/ last = Events]
       /\ UNCHANGED undefined
  ELSE undefined' = TRUE /\ UNCHANGED decoder

\* unpackStream and saveAsCSV on a chunk: the decoder takes the events from the
\* one it expects on; a chunk without that one is its undefined behaviour.
Decodes(from, first, last) ==
  LET next == Len(decoder.decoded) + 1
  IN  IF next \in first .. last
      THEN /\ decoder' = [decoded |-> decoder.decoded \o
                                        [i \in 1 .. (last - next + 1) |-> <<from, next + i - 1>>],
                          end |-> decoder.end \/ last = Events]
           /\ UNCHANGED undefined
      ELSE undefined' = TRUE /\ UNCHANGED decoder

InnerData ==
  /\ Defined /\ inner # <<>> /\ Head(inner) # TheEnd
  /\ inner' = Tail(inner)
  /\ Decodes(Head(inner).from, Head(inner).first, Head(inner).last)
  /\ collecting' = TRUE
  /\ message' = IF collecting THEN message ELSE "Collecting data"
  /\ UNCHANGED <<server, toServer, toChart, visualization_enabled, clicks, disturbed>>

\* Mutant of InnerClose: every end counts as correct.
InnerCloseCorrectly ==
  /\ Defined /\ inner # <<>> /\ Head(inner) = TheEnd
  /\ inner' = Tail(inner)
  /\ collecting' = FALSE /\ message' = "Connection ended correctly"
  /\ UNCHANGED <<server, toServer, toChart, decoder, visualization_enabled, ghosts>>

\* A wrong end is a warning, which covers the message for three seconds.
InnerClose ==
  /\ Defined /\ inner # <<>> /\ Head(inner) = TheEnd
  /\ inner' = Tail(inner)
  /\ IF decoder.end
     THEN collecting' = FALSE /\ message' = "Connection ended correctly"
     ELSE UNCHANGED <<collecting, message>>
  /\ UNCHANGED <<server, toServer, toChart, decoder, visualization_enabled, ghosts>>

Click == Defined /\ clicks < MaxClicks /\ clicks' = clicks + 1

ButtonRest == UNCHANGED <<server, inner, toChart, disturbed, undefined>>

PauseOrResumeButton ==
  /\ Click
  /\ \E channel \in {"pause", "resume"} : toServer' = Append(toServer, channel)
  /\ ButtonRest /\ UNCHANGED <<decoder, status>>

\* Mutant of ResetButton: while collecting, too.
ResetAnyway ==
  /\ Click
  /\ decoder' = NewDecoder
  /\ ButtonRest /\ UNCHANGED <<toServer, status>>

\* While collecting, these two only warn.
ResetButton ==
  /\ Click /\ ~collecting
  /\ decoder' = NewDecoder
  /\ ButtonRest /\ UNCHANGED <<toServer, status>>

ShouldVisualizeButton ==
  /\ Click /\ ~collecting
  /\ visualization_enabled' = ~visualization_enabled
  /\ toServer' = Append(toServer, IF visualization_enabled THEN "disable-pipe" ELSE "enable-pipe")
  /\ message' = IF visualization_enabled THEN message ELSE "Waiting for connection"
  /\ ButtonRest /\ UNCHANGED <<decoder, collecting>>

\* "Unpack to disk" converts a complete file with the decoder of the live data.
UnpackButton ==
  /\ "unpack" \in May /\ Click
  /\ Decodes(0, 1, Events)
  /\ message' = "Converted successfully to CSV"
  /\ disturbed' = TRUE
  /\ UNCHANGED <<server, channels, collecting, visualization_enabled>>

Next ==
  \/ Connection
  \/ \E c \in Conns : \/ \E n \in 1 .. Events : Data(c, n)
                      \/ Close(c) \/ Error(c)
  \/ InternalServerAddress \/ PauseOrResume \/ DisablePipe \/ EnablePipe
  \/ ConnectionEstablished \/ ConnectionClosed \/ ExternalError
  \/ InnerData \/ InnerClose
  \/ PauseOrResumeButton \/ ResetButton \/ ShouldVisualizeButton \/ UnpackButton

Spec == Init /\ [][Next]_vars

-----------------------------------------------------------------------------
Sockets == [state : {"open", "broken", "closed", "lost"}, sent : 0 .. Events, piped : BOOLEAN]

Chunks == [from : 0 .. MaxConns, first : 0 .. Events, last : 0 .. Events]

Switches == {"enable-pipe", "disable-pipe"}

ToServer == Switches \cup {"internal-server-address", "pause", "resume"}

ToChart == {"connection-established", "connection-closed", "external-error"}

\* Types; the decoder never has more than the events of one trace.
TypeOK ==
  /\ sockets \in Seq(Sockets) /\ Len(sockets) <= MaxConns
  /\ pipe \in BOOLEAN /\ internal \in {"none", "open", "ended"}
  /\ inner \in Seq(Chunks) /\ toServer \in Seq(ToServer) /\ toChart \in Seq(ToChart)
  /\ decoder \in [decoded : Seq((0 .. MaxConns) \X (1 .. Events)), end : BOOLEAN]
  /\ Len(decoder.decoded) <= Events
  /\ collecting \in BOOLEAN /\ visualization_enabled \in BOOLEAN
  /\ clicks \in Nat /\ disturbed \in BOOLEAN /\ undefined \in BOOLEAN

\* "Connection ended correctly" is shown only when the decoder has every event
\* of one connection, from the first to EndStream, and nothing else: however
\* often connections were cut, came back, and visualization was switched.
EndedCorrectlyIsWhole ==
  message = "Connection ended correctly" /\ ~disturbed /\ ~undefined =>
    decoder = NewDecoder \/ \E c \in Conns :
      decoder.decoded = [n \in 1 .. Events |-> <<c, n>>]

\* Reset never throws away a part of a connection of which more is to come: the
\* decoder would wait for event 0 for ever.
ResetIsSafe ==
  [][(decoder' = NewDecoder /\ \E k \in DOMAIN decoder.decoded : decoder.decoded[k][1] # 0)
       => internal = "ended" /\ inner = <<>>]_vars

\* What the switch will be when the messages on the way have arrived.
Clicked == {i \in DOMAIN toServer : toServer[i] \in Switches}

Switch == IF Clicked = {} THEN pipe ELSE toServer[Max(Clicked)] = "enable-pipe"

\* New connections are piped to the chart, or not, as the button says: the flag
\* of the server window follows that of the chart window, whatever connections
\* come and go between two clicks.
PipeFollowsButton ==
  internal # "none" => Switch = visualization_enabled

\* The buttons refuse to work "while collecting data", which is over when no
\* connection is open and nothing is on its way.
CollectingEnds ==
  ~SomeOpen /\ inner = <<>> /\ toServer = <<>> /\ toChart = <<>> => ~collecting

=============================================================================
