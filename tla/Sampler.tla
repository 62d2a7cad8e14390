------------------------------- MODULE Sampler -------------------------------
(***************************************************************************)
(* The samples of a heap on their way to the chart: Heap keeps one sample  *)
(* of its memory usage per time (simple_allocation_events_), and the chart *)
(* window asks for the curve of one heap with GetFilteredData              *)
(* (tool/cpp/decoder_wrapper.cc), which thins them out to a number per     *)
(* second.  A sample is named by its time; its usage is not looked at, and *)
(* so a second sample of the same time, which overwrites it, is not one.   *)
(*                                                                         *)
(* The end of the window is computed and not used: a curve goes on to the  *)
(* last sample of the heap.                                                *)
(***************************************************************************)
EXTENDS Integers, Sequences, SequencesExt, FiniteSetsExt

CONSTANTS Frequency,   \* ticks of the traced program's clock per second
          Seconds,     \* starts of windows, in seconds
          Densities,   \* what the user may enter as samples per second
          MaxTime      \* bound: time of the last sample, in ticks

\* More samples per second than ticks give a skip rate of 0, with which the
\* loop of GetFilteredData does not end.
ASSUME SamplerAssumption ==
  /\ Frequency \in Nat \ {0} /\ MaxTime \in Nat
  /\ Seconds \subseteq Nat /\ Densities \subseteq 1 .. Frequency

VARIABLES known,    \* the heap asked for exists
          samples,  \* keys of simple_allocation_events_
          chart,    \* the datasets of the chart: the request, and its points
          calling,  \* GetFilteredData is in its loop ...
          request,  \* ... for this request
          aborted,  \* a build that checks iterators has stopped the tool
          from_sec, lastMemory, temp   \* its local variables

locals == <<request, from_sec, lastMemory, temp>>
vars == <<known, samples, chart, calling, aborted, locals>>

Requests == [from : {s * Frequency : s \in Seconds},
             skip_rate : {Frequency \div n : n \in Densities}]

NoRequest == [from |-> 0, skip_rate |-> 0]

End == MaxTime + 1

\* Mutant of LowerBound: upper_bound.
UpperBound(t) == Min({s \in samples : s > t} \cup {End})

LowerBound(t) == Min({s \in samples : s >= t} \cup {End})

Point(time, sample) == [time |-> time, sample |-> sample]

-----------------------------------------------------------------------------
Init ==
  /\ known = FALSE /\ samples = {}
  /\ chart = [request |-> NoRequest, points |-> <<>>]
  /\ calling = FALSE /\ aborted = FALSE
  /\ request = NoRequest /\ from_sec = 0 /\ lastMemory = End /\ temp = <<>>

\* The decoder runs between two calls, never in one.
Between == ~calling /\ ~aborted

HeapCreate ==
  /\ Between /\ known' = TRUE
  /\ UNCHANGED <<samples, chart, calling, aborted, locals>>

Sample(t) ==
  /\ Between /\ known /\ \A s \in samples : s < t
  /\ samples' = samples \cup {t}
  /\ UNCHANGED <<known, chart, calling, aborted, locals>>

\* The chart gets false instead of datasets.
GetFilteredDataOfNoHeap(r) ==
  /\ Between /\ ~known
  /\ chart' = [request |-> r, points |-> <<>>]
  /\ UNCHANGED <<known, samples, calling, aborted, locals>>

GetFilteredData(r) ==
  /\ Between /\ known
  /\ calling' = TRUE /\ request' = r
  /\ from_sec' = r.from /\ lastMemory' = LowerBound(r.from) /\ temp' = <<>>
  /\ UNCHANGED <<known, samples, chart, aborted>>

\* Undefined behaviour at the start of the call: the usage behind end() is named
\* where no sample is at or after the start of the window, and end() of an empty
\* map is decremented.  A build that checks iterators stops here; in others both
\* only form addresses, and the call goes on as above.
GetFilteredDataAborts(r) ==
  /\ Between /\ known /\ LowerBound(r.from) = End
  /\ aborted' = TRUE
  /\ UNCHANGED <<known, samples, chart, calling, locals>>

InLoop == calling /\ LowerBound(from_sec) # End

Advance ==
  /\ from_sec' = from_sec + request.skip_rate
  /\ UNCHANGED <<known, samples, chart, calling, aborted, request>>

\* Mutants of Gap: the point is of the next sample, not of the last; the loop
\* continues before it has moved on.
GapOfNext ==
  /\ InLoop /\ LowerBound(from_sec) - from_sec > request.skip_rate
  /\ temp' = Append(temp, Point(from_sec, LowerBound(from_sec)))
  /\ Advance /\ UNCHANGED lastMemory
GapContinues ==
  /\ InLoop /\ LowerBound(from_sec) - from_sec > request.skip_rate
  /\ UNCHANGED vars

\* Nothing happens for longer than the skip rate: the last usage goes on.
Gap ==
  /\ InLoop /\ LowerBound(from_sec) - from_sec > request.skip_rate
  /\ temp' = Append(temp, Point(from_sec, lastMemory))
  /\ Advance /\ UNCHANGED lastMemory

\* Mutant of Show: the sample is shown, and the loop goes on right behind it.
ShowEvery ==
  /\ InLoop /\ LowerBound(from_sec) - from_sec <= request.skip_rate
  /\ temp' = Append(temp, Point(LowerBound(from_sec), LowerBound(from_sec)))
  /\ lastMemory' = LowerBound(from_sec)
  /\ from_sec' = LowerBound(from_sec) + 1
  /\ UNCHANGED <<known, samples, chart, calling, aborted, request>>

Show ==
  /\ InLoop /\ LowerBound(from_sec) - from_sec <= request.skip_rate
  /\ temp' = Append(temp, Point(LowerBound(from_sec), LowerBound(from_sec)))
  /\ lastMemory' = LowerBound(from_sec)
  /\ Advance

\* Mutant of Return: the curve is drawn out to where the loop stopped.
ReturnToTheEdge ==
  /\ calling /\ ~InLoop
  /\ chart' = [request |-> request, points |-> Append(temp, Point(from_sec, lastMemory))]
  /\ calling' = FALSE
  /\ UNCHANGED <<known, samples, aborted, locals>>

Return ==
  /\ calling /\ ~InLoop
  /\ chart' = [request |-> request, points |-> temp]
  /\ calling' = FALSE
  /\ UNCHANGED <<known, samples, aborted, locals>>

Next ==
  \/ HeapCreate
  \/ \E t \in 0 .. MaxTime : Sample(t)
  \/ \E r \in Requests :
       GetFilteredData(r) \/ GetFilteredDataOfNoHeap(r) \/ GetFilteredDataAborts(r)
  \/ Gap \/ Show \/ Return

\* The loop runs on: the window waits for it.
Spec == Init /\ [][Next]_vars /\ WF_vars(Gap \/ Show \/ Return)

-----------------------------------------------------------------------------
Points == Seq([time : Nat, sample : samples])

\* Types; every point is of a sample there is.  lastMemory may be the address
\* behind end(), which is never looked at.
TypeOK ==
  /\ known \in BOOLEAN /\ calling \in BOOLEAN /\ aborted \in BOOLEAN
  /\ samples \subseteq 0 .. MaxTime
  /\ chart.request \in Requests \cup {NoRequest} /\ chart.points \in Points
  /\ request \in Requests \cup {NoRequest}
  /\ from_sec \in Nat /\ lastMemory \in samples \cup {End} /\ temp \in Points

\* The curve never goes back in time, and is as thin as the user asked for:
\* two points may be close to each other, even the same, but not three.
CurveIsThin ==
  \A i, j \in DOMAIN temp :
    /\ i < j => temp[i].time <= temp[j].time
    /\ i + 2 <= j => temp[i].time + request.skip_rate <= temp[j].time

\* What a point leaves out.  Between the sample it shows and its own time there
\* may be newer samples, and through a gap an outdated usage is drawn for as long
\* as the gap lasts; but all of them came less than a skip rate behind the sample
\* shown.  Only before the first sample of the window a usage yet to come is shown.
LeftOutIsClose ==
  \A i \in DOMAIN temp :
    LET past == {s \in samples : request.from <= s /\ s <= temp[i].time}
    IN  IF past = {} THEN temp[i].sample = LowerBound(request.from)
        ELSE /\ temp[i].sample <= temp[i].time
             /\ Max(past) < temp[i].sample + request.skip_rate

\* Every sample the loop has passed is in the curve, or is less than a skip
\* rate behind one that is.
NothingIsSkipped ==
  \A s \in samples : request.from <= s /\ s < from_sec =>
    \E i \in DOMAIN temp : /\ temp[i].sample = temp[i].time
                           /\ temp[i].time <= s /\ s < temp[i].time + request.skip_rate

\* While the trace goes on, the same request gives the same curve and more: the
\* past that the user has seen does not change.
PastStays ==
  [][chart'.request = chart.request => IsPrefix(chart.points, chart'.points)]_vars

\* Every request is answered: the loop comes to the last sample, however long
\* the gaps before it are.
CallsEnd == calling ~> ~calling

=============================================================================
