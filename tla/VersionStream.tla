--------------------------- MODULE VersionStream ---------------------------
(***************************************************************************)
(* An object of the API server as a controller sees it: a non-empty        *)
(* sequence of versions.  The last one is what the API server stores, the  *)
(* first one is what the informer cache of the operator's client returns   *)
(* from Get (ctrl.NewManager is given no client builder, so reads are      *)
(* cached and writes are not), and the ones between are watch events on    *)
(* their way.  Delivering an event is taking the Tail.                     *)
(*                                                                         *)
(* This stands for resource versions too: the cached copy carries the      *)
(* current resource version exactly when the sequence has one element.     *)
(***************************************************************************)
EXTENDS Naturals, Sequences

Cached(s) == s[1]

Current(s) == s[Len(s)]

Synced(s) == Len(s) = 1

(* All that is stored, cached or on its way. *)
Versions(s) == {s[i] : i \in 1 .. Len(s)}

(* A write that changes nothing gets no new resource version and no event. *)
Store(s, v) == IF v = Current(s) THEN s ELSE Append(s, v)

(* A restarted informer lists before it watches: it misses the history.    *)
Relisted(s) == <<Current(s)>>
=============================================================================
