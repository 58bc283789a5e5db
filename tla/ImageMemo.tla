----------------------------- MODULE ImageMemo -----------------------------
(***************************************************************************)
(* What the reconciler promises about release images: for as long as one   *)
(* process lives, each image has one content, taken from what the registry *)
(* held for it in the meantime, and every service that asks gets that one. *)
(***************************************************************************)
CONSTANTS
    Service,
    Image,
    ImageOf,             \* the image that each service asks for
    Content,             \* what the registry may hold under the name of an image
    None

VARIABLES
    memo,                \* the content of each image, once known
    given,               \* the content each service was given
    held                 \* contents of each image since the process started

memoVars == <<memo, given, held>>

MemoInit ==
    /\ memo = [i \in Image |-> None]
    /\ given = [s \in Service |-> None]
    /\ held \in [Image -> SUBSET Content]

(* The first service to ask settles the content. *)
Provide(s, c) ==
    /\ \/ memo[ImageOf[s]] = None /\ c \in held[ImageOf[s]]
       \/ memo[ImageOf[s]] = c
    /\ memo' = [memo EXCEPT ![ImageOf[s]] = c]
    /\ given' = [given EXCEPT ![s] = c]
    /\ UNCHANGED held

Replace(i, c) ==
    /\ held' = [held EXCEPT ![i] = @ \cup {c}]
    /\ UNCHANGED <<memo, given>>

(* A new process knows nothing. *)
Forget ==
    /\ memo' = [i \in Image |-> None]
    /\ given' = [s \in Service |-> None]
    /\ \A i \in Image : held'[i] \subseteq held[i]

MemoNext ==
    \/ \E s \in Service, c \in Content : Provide(s, c)
    \/ \E i \in Image, c \in Content : Replace(i, c)
    \/ Forget

MemoSpec == MemoInit /\ [][MemoNext]_memoVars
=============================================================================
