--------------------------- MODULE AddressSpaces ---------------------------
(***************************************************************************)
(* What the paging code promises to processes: every mapped page is a      *)
(* variable of its own.  There are no frames, clusters or copies here: a   *)
(* page holds zeroes until it is stored to, a store changes the one page   *)
(* it was requested for, a clone starts with the content of its parent,    *)
(* and nothing else changes what a page holds, but that a failing or full  *)
(* partition may lose a page's content.                                    *)
(***************************************************************************)
EXTENDS Naturals

CONSTANTS
  Procs, VPages, Values,
  Zero,      \* the content of a page that was never stored to
  Unmapped,  \* what a page outside the segments holds
  NoStore    \* no store is requested

VARIABLES
  content,  \* <<process, page>> -> its content, or Unmapped
  store,    \* the store that is requested, <<page, value>>, or NoStore
  failing   \* did the last step meet a failure of the partition?

asVars == <<content, store, failing>>
Slot   == Procs \X VPages

ASInit ==
  /\ content = [s \in Slot |-> Unmapped]
  /\ store = NoStore
  /\ failing = FALSE

\* A page is mapped, empty or to be loaded with w.
Map(s) ==
  /\ content[s] = Unmapped
  /\ content' = [content EXCEPT ![s] = Zero]
  /\ store = NoStore
  /\ store' = NoStore \/ \E w \in Values : store' = <<s, w>>
  /\ failing' = FALSE

Unmap(s) ==
  /\ content[s] # Unmapped
  /\ content' = [content EXCEPT ![s] = Unmapped]
  /\ store = NoStore \/ store[1] = s
  /\ store' = NoStore
  /\ failing' = FALSE

Request(s, w) ==
  /\ content[s] # Unmapped
  /\ store = NoStore
  /\ store' = <<s, w>>
  /\ failing' = FALSE
  /\ UNCHANGED content

Store ==
  /\ store # NoStore
  /\ content' = [content EXCEPT ![store[1]] = store[2]]
  /\ store' = NoStore
  /\ failing' = FALSE

\* The page may not be stored to, or could not be brought to memory.
Refuse ==
  /\ store # NoStore
  /\ store' = NoStore
  /\ failing' \in BOOLEAN
  /\ UNCHANGED content

Clone(p, q) ==
  /\ \A v \in VPages : content[<<q, v>>] = Unmapped
  /\ content' = [s \in Slot |-> IF s[1] = q THEN content[<<p, s[2]>>]
                                ELSE content[s]]
  /\ failing' = FALSE
  /\ UNCHANGED store

\* The partition failed or was full: pages fall back to a content w.  The code
\* loses one page, for all the clones that still share it; which pages those
\* are is not said here.
Lose(w) ==
  /\ \A s \in Slot : \/ content'[s] = content[s]
                     \/ content[s] # Unmapped /\ content'[s] = w
  /\ DOMAIN content' = Slot
  /\ failing'
  /\ UNCHANGED store

Quiet == failing' \in BOOLEAN /\ UNCHANGED <<content, store>>

ASNext ==
  \/ \E s \in Slot : Map(s) \/ Unmap(s) \/ \E w \in Values : Request(s, w)
  \/ Store
  \/ Refuse
  \/ \E p, q \in Procs : p # q /\ Clone(p, q)
  \/ \E w \in Values : Lose(w)
  \/ Quiet

ASSpec == ASInit /\ [][ASNext]_asVars

===========================================================================
