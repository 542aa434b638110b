-------------------------------- MODULE PostStore --------------------------------
(* What the posts application promises to those who use its page only, whatever   *)
(* fails: a post has one life.  Its file is stored once and never replaced, the   *)
(* post is created once, for that file, and only a deletion of the post takes the *)
(* file away, before it takes the post.  It is not promised that a stored file    *)
(* ever gets a post, that a removed file is gone, or that a post whose file is    *)
(* being removed is no longer shown.                                              *)
CONSTANTS Posts,     \* posts that may come to exist
          Files,     \* what may be uploaded for them
          Described, \* what a post says of each of these
          Requests,  \* requests that are answered
          None       \* no file, no post

VARIABLES stage,   \* stage[i]: how far post i has come in its life
          media,   \* media[i]: the file stored for post i
          row,     \* row[i]: what post i says of its file, None without post i
          result   \* result[r]: what r was told, <<>> while (or if never) answered

pvars == <<stage, media, row, result>>

PInit == /\ stage = [i \in Posts |-> "new"]
         /\ media = [i \in Posts |-> None]
         /\ row = [i \in Posts |-> None]
         /\ result = [r \in Requests |-> <<>>]

Tell(r, what) == /\ result[r] = <<>>
                 /\ result' = [result EXCEPT ![r] = what]

MayTell(what) == \/ UNCHANGED result
                 \/ \E r \in Requests : Tell(r, what)

Becomes(i, where) == stage' = [stage EXCEPT ![i] = where]

Upload(i) == /\ stage[i] = "new"
             /\ Becomes(i, "stored")
             /\ \E f \in Files : media' = [media EXCEPT ![i] = f]
             /\ UNCHANGED <<row, result>>

Post(i) == /\ stage[i] = "stored" /\ media[i] # None
           /\ Becomes(i, "posted")
           /\ row' = [row EXCEPT ![i] = Described[media[i]]]
           /\ MayTell(<<"posted">>)
           /\ UNCHANGED media

Remove(i) == /\ stage[i] \in {"posted", "removing"}
             /\ Becomes(i, "removing")
             /\ media' = [media EXCEPT ![i] = None] \/ UNCHANGED media
             /\ UNCHANGED <<row, result>>

Drop(i) == /\ stage[i] = "removing"
           /\ row' = [row EXCEPT ![i] = None]
           /\ MayTell(<<"deleted">>)
           /\ UNCHANGED <<stage, media>>

Show(r, i) == /\ row[i] # None
              /\ Tell(r, <<"shown", row[i]>>)
              /\ UNCHANGED <<stage, media, row>>

Miss(r, i) == /\ row[i] = None
              /\ Tell(r, <<"missing">>)
              /\ UNCHANGED <<stage, media, row>>

PNext == \E i \in Posts : \/ Upload(i) \/ Post(i) \/ Remove(i) \/ Drop(i)
                          \/ \E r \in Requests : Show(r, i) \/ Miss(r, i)

PSpec == PInit /\ [][PNext]_pvars
==================================================================================
