------------------------------ MODULE Attachments ------------------------------
(***************************************************************************)
(* Attachments (src/src/services/attachments.rs, src/src/integrations/     *)
(* s3.rs): a row in card_attachments and an object in S3, which the client *)
(* writes itself with a presigned URL.  No transaction spans the two: the  *)
(* row is inserted before there is an object, ConfirmUpload reads its size *)
(* from S3, DeleteAttachment removes the object first and then the row,    *)
(* and deleting a card deletes its rows only.                              *)
(*                                                                         *)
(* Abstracted: an object is the number of the PUT that wrote it, which     *)
(* stands for its size; signatures; one tenant; the time a URL is valid is *)
(* any time.  Listing and downloading change nothing.                      *)
(***************************************************************************)
EXTENDS Naturals

CONSTANTS
    AttCard,       \* cards
    AttLimit,      \* bound: attachments ever requested
    AttRequests,   \* bound: ConfirmUpload and DeleteAttachment requests
    MaxPuts        \* bound: PUTs

ASSUME AttAssumption == AttLimit \in Nat /\ AttRequests \in Nat /\ MaxPuts \in Nat

Attachment == 1..AttLimit
AttRequest == 1..AttRequests

VARIABLES
    attCards,    \* the cards that exist
    attRow,      \* card_attachments
    object,      \* S3: key -> what was PUT last, 0 for nothing
    putUrl,      \* attachments whose upload URL has not expired
    puts,        \* number of PUTs so far
    attReq,      \* the requests under way
    stored,      \* ghost: what the clients of an attachment PUT with its URL
    removing,    \* ghost: attachments a DeleteAttachment has got to
    strays       \* ghost: attachments that S3 failed to remove, or that were PUT after it did, or lost their card

attVars == <<attCards, attRow, object, putUrl, puts, attReq, stored, removing, strays>>
attGhosts == <<stored, removing, strays>>

NotAsked == [is |-> "not asked"]
NoRow == [is |-> "gone"]
Row(c, n) == [is |-> "row", card |-> c, size |-> n]
IsRow(a) == attRow[a].is = "row"
IdleRequest == [op |-> "idle", att |-> 0, step |-> "none", size |-> 0]

AttRowSet(cards) == {NotAsked, NoRow} \cup {Row(c, n) : c \in cards, n \in 0..MaxPuts}

AttReqSet ==
    [op : {"idle", "confirm", "delete"}, att : Attachment \cup {0},
     step : {"none", "row read", "head", "object gone", "done"}, size : 0..MaxPuts]

AttTypeOK ==
    /\ attCards \subseteq AttCard
    /\ attRow \in [Attachment -> AttRowSet(attCards)]
    /\ object \in [Attachment -> 0..puts] /\ puts \in 0..MaxPuts
    /\ putUrl \subseteq {a \in Attachment : attRow[a] # NotAsked}
    /\ attReq \in [AttRequest -> AttReqSet]

AttInit ==
    /\ attCards = AttCard
    /\ attRow = [a \in Attachment |-> NotAsked]
    /\ object = [a \in Attachment |-> 0]
    /\ putUrl = {} /\ puts = 0
    /\ attReq = [r \in AttRequest |-> IdleRequest]
    /\ stored = [a \in Attachment |-> {}]
    /\ removing = {} /\ strays = {}

\* Variant: the key is the card and the file name.
KeyOf_File(a) == 1

\* The key of an object holds the id of its attachment, so it is its own.
KeyOf(a) == a

-----------------------------------------------------------------------------
\* RequestPresignedUpload: a row of size 0 (its card must exist) and a URL.
RequestUpload(a, c) ==
    /\ attRow[a] = NotAsked /\ \A b \in 1..(a - 1) : attRow[b] # NotAsked
    /\ c \in attCards
    /\ attRow' = [attRow EXCEPT ![a] = Row(c, 0)]
    /\ putUrl' = putUrl \cup {a}
    /\ UNCHANGED <<attCards, object, puts, attReq, attGhosts>>

\* The client uploads, once or more, whatever became of the row.
Put(a) ==
    /\ a \in putUrl /\ puts < MaxPuts
    /\ puts' = puts + 1
    /\ object' = [object EXCEPT ![KeyOf(a)] = puts + 1]
    /\ stored' = [stored EXCEPT ![a] = @ \cup {puts + 1}]
    /\ strays' = IF a \in removing \/ ~IsRow(a) THEN strays \cup {a} ELSE strays
    /\ UNCHANGED <<attCards, attRow, putUrl, attReq, removing>>

UrlExpires(a) ==
    /\ a \in putUrl
    /\ putUrl' = putUrl \ {a}
    /\ UNCHANGED <<attCards, attRow, object, puts, attReq, attGhosts>>

\* DeleteCard: the rows go with the card, the objects do not.
CardDeleted(c) ==
    /\ c \in attCards
    /\ attCards' = attCards \ {c}
    /\ attRow' = [a \in Attachment |-> IF IsRow(a) /\ attRow[a].card = c THEN NoRow ELSE attRow[a]]
    /\ strays' = strays \cup {a \in Attachment : IsRow(a) /\ attRow[a].card = c}
    /\ UNCHANGED <<object, putUrl, puts, attReq, stored, removing>>

-----------------------------------------------------------------------------
\* ConfirmUpload and DeleteAttachment read the row; an attachment that has none, or
\* that belongs to another card than the one the caller was authorised for, is refused.
ReadRow(r, op, a, checked) ==
    /\ attReq[r] = IdleRequest /\ \A q \in 1..(r - 1) : attReq[q] # IdleRequest
    /\ IsRow(a) /\ attRow[a].card = checked
    /\ attReq' = [attReq EXCEPT ![r] = [op |-> op, att |-> a, step |-> "row read", size |-> 0]]
    /\ UNCHANGED <<attCards, attRow, object, putUrl, puts, attGhosts>>

At(r, op, step) == attReq[r].op = op /\ attReq[r].step = step

\* It is over, and what it knew is forgotten.
Ends(r) == attReq' = [attReq EXCEPT ![r] = [op |-> "confirm", att |-> 0, step |-> "done", size |-> 0]]

\* HEAD: no object yet, or S3 does not answer, is an error.
HeadObject(r) ==
    LET n == object[KeyOf(attReq[r].att)]
    IN  /\ At(r, "confirm", "row read")
        /\ \/ n # 0 /\ attReq' = [attReq EXCEPT ![r].step = "head", ![r].size = n]
           \/ Ends(r)
        /\ UNCHANGED <<attCards, attRow, object, putUrl, puts, attGhosts>>

\* Variant: an upsert, which brings the row back.
Sized_Upsert(a, n) == [attRow EXCEPT ![a] = Row(CHOOSE c \in AttCard : TRUE, n)]

\* UPDATE ... RETURNING: the row may be gone by now, which is an error.
Sized(a, n) == IF IsRow(a) THEN [attRow EXCEPT ![a].size = n] ELSE attRow

WriteSize(r) ==
    /\ At(r, "confirm", "head")
    /\ attRow' = Sized(attReq[r].att, attReq[r].size)
    /\ Ends(r)
    /\ UNCHANGED <<attCards, object, putUrl, puts, attGhosts>>

\* Variant: nothing to remove when no upload was confirmed.
RemovesObject_Confirmed(a) == IsRow(a) /\ attRow[a].size > 0

\* Confirmed or not: the client may have uploaded.
RemovesObject(a) == TRUE

\* The object goes first; a failure is logged and the row is deleted all the same.
RemoveObject(r) ==
    LET a == attReq[r].att
    IN  /\ At(r, "delete", "row read")
        /\ removing' = removing \cup {a}
        /\ \/ /\ object' = IF RemovesObject(a) THEN [object EXCEPT ![KeyOf(a)] = 0] ELSE object
              /\ strays' = strays
           \/ /\ object[KeyOf(a)] # 0
              /\ object' = object
              /\ strays' = strays \cup {a}
        /\ attReq' = [attReq EXCEPT ![r].step = "object gone"]
        /\ UNCHANGED <<attCards, attRow, putUrl, puts, stored>>

\* The DELETE may fail, or the pod die before it: the row stays without an object.
RemoveRow(r) ==
    /\ At(r, "delete", "object gone")
    /\ \/ attRow' = [attRow EXCEPT ![attReq[r].att] = NoRow]
       \/ attRow' = attRow
    /\ Ends(r)
    /\ UNCHANGED <<attCards, object, putUrl, puts, attGhosts>>

AttNext ==
    \/ \E a \in Attachment : Put(a) \/ UrlExpires(a) \/ \E c \in AttCard : RequestUpload(a, c)
    \/ \E c \in AttCard : CardDeleted(c)
    \/ \E r \in AttRequest :
         \/ HeadObject(r) \/ WriteSize(r) \/ RemoveObject(r) \/ RemoveRow(r)
         \/ \E op \in {"confirm", "delete"}, a \in Attachment, c \in AttCard : ReadRow(r, op, a, c)

AttSpec == AttInit /\ [][AttNext]_attVars

-----------------------------------------------------------------------------
(* Properties.                                                             *)

\* The size of a row, whichever confirmation wrote it last, is that of something its
\* own client uploaded: not of another attachment, nor of nothing.
SizeWasUploaded ==
    \A a \in Attachment : IsRow(a) /\ attRow[a].size > 0 => attRow[a].size \in stored[a]

\* A confirmed attachment has lost its object only if a DeleteAttachment of that very
\* attachment got as far as S3: deleting another one never takes it.
LostOnlyWhenDeleted ==
    \A a \in Attachment : IsRow(a) /\ attRow[a].size > 0 /\ object[KeyOf(a)] = 0 => a \in removing

\* An object is left without its row only for the reasons the code leaves to a sweeper:
\* S3 failed to remove it, the client uploaded it afterwards, or its card was deleted.
OrphansExplained ==
    \A a \in Attachment : attRow[a] = NoRow /\ object[KeyOf(a)] # 0 => a \in strays

\* A row that is gone does not come back: a confirmation that was waiting for S3 while
\* the attachment or the card was deleted writes nothing.
RowsStayGone ==
    [][\A a \in Attachment : attRow[a] = NoRow => attRow'[a] = NoRow]_attVars

\* Row and object of an attachment agree but for the reasons the code leaves to a sweeper,
\* and what was deleted stays deleted.
AttachmentsAreWhole ==
    [](SizeWasUploaded /\ LostOnlyWhenDeleted /\ OrphansExplained) /\ RowsStayGone
=============================================================================
