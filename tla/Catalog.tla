------------------------------- MODULE Catalog -------------------------------
(***************************************************************************)
(* The listings of the platform, read one page after another while the     *)
(* documents change.  Every page is a request of its own that skips        *)
(* (page - 1) * size documents of what the query finds at that moment, and *)
(* most listings count in a second query, side by side with the first.     *)
(***************************************************************************)
EXTENDS Integers, FiniteSets, SequencesExt

CONSTANTS
    MaxDocs,            \* how many documents a collection comes to hold
    Sizes,              \* the page sizes asked for
    MaxPages,           \* where the reader gives up
    NotificationPages   \* 5: the pages of notifications that are served

ASSUME CatalogAssumption ==
    /\ MaxDocs \in Nat /\ MaxPages \in Nat
    /\ Sizes \subseteq Nat \ {0}
    /\ NotificationPages \in 1 .. MaxPages

VARIABLES
    listing, size,      \* what is read, the same on every page
    docs,               \* the documents in the order of their creation
    page,               \* the page in hand
    found, counted,     \* which of its queries have been answered
    pages,              \* the last page, as far as the reader knows
    seen,               \* what the reader was shown so far
    finished,
    edits,              \* how many changes may still happen
    stayed, left, entered, torn     \* history: see the properties

catalogVars == <<listing, size, docs, page, found, counted, pages, seen, finished, edits,
                 stayed, left, entered, torn>>

history == <<stayed, left, entered, torn>>

\* out: the document is there, but the filter does not match it; gone: it was deleted
DocStates == {"in", "out", "gone"}

Sortings == {"natural", "newest", "undefined"}
Totals   == {"none", "apart", "together"}

-----------------------------------------------------------------------------
(* The order of a query                                                    *)

\* No caller names the fields it allows, and then every request is for the newest first
BuildSort(asked, allowed) == IF asked = "" \/ allowed = {} THEN "newest" ELSE asked

\* What a request asks for in sort
Asked == "name"

SongFilter       == {"genreNames", "name", "createdBy"}
SongClientFilter == {"genreNames"}
ArtistFilter     == {"country", "name"}
AlbumFilter      == {"title", "release_date"}
NewsFilter       == {"title", "status"}
ProductFilter    == {"name", "price"}
AdsFilter        == {"title", "isActived"}
ReportFilter     == {"targetType"}
VerificationFilter == {}
PermissionFilter == {"name", "method", "module"}
UserFilter       == {"email", "username", "isPremium", "status", "role"}
RoomFilter       == {"status", "name"}

-----------------------------------------------------------------------------
(* The collections: what the services change in a document that is listed,  *)
(* and whether they delete documents, or mark them as deleted              *)

Collection(changes, deletes) == [changes |-> changes, deletes |-> deletes]

SongDocs      == Collection({"genreNames", "name"}, TRUE)
ArtistDocs    == Collection({"country", "name"}, FALSE)
\* An album has no title: a filter by it finds nothing
AlbumDocs     == Collection({"name", "release_date"}, FALSE)
PlaylistDocs  == Collection({}, TRUE)
CommentDocs   == Collection({}, TRUE)
NewsDocs      == Collection({"title", "status"}, TRUE)
ProductDocs   == Collection({"name", "price"}, TRUE)
AdsDocs       == Collection({"title", "isActived"}, TRUE)
ReportDocs    == Collection({"status"}, FALSE)
VerificationDocs == Collection({"status"}, FALSE)
PermissionDocs == Collection({}, FALSE)
UserDocs      == Collection({"username", "status", "isPremium", "role"}, TRUE)
RoomDocs      == Collection({"name", "status"}, TRUE)
MessageDocs   == Collection({}, FALSE)
LikeDocs      == Collection({}, TRUE)
FollowDocs    == Collection({}, TRUE)
NotificationDocs == Collection({"isRead"}, FALSE)

-----------------------------------------------------------------------------
(* The queries of the repositories                                         *)

Query(order, filter, collection) ==
    [order |-> order, filter |-> filter, docs |-> collection]

\* The projection leaves out createdAt before the sort by it: all documents are equal
SongFindAll      == Query("undefined", SongFilter, SongDocs)
SongFindClient   == Query("natural", SongClientFilter, SongDocs)
ArtistFindAll    == Query(BuildSort(Asked, {}), ArtistFilter, ArtistDocs)
ArtistFindClient == Query("natural", {}, ArtistDocs)
AlbumFindAll     == Query(BuildSort(Asked, {}), AlbumFilter, AlbumDocs)
AlbumFindClient  == Query("natural", {}, AlbumDocs)
PlaylistFindClient == Query("natural", {}, PlaylistDocs)
CommentFindClient == Query("natural", {}, CommentDocs)
CommentFindLatest == Query("newest", {}, CommentDocs)
NewsFindAll      == Query(BuildSort(Asked, {}), NewsFilter, NewsDocs)
ProductFindAll   == Query(BuildSort(Asked, {}), ProductFilter, ProductDocs)
AdsFindAll       == Query(BuildSort(Asked, {}), AdsFilter, AdsDocs)
ReportFindAll    == Query(BuildSort(Asked, {}), ReportFilter, ReportDocs)
VerificationFindAll == Query(BuildSort(Asked, {}), VerificationFilter, VerificationDocs)
PermissionFindAll == Query(BuildSort(Asked, {}), PermissionFilter, PermissionDocs)
UserFindAll      == Query(BuildSort(Asked, {}), UserFilter, UserDocs)
RoomFindAll      == Query("newest", RoomFilter, RoomDocs)
MessageFind      == Query("newest", {}, MessageDocs)
LikeFind         == Query("natural", {}, LikeDocs)
FollowFind       == Query("natural", {}, FollowDocs)
NotificationFind == Query("newest", {}, NotificationDocs)

-----------------------------------------------------------------------------
(* The listings of the services                                            *)

Listing(query, totals) == [query |-> query, totals |-> totals, served |-> MaxPages]

SongsForAdmin    == Listing(SongFindAll, "apart")
SongsForClient   == Listing(SongFindClient, "none")
ArtistsForAdmin  == Listing(ArtistFindAll, "apart")
ArtistsForClient == Listing(ArtistFindClient, "none")
AlbumsForAdmin   == Listing(AlbumFindAll, "apart")
AlbumsForClient  == Listing(AlbumFindClient, "none")
PlaylistsForClient == Listing(PlaylistFindClient, "none")
CommentsOfSong   == Listing(CommentFindClient, "none")
LatestComments   == Listing(CommentFindLatest, "apart")
News             == Listing(NewsFindAll, "apart")
ProductsForAll   == Listing(ProductFindAll, "apart")
Advertisements   == Listing(AdsFindAll, "apart")
Reports          == Listing(ReportFindAll, "apart")
Verifications    == Listing(VerificationFindAll, "apart")
Permissions      == Listing(PermissionFindAll, "apart")
AllUsers         == Listing(UserFindAll, "together")
Rooms            == Listing(RoomFindAll, "apart")
RoomMessages     == Listing(MessageFind, "apart")
LikedSongs       == Listing(LikeFind, "apart")
FollowedArtists  == Listing(FollowFind, "apart")
\* A page after the last that is served is answered with the last
NotificationsOf  == [Listing(NotificationFind, "none") EXCEPT !.served = NotificationPages]

Listings == {
    SongsForAdmin, SongsForClient, ArtistsForAdmin, ArtistsForClient, AlbumsForAdmin,
    AlbumsForClient, PlaylistsForClient, CommentsOfSong, LatestComments, News,
    ProductsForAll, Advertisements, Reports, Verifications, Permissions, AllUsers, Rooms,
    RoomMessages, LikedSongs, FollowedArtists, NotificationsOf}

CatalogTypeOK ==
    /\ listing \in Listings
    /\ size \in Sizes
    /\ docs \in Seq(DocStates) /\ Len(docs) <= MaxDocs
    /\ page \in 1 .. MaxPages
    /\ {found, counted, finished, left, entered, torn} \subseteq BOOLEAN
    /\ pages \in Nat
    /\ seen \in Seq(1 .. MaxDocs)
    /\ edits \in Nat
    /\ stayed \subseteq 1 .. MaxDocs

\* The reader starts when a request for the first page arrives
CatalogInit(budget, atMost) ==
    /\ listing \in Listings
    /\ size \in Sizes
    /\ docs \in BoundedSeq({"in", "out"}, atMost)
    /\ page = 1
    /\ found = FALSE
    /\ counted = FALSE
    /\ pages = 1
    /\ seen = <<>>
    /\ finished = FALSE
    /\ edits = budget
    /\ stayed = {d \in DOMAIN docs : docs[d] = "in"}
    /\ left = FALSE
    /\ entered = FALSE
    /\ torn = FALSE

-----------------------------------------------------------------------------
(* A page                                                                  *)

Matching == {d \in DOMAIN docs : docs[d] = "in"}

\* d is listed before e
Precedes(d, e) == IF listing.query.order = "natural" THEN d < e ELSE d > e

\* What a query without skip and limit would return
Results ==
    {results \in SetToSeqs(Matching) :
        listing.query.order # "undefined" =>
            \A i, j \in DOMAIN results : i < j => Precedes(results[i], results[j])}

\* Mutant: the page is counted from nought
SkipFromNought(p) == p * size

Skip(p) == (p - 1) * size

Served(p) == IF p > listing.served THEN listing.served ELSE p

Slice(results, skip, limit) ==
    SubSeq(results, skip + 1,
           IF skip + limit > Len(results) THEN Len(results) ELSE skip + limit)

\* Mutant: one more than a page is fetched, to know whether there is a next one
PageAndOne(results) == Slice(results, Skip(Served(page)), size + 1)

\* skip and limit
PageOf(results) == Slice(results, Skip(Served(page)), size)

CeilDiv(n, m) == (n + m - 1) \div m

TotalPages == CeilDiv(Cardinality(Matching), size)

Count ==
    /\ listing.totals = "apart" /\ ~counted /\ ~finished
    /\ counted' = TRUE
    /\ pages' = TotalPages
    /\ UNCHANGED <<listing, size, docs, page, found, seen, finished, edits, history>>

\* Without a total the reader goes on until a page is not full
Find ==
    /\ ~found /\ ~finished
    /\ found' = TRUE
    /\ \E results \in Results :
        LET shown == PageOf(results)
        IN /\ seen' = seen \o shown
           /\ pages' = CASE listing.totals = "none"     -> IF Len(shown) < size THEN page
                                                           ELSE page + 1
                         [] listing.totals = "together" -> TotalPages
                         [] listing.totals = "apart"    -> pages
    /\ UNCHANGED <<listing, size, docs, page, counted, finished, edits, history>>

\* The reader turns the page when he has both answers
Turn ==
    /\ found /\ (counted \/ listing.totals # "apart") /\ ~finished
    /\ IF page < pages /\ page < MaxPages
       THEN /\ page' = page + 1
            /\ found' = FALSE
            /\ counted' = FALSE
            /\ UNCHANGED finished
       ELSE /\ finished' = TRUE
            /\ UNCHANGED <<page, found, counted>>
    /\ UNCHANGED <<listing, size, docs, pages, seen, edits, history>>

-----------------------------------------------------------------------------
(* The documents change                                                    *)

\* What the query lists before document d
Ahead(d) == {e \in Matching : Precedes(e, d)}

\* How many of the results the reader has been given or passed over
Passed == IF found THEN page * size ELSE (page - 1) * size

Edit == edits > 0 /\ ~finished /\ edits' = edits - 1

Enter(d) ==
    /\ entered' = (entered \/ Cardinality(Ahead(d)) < Passed)
    /\ torn' = (torn \/ (counted /\ ~found))
    /\ UNCHANGED <<listing, size, page, found, counted, pages, seen, finished, stayed, left>>

Leave(d) ==
    /\ left' = (left \/ Cardinality(Ahead(d)) < Passed)
    /\ stayed' = stayed \ {d}
    /\ UNCHANGED <<listing, size, page, found, counted, pages, seen, finished, entered, torn>>

Create ==
    /\ Edit
    /\ Len(docs) < MaxDocs
    /\ docs' = Append(docs, "in")
    /\ Enter(Len(docs) + 1)

Delete ==
    /\ Edit
    /\ listing.query.docs.deletes
    /\ \E d \in Matching :
        /\ docs' = [docs EXCEPT ![d] = "gone"]
        /\ Leave(d)

\* Updates of what the filter looks at
Changes == listing.query.filter \cap listing.query.docs.changes # {}

UpdateOut ==
    /\ Edit /\ Changes
    /\ \E d \in Matching :
        /\ docs' = [docs EXCEPT ![d] = "out"]
        /\ Leave(d)

UpdateIn ==
    /\ Edit /\ Changes
    /\ \E d \in DOMAIN docs :
        /\ docs[d] = "out"
        /\ docs' = [docs EXCEPT ![d] = "in"]
        /\ Enter(d)

CatalogNext == Count \/ Find \/ Turn \/ Create \/ Delete \/ UpdateOut \/ UpdateIn

-----------------------------------------------------------------------------
InOrder == listing.query.order # "undefined" /\ page <= listing.served

(* Who reads a listing to its end has seen every document that was listed  *)
(* all the while, unless one left the part already read, and pulled the    *)
(* rest forward over the edge of a page, or one entered between the count  *)
(* and the page of a request, so that there seemed to be a page less.      *)
PagesComplete ==
    /\ finished /\ InOrder /\ page >= pages
    /\ ~left /\ ~torn
    => stayed \subseteq Range(seen)

(* No document is shown twice, unless one entered the part already read    *)
(* and pushed the rest over the edge of a page.  Listings in the order of  *)
(* creation cannot be disturbed by new documents.                          *)
PagesOnce == InOrder /\ ~entered => Cardinality(Range(seen)) = Len(seen)

=============================================================================
