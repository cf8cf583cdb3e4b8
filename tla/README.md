# GoDom in TLA+

GoDom is a small Go web application: server-rendered pages, a websocket hub with
rooms, accounts with sessions, invites and an admin panel over a SQLite document
store, and image uploads. This directory holds TLA+ models of it, the TLC
configurations that check them, and TLAPS proofs about the hub, the accounts, the
sessions and the image store.

    tlc -config MCHub.cfg MCHub.tla          # one run; see the table of runs
    tlapm HubProofs.tla                      # the proofs of one module

`PROJECT.json` lists the runs, the lines of source behind every definition, the
hazards of the code, a mutant for every checked property, the findings and the
theorems.

## Inventory

| Component | Source | State | Operations | What makes it correct |
|---|---|---|---|---|
| Hub | `websocket/websocket.go` `Run` | `Rooms`: a set of clients per room; each client's `Send` channel | register, unregister, broadcast to a room or to one id, evict a slow client | a closed channel is never used; nothing is lost, doubled or reordered for a client that stays; one slow client stops nobody |
| Pumps | `ReadPump`, `WritePump`, `CreateWebsocket` | one connection and two goroutines per client | read a command and run its handler; write what the channel holds; tear down | both end together; what was accepted is written before a clean end |
| Command registry | `NewCommandRegistry`, `RegisterWebsocket` | command -> handler | register (start-up only), look up | filled before the server listens |
| User store | `auth/sqlstore.go` | documents `user:<id>` and `email:<email>`, a mutex per process | create, look up (with backfill of old emails), update role, delete, count | the two documents agree; lookups find who is there; roles change only where they are meant to |
| Registration, login | `auth/handlers.go` | a request's local variables | check mode, create user, consume invite, roll back; verify, open session | an invite is worth one account; a session is for who logged in |
| Invites, mode | `auth/sqlstore.go` | `invite:<token>`, `config:registration_mode` | create, consume, expire; set, get | used once; never wasted |
| Admin panel | `admin/handlers.go` | none of its own | change role, set mode, create invite | there is always an admin |
| Admin command | `admin/bootstrap.go`, `main.go` | none; a process of its own on the same database | `admin create` | who was promised an admin has one |
| Sessions | `auth/session.go`, `auth/sqlstore.go` | `session:<id>`, a cookie | create, get (expired ones are removed), delete | no session outlives its end or its logout |
| In-memory stores | `auth/store.go`, `auth/admin_store.go`, `auth/session.go` | maps under a mutex | the same interfaces | a reference for the SQLite store; unused by `main` |
| Document store | `database/store.go` | table `documents` | Put, Get, Delete, List, Query | each call atomic |
| Image store | `database/images.go`, `home.go` | files and table `images` | upload, get, list, delete, serve | every row has its file, every file its row; paths stay inside the root |
| Html builder | `html/html.go` | trees of nodes | build, render | nothing given to a page is lost; the root reaches every URL |

How they interact. A websocket client's ReadPump calls a command handler, which
sends on `Broadcast`; `Run` takes it and fills the clients' channels; their
WritePumps write to the connections. HTTP handlers call the stores directly, each
request in a goroutine of its own; nothing is shared but the database and the
store's mutex. `admin create` is the same binary in a second process, so that it
shares the database and not the mutex. SQLite is opened in WAL mode without a busy
timeout and with Go's connection pool, so any operation may fail with "database is
locked" while another writes: a failed operation is normal operation here.

Hard behaviours: the rendezvous of pumps and `Run`, eviction and unregistration of
one client in either order, full channels, dead peers; a user spread over two
documents without a transaction, unlocked lookups that write, check-then-act in
handlers, rollback after a failed second step, failures and crashes between any
two document operations, a second process; a session read, compared with the
clock and removed in separate steps while others use or end it, and a browser that
sends what a lost answer left it with; an upload that touches disk and table one
after the other; and, without any concurrency, the edges of a few functions: names
of files, paths that leave the image directory, a duration that overflows, lists
inside a page.

## Modules

| Module | What it is |
|---|---|
| `RoomFeed` | abstract specification: what the hub promises a client of a room |
| `Hub` | the hub: `Run` and the pumps of every client |
| `HubRefinement` | the mapping of `Hub` to `RoomFeed` |
| `MCHub` | instances of `Hub` for TLC |
| `HubProofs` | types, the channels, the account of messages, what neighbours see and the ends of clients in `Hub`, and that it implements `RoomFeed`, proved |
| `UserStore` | the calls of `SQLiteStore` on users, one document operation per step |
| `Accounts` | the handlers, the admin command, invites and mode, as clients of `UserStore` |
| `MemoryStore` | the in-memory stores, one step per method: what the interfaces promise |
| `AccountsRefinement` | the mapping of `Accounts` to `MemoryStore` |
| `MCAccounts` | instances of `Accounts` for TLC |
| `AccountsProofs` | types of `Accounts`, and where a step of a call or handler leads, proved |
| `OwnershipProofs` | addresses, invites, the mutex, roles and the last admin in `Accounts`, proved |
| `FaultFreeProofs` | what one process without failures keeps of `Accounts`, and that it implements `MemoryStore`, proved |
| `Sessions` | both session stores under login, visits and logout, with the browser's cookie |
| `MCSessions` | instances of `Sessions` for TLC |
| `SessionsProofs` | everything the runs check of `Sessions`, proved |
| `Images` | an upload as the file operations and statements of the handler and the image store |
| `MCImages` | instances of `Images` for TLC |
| `ImagesProofs` | everything the runs check of `Images`, proved |
| `Html` | the builder of pages: nodes made of arguments, and what they render to |
| `ImagePaths` | from a file name to a path below the image directory |
| `InviteTtl` | from hours to the end of an invite, in an integer of bounded width |
| `MCHelpers` | the three of them for TLC, one input per state |
| `FoldLemmas` | induction for folds, `FlattenSeq` and recursive functions, proved for any operator |
| `HelperProofs` | what the run checks of the three, proved for inputs of any size |

### Hub

`rooms` and `clients` are `h.Rooms`; `sendBuf`, `sendState` are each client's `Send`
channel and who closed it; `readPump` and `writePump` are the program counters of
its goroutines, `outgoing` and `inHand` their local message, `conn` its connection.
`Register`, `Unregister` and `Broadcast` are unbuffered, so a send and its receipt
are one action (`HubRegister`, `HubUnregister`, `HubBroadcast`). The range loop over
a room is not atomic to the WritePumps: `HubBroadcast` fixes which clients the loop
visits, and `HubSend` or `HubEvict` visits them one by one in any order (Go's map
order). `h.Mu` is taken by `Run` alone and is left out. Contents are serial
numbers; messages `ReadPump` ignores change nothing; a message that is not JSON
ends it, as an error does (`ReadFail`). A write on an open connection may fail or
never return. `wire` and `feed` are history variables.

### UserStore and Accounts

A request makes one call at a time: `at[r]` is the next step of the call, `frame[r]`
its parameters and variables, `answer[r]` what it returned. Every `Get`, `Put`,
`Delete` and `List` of the document store is one step; `s.mu` is `mu[p]` for process
`p`, taken with the first operation of a locked method and given back with its last.
`Accounts` adds a handler's own position (`phase`), its form values (`input`), the
invites and the mode. A handler's steps are the calls it makes, in its order. An
email is a name and a form, `lower` or `mixed`; users that are there at the start may
have mixed ones, as the backfill of `GetByEmail` and its test
(`auth/sqlstore_test.go:82`) have it, but no two with one name. A random id or token
never repeats. Passwords are left out: comparing one may fail, and hashing one may.
Roles of a form include one in capitals and one that is none. With `"fail"` a
document operation may fail, and with `"crash"` a process may die between two steps
(its requests and its mutex are gone, the documents stay); `MaxFaults` bounds both.
`steady` is a history variable of `LookupFinds`.

### MemoryStore

`auth/store.go` and `auth/admin_store.go` hold their lock from the beginning of a
method to its end, so a call is one step there. That is what the interfaces of
`auth/interfaces.go` promise a handler, and `AccountsRefinement` states that the
SQLite stores keep it: every step of every handler is one call on the in-memory
stores or a stutter. An account is there from the moment its user document is (the
mutex keeps others from the index entry until it agrees), so `byEmail` is computed
from the documents; an invite is used from the moment `ConsumeInvite` has read it
under the mutex, so `InviteAsTaken` looks ahead to the write. This holds for one
process, without failures, over emails in normal form: the three findings and the
properties of `accounts_faults` say what is left otherwise. What is compared is what
is stored. Roles are in normal form there as well, but not for the same reason in both:
the in-memory `UpdateRole` refuses any other (`auth/store.go:129`), the one of SQLite
normalises it first (`auth/sqlstore.go:193`). So `ADMIN` in the form is an error to one
store and a promotion to the other, and `register`, which has a role change, compares
the second with a call of `UpdateRole("admin")`.

### Sessions

`pc[r]` is the next step of a request or its answer, `cookie[r]` the cookie it was sent
with, `copy[r]` the `Session` its handler holds, `jar` what the browsers hold. `kind`
chooses between the two stores: `SessionStore` does `Get` in one step under its lock and
forgets everything in a restart, `SQLiteStore` reads the document, looks at the clock
and removes it in three steps. Times that went through JSON have lost their monotonic
reading, so the clock of the SQLite store may be set back (`SetBack`) and the other may
not. A document operation may fail: a read that fails is answered like an unknown
session or user (`ReadFails`; `Get` of a session has no error to return, and
`CurrentUser` drops the one of `GetByID`), a removal that fails is not noticed at all
(`DeleteFails`), and only a login whose session cannot be stored says so (`failed`). So
with the database busy a good session is refused and the next visit accepted; `unread`
holds the visits this happened to. An answer may be lost, so that the browser keeps what
it had. `ChangeUser` stands for the panel and for rollbacks: a role changes or the user
goes, at any time. `over` holds the sessions that a visit found gone, expired and
removed, or without a user, or that a logout removed, `late[r]` whether `r` was sent
with one of them, `seen[r]` what was true of its session and its user before each step
since it was sent (`Watch`); they and `unread` are history variables of the three
properties.

### Html, ImagePaths, InviteTtl

Pure functions, as operators; each module ends with a machine that builds inputs, so
that a run tries every input of up to a size. In `Html` nodes are pointers, hence
numbers in a heap: `NewNode` runs its arguments over an empty node as `Init` and `Ch`
do, and `RenderCtx` gives a sequence of tokens, since attributes come out in no fixed
order. A URL attribute (`href`, `src`, `action`, `hx-*`) and a plain one may hold the
same local URL and only the first is rooted: the page's `ws-connect` (`home.go:114`) is
a plain one, and goes out as it was given. In `ImagePaths` a character stands for all
that the functions treat alike (a letter, a capital, a digit, the dash, the blank, the
dot and both slashes), and the functions of `strings`, `filepath` and `path` that are
called are written down with what they do at their edges. In `InviteTtl` the `int64` is
one of 256 values and an hour is 5 of them, which keeps the order of everything that is
compared; its proof is for every width.

### Images

`pc[r]` is the next operation of upload `r` and in the end its outcome: `ok`, `failed`
and `refused` are the three redirects of `uploadImageHandler`, `panicked` is the use
of a nil record. `file` is the image directory, `temp[r]` the temporary file of
`UploadImage`, `row` the table `images`. A file's content is the upload it came from
and whether it is all there, so that `kind` gives the content type that the handler
reads back from the row. `buildStoredImagePath` is the free choice of a path: the
clock may stand still or be set back. `AfterFailure` says where an operation that
fails leaves the upload; the deferred removal of the temporary file is a step,
`Cleanup`, and stops being owed at the rename. After a crash the server starts again
on what is left on disk, and uploads that had not begun go on. `Listed` and `Served`
are what the home page and the file handler show. `alone` is a history variable of
`UploadedStays`.

## Runs

| Run | Instance | Checks |
|---|---|---|
| `hub` | 3 clients, 2 rooms, two clients with one id, channel of 1, 3 messages | `TypeOK`, `NoSendOnClosed`, `NothingLostInside`, `NeighboursAgree`, `CleanEndDeliversAll`, `ImplementsRoomFeed`, `EmptyRoomOnlyByEviction`, `AfterCloseOnlyDrain` |
| `hub_live` | 2 clients, channel of 1, 3 messages to one of them, fairness | `SendersServed`, `PumpsEndTogether`, `EvictedEventuallyGone` |
| `register` | 2 registrations, 1 login, 1 role change, 1 stored user, 3 addresses, 1 token, open and by invite, no failures | `TypeOK`, `IndexAgrees`, `InviteBacked`, `LookupFinds`, `ImplementsMemoryStore` |
| `roles` | 1 role change, 1 login, 1 registration, 2 mixed emails, 1 failure | `RolesOnlyByUpdateRole`, `AdminRemains`, `SessionForOwner` |
| `accounts_faults` | 2 registrations, `admin create`, 1 mixed email, 2 failures or crashes | `IndexNeverLies`, `InviteNeverWasted` |
| `accounts_live` | 1 registration, 1 login, 1 panel post, 1 mixed email, 1 failure, fairness | `RequestsEnd` |
| `sessions` | 1 login, 2 visits, 1 logout of one browser, lifetime 1, clock to 2, 2 failures, crashes or set-backs, both stores | `TypeOK`, `RefusalIsFinal`, `RefusedForReason`, `AcceptedForReason` |
| `images` | 3 uploads, 2 paths, 2 failures or crashes | `TypeOK`, `WholeFiles`, `UploadedStays`, `GalleryShowsImages`, `NonImagesLeave`, `NilRecordOnlyByCollision`, `TempsRemoved` |
| `helpers` | pages of 3 nodes with lists of 2, names of 5 characters, paths of 7, 0 to 120 hours | `ListsLeaveNoTrace`, `RootReachesAll`, `OnlyEmptyDisappears`, `AcceptsExactlyInside`, `StoredPathTaken`, `NameAndExtensionKept`, `TtlHonoured` |
| `last_admin` | 2 role changes at once | refutes `AdminRemains` |
| `duplicate_email` | 1 registration over a mixed email | refutes `NoDuplicateEmail` |
| `promotion` | 1 login, `admin create`, 1 mixed email | refutes `PromotionSticks` |

Why the bounds are enough for the cases meant. A channel of one is full after one
message, so the second evicts, and a third message is one that comes after the eviction;
two clients with one id and a third in another room give the directed message a choice
and the room filter something to refuse. `hub_live` addresses one client only, which
makes it the one that can be slow, and the other the one that must not suffer. Two
registrations are rivals for one token or for one address, as they choose among three
addresses of which a stored user has one; a rollback meets a registration of the same
address and a login looking it up. One role change at a time is what the handler's check
is good for; two refute it. Every run with users from before normalisation has each of
them in every role. `register` starts from `OneStartSpec` of `MCAccounts`: its stored
user has one fixed name, since names are interchangeable, and its invite is one that may
end, which does all that others do. It has no panel post: a role change and a panel post
together are too large to finish, and of the two only the role change has several steps;
the two panel posts, one operation each, are compared with the in-memory stores by the
theorem `StoresAgree` and run in `accounts_live`. One failure is enough there: what it
has to meet is each early return once, with another request waiting; those of
`UpdateRole` are not in that run. Two visits with one cookie are one that is under way
when the session ends and one that is sent later; the second clock tick passes the end
of a session of lifetime 1, and two faults are a set-back and a failed removal, or a
restart and a lost session. Three uploads to a path are one that is there, one that
replaces it and one that gets between the two; the second path is for an upload that
must not be touched; two faults are a failure and the failure of what tidies up after
it. Three nodes are `Nil()`, a node and its parent, which may hold both in a list; seven
characters are enough for two `..`, a name and the slashes between them; the one word of
`helpers` is a local URL, so that plain and URL attributes hold the same; 120 hours of 5
pass the largest value of 127 and both the sign and the whole width wrap.

`images`, `sessions` and `helpers` do not check for deadlock: every upload and every
request is made once and ends, and inputs are bounded, so there is a last state
that has nothing to do.

### What the three refuting runs show

* `last_admin`: `userRoleHandler` counts admins and then demotes, with nothing held
  over both. Two demotions at once both count two.
* `duplicate_email`: `createUserWithRole` asks the index alone, and a mixed-case email
  has no entry under its normal form until somebody logs in with it. Its owner, or
  anyone else, may register the same address; from then on the index leads to the
  new account only.
* `promotion`: the backfill reads and writes a whole user document under the mutex
  of the server; `admin create` writes the role from its own process in between and
  is undone, after it printed "set admin role for existing user".

`IndexAgrees`, `InviteBacked`, `LookupFinds` and `ImplementsMemoryStore` hold in
`register` because it has one process, no failure and no mixed email; where there are
several processes, failures or mixed emails only the weaker `IndexNeverLies` and
`InviteNeverWasted` hold, which `accounts_faults` checks.
`LookupFinds` fails with a crash and a rollback: the crash leaves a user without an
index entry, the address is registered again, and while that second account is being
taken back the entry leads to nobody. `IndexNeverLies` says nothing of users without an
entry, nor of entries whose user is gone.
A crash between `CreateUser` and `ConsumeInvite` leaves an account that no invite paid
for; a crash between the two documents of a user leaves one without the other.

### Fairness

`LiveSpec` of `Hub`: strong fairness of each rendezvous with `Run` (Go's `select` takes
a ready case at random and a channel serves waiting senders in turn; weak fairness
would not do, since `Run` is away from its select while it loops); weak fairness of the
loops of `Run`, of a WritePump that has something to take or whose channel ended, of
the close in the deferred functions, and of the failure of a read or write on a
closed connection. Nothing makes a peer send, or take what is written, because the
code sets no deadline. `EvictedEventuallyGone` states as its own hypothesis that the
peer takes what is left for it, or the connection breaks: without it an evicted
client lingers.

`LiveSpec` of `Accounts`: strong fairness of each request's steps, as goroutines are
scheduled and `sync.Mutex` hands itself to a goroutine that has waited long enough.
`Verified`, `ReadTarget` and the like have no fairness of their own: the outcome of a
step is free.

## Proofs

`HubProofs` proves, for all sets of clients, rooms and ids, every capacity and any
bound on messages, from `HubAssumption` (the shapes of the constants) alone:

* `TypeCorrect`: `Spec => []TypeOK`
* `NeverSendsOnClosed`: `Spec => []NoSendOnClosed`
* `NothingIsLost`: `Spec => []NothingLostInside`

`NoSendOnClosed` is not inductive: that a client still to be visited by the loop has
an open channel follows only if it is a member of the message's room and no other
step of `Run` comes in between. `HubInv` therefore adds `LoopInv` (the loop's message
and its remaining clients belong together, and the clients are members of that
room), `MemberInv` (membership, an open channel and the phase of the ReadPump: a
client is a member only of its room, between registering and unregistering, and has
been closed by exactly one of eviction and unregistration otherwise) and `WriterInv`
(a WritePump runs only for a registered client, and what it has in hand agrees with
where it is). `Control` is their conjunction with `TypeOK`; it is preserved by each
action on its own lemma's account, and `FlowKept` then carries `NothingLostInside`
over each step, resting on three facts about sequences (`Singleton`, `TakeHead`,
`ConcatAppend`).

It goes on from `Control` to the ends of connections:

* `CleanEnds`: `Spec => []CleanEndDeliversAll`
* `ClosedStaysClosed`: `Spec => AfterCloseOnlyDrain`
* `RoomsGo`: `Spec => EmptyRoomOnlyByEviction`

`RoomsGo` is about steps: `HubUnregister` drops the room with its last client, so that
only `HubEvict` leaves one empty, and it has then evicted the only client there was.
`EndInv` adds what a WritePump that is done must have left behind: an empty
and closed channel, unless it still has in hand the message whose write failed.

* `NeighboursSeeTheSame`: `Spec => []NeighboursAgree`

It is proved of `feed`, what `Run` accepted for each client, of which the wire is a
first part (`WireIsPrefix`, from `NothingLostInside`). `FeedInv` says that a message that
waits to be broadcast is new to everybody (`FreshInv`), that any two feeds agree between
the messages they share (`OrderInv`) and, so that a broadcast extends that agreement,
that the clients who are in a room now are level: after a message they share, their
feeds go on with the same messages for the whole room (`LevelInv`). A client joins with
an empty feed (`NewcomerInv`), and a broadcast for the room is accepted for all its
clients in one step.

The last part of `HubProofs` is `HubRefines`: `Spec => ImplementsRoomFeed`. A client's
subscription is read off its membership and off who closed its channel. `HubRegister`
becomes `Join`, `HubUnregister` `Leave` (or nothing, after an eviction), `HubBroadcast`
`Publish`, a successful write `Deliver` and `HubEvict` `Evict`; every other step is a
stutter. `NothingLostInside` places what is not yet on the wire in hand, channel and
loop, and gives the two bounds of `RoomFeed`: whoever is evicted is more than a full
channel behind, and nobody was further behind than that when a message was published.

`ImagesProofs` proves, for any number of uploads, paths, failures and crashes, from
`ImagesAssumption`:

* `ImagesTyped`: `Spec => []TypeOK`
* `ServesWholeFiles`: `Spec => []WholeFiles`
* `UploadsStay`: `Spec => []UploadedStays`
* `NonImagesGo`: `Spec => []NonImagesLeave`
* `PanicOnlyByCollision`: `Spec => []NilRecordOnlyByCollision`
* `GalleryHasFiles`: `Spec => []GalleryShowsImages`
* `TempsTidied`: `Spec => []TempsRemoved`

For the first three, `ImagesInv` adds to them what an upload has staged (`TempInv`),
that nobody else works on the path of an upload that is alone (`AloneInv`) and what such
an upload has put in place so far (`DoneInv`). Every operation touches only its own
upload and its own path (`Local`), so that `OperationInv` leaves one thing to show per
action: that it leaves its own upload sound. The other four rest on `RestInv`, which
says that a row is of an upload to its path (`RowOwn`), that the record an upload looks
for is there unless another upload to the path was refused and deleted it (`Records`),
that an image alone on its path has its file before its row and keeps both
(`FileFirst`), and what went wrong before an upload tidies up or ends without having
done so (`Leftovers`). The lemma `Operations` sums up in one table (`Does`) what a step
does to its own upload, path and temporary file, and `RestInv` is argued from that
table.

`SessionsProofs` proves, for any requests, browsers, users, lifetimes, clocks, failures,
crashes and set-backs, from `SessionsAssumption`, all that the run checks:

* `SessionsTyped`: `Spec => []TypeOK`
* `RefusedForGood`: `Spec => []RefusalIsFinal`
* `RefusedRightly`: `Spec => []RefusedForReason`
* `AcceptedRightly`: `Spec => []AcceptedForReason`

The inductive invariant `IInv` (theorem `SessionsInvariant`) adds to the types where a
request of each sort may be (`PcOf`), that a session is what its login stored for as
long as it is stored (`Kept`), that cookies name stored sessions (`Known`), that a
visit's copy is its login's (`Copied`), that what is over can never be accepted again
(`OverIsDead`: it is gone, or its user is, or the monotonic clock is past its end),
that a late visit goes only where it is refused (`LateEnds`) and what a visit has
seen at each of its steps (`SeenWhy`). A failed operation ends nothing: a visit that
could not read is refused and in `unread`, which is the exemption in
`RefusedForReason`, and what could not be removed is not `over`.

`AccountsProofs` and `OwnershipProofs` prove, for any requests, stored users, processes,
failures and crashes, from `StoreAssumption`, `DocumentAssumption` and `KindAssumption`:

* `AccountsTyped`: `Spec => []TypeOK`
* `IndexHonest`: `Spec => []IndexNeverLies`
* `SessionsForOwners`: `Spec => SessionForOwner`
* `InvitesBacked`: `Spec => []InviteNeverWasted`
* `OneWriterAtATime`: two requests of one process are never both between the reading
  and the last writing of a method of the store
* `RolesByUpdateRoleOnly`: `Spec => RolesOnlyByUpdateRole`, where one process serves all
  requests
* `AnAdminRemains`: `Spec => AdminRemains`, where one process serves all requests, one of
  them changes a role and none is `admin create` (`OneChange`)

`Shape` joins to the types that a handler waits for the call it made (`Phased`) and
that a call has in its frame what its next step needs (`Framed`). The lemmas
`StoreOutcome` and `HandlerOutcome` then say in a few lines where a step of a call and
of a handler may lead, and `StoreApart` and `HandlerApart` that it leaves other
requests alone; the rest is argued from these. For addresses, `Claim(id, n)` collects
every place that says account `id` belongs to address `n`: its document, an index
entry, the frame of a call that is about to write either, a login that was answered.
`Owned` says that claims about an account agree and that an account not yet made has
none; it is why an index entry that a crash left behind still names the right address,
which `IndexNeverLies` alone would not carry over a step.
For invites, `Backed` says that the account is there from its first document to the
end of the registration, and that the registration an invite names is past the
point where it takes the account back (`Spent`). For the mutex, `Guarded` says that who
is inside a method holds it; under one process `Fresh` follows, that what a lookup is
about to write back is what the document says, and that is all that keeps a role from
being undone: with a second process it fails, and the run `promotion` shows how.
For the last admin, `Manned` says that there is no admin without an `Elder`, one whose
account no rollback can remove, and `Watched` follows the change of a role: until it
is written all admins are elders, what is counted so far are elders that have been
read (`Counts`), and an update to `member` is about to leave one. A count that skips
users it cannot read only falls short. With two changes, or with `admin create` beside
a registration that is taken back, an admin who was counted may be gone at the write;
`last_admin` shows the first of these.

`FaultFreeProofs` proves what needs one process, no failures and emails in normal
form (`Plain`), still for any requests, stored users, names and tokens:

* `IndexIsUsers`: `Spec => []IndexAgrees`
* `LookupMissesNobody`: `Spec => []LookupFinds`
* `AllOrNothing`: `Spec => []InviteBacked`
* `StoresAgree`: `Spec => ImplementsMemoryStore`, without `admin create` (`Alone`)

None of the four is inductive. `IndexAgrees` speaks only of moments when nobody is
inside a method; `Indexed` says it of every moment, up to the one address that the
holder of the mutex is `Between` the two documents of, and adds what the holder has
read and still stands (`Holds`). `Sought` follows a lookup: whoever was there since
it began is where it has not looked yet. `Settled` weighs a registration at each of
its steps: its account is there or not and it has spent one invite or none
(`Balanced`), and the invite it is about to spend is nobody's (`Unspent`). For the
refinement, `Indexed` gives that an address has one owner (`OneOwner`), so that the
mapped `byEmail` is a function of the documents; writing a document becomes
`CreateUser`, `UpdateRole` or `DeleteUser`, reading a live invite under the mutex
`ConsumeInvite`, and the write that follows a stutter, because the mutex keeps every
other request from the invite between the two.

`HelperProofs` proves, for pages, names and paths of any size, every width of the
integer and every number of hours, from `HtmlAssumption` and `TtlAssumption`:

* `AlwaysListsLeaveNoTrace`: `HtmlInit /\ [][HtmlStep]_<<heap, made>> => []ListsLeaveNoTrace`
* `AlwaysRootReachesAll`, `AlwaysOnlyEmptyDisappears`: the same of `RootReachesAll` and
  `OnlyEmptyDisappears`
* `AlwaysAcceptsExactlyInside`: `NameInit /\ [][NameStep]_filename => []AcceptsExactlyInside`
* `AlwaysStoredPathTaken`, `AlwaysNameAndExtensionKept`: the same of `StoredPathTaken`
  and `NameAndExtensionKept`
* `TtlAlwaysHonoured`: `TtlInit /\ [][TtlStep]_hours => []TtlHonoured`

The run makes one input at a time (`Next` of `MCHelpers` is a choice between the three
machines), so each theorem is about the machine that builds its input.

These functions recurse over their input, and the induction theorems of the library
take the predicate as a parameter, which the provers here cannot instantiate.
`FoldLemmas` makes up for it with induction over sets: a set of sequences that has the
empty one and with a sequence every longer one has them all (`SeqSetInduction`, from
`NatSetInduction`, from the well-foundedness of `<`), and what is to be proved is that
the set of those that have the property is such a set. A constant module may leave an
operator open, so its `Op` stands for the step of a fold, and `Plains`, `Cleaning` and
the like are its instances: `FoldEmpty`, `FoldAppend` and `FoldConcat` are then the
equations of that fold, and `FoldType` its invariant. `FlattenAppend` is the same for
`FlattenSeq`, and `RecursionExists` says that a function whose values look only at
those before them exists, which is what makes `RenderCtx` and `Inside` mean something.
These are general facts that say nothing of the program; they are there for the proofs
that cite them.

For paths, `CleanWalks` is the invariant of `path.Clean` over the parts of a path: a
walk that stays inside leaves as many names as it is deep, and one that does not leaves
a `..` in front for good; `CleanKeeps` says that parts to be kept are, which gives
`StoredPathTaken` once `StoredShape` has found the parts of a stored path
(`TimedParted`). For `NameAndExtensionKept`, `WordsStep` says what one more character
adds to the words of a text, `SlugDashed` is the invariant of the loop of `slugFilename`
(the words so far, and where it owes or has a dash too many), `SlugIsWords` what is left
once `Trim` took those dashes, `SuffixTrimmed` when `TrimSuffix` finds the lower-case
extension, and `StoredFile` that cleaning changes nothing of what has no slash.

For pages, the invariant `HtmlInv` (theorem `HtmlInvariant`) says that every node is
what its arguments make, refers only to nodes made before it, and that `Nil()` is the
only one without a tag. What a page shows is then proved by induction over the nodes
(`UpToInduction`): `PageOf` says when a page is empty, `AllRooted`, the root put before
every local URL, commutes with everything a page is put together with, and `Alike`
follows two nodes, one with and one without what leaves no trace, argument by argument
(`KeptAlike`), after `ListsUnroll` has put the elements of a list in its place.
A shown attribute keeps whether it is plain or a URL, so that `Rooted` touches the
second kind alone and a plain attribute may hold any text, a local URL too. The one
thing `HtmlAssumption` asks is that no element is made with an empty name, which is what
the code knows `Nil()` by.

`tlapm` checks each of `HubProofs`, `ImagesProofs`, `SessionsProofs`, `AccountsProofs`,
`OwnershipProofs`, `FaultFreeProofs`, `FoldLemmas` and `HelperProofs` by itself.

Every safety property that a passing run checks is a theorem. Only model-checked is what
is out of the prover's reach: all liveness (`hub_live` and `accounts_live`).

## What no property claims

The code does not promise the following, and the hazards in `PROJECT.json` say so at
their lines: that an admin's change is not written after their session or role ended;
that an account is not made after the mode was closed; that an index entry of a user
who is gone, left by a crash inside `DeleteUser`, ever goes; that a user without an
entry keeps the address to itself; that a visit is not refused because the database was
busy; that an invite of so many hours that its nanoseconds overflow ends when it should
(`ExpiresAfter` wraps as the code does, `TtlHonoured` exempts it); that the row of a
replaced image has its file when the replacement dies or fails half-way; that the row of
a non-image goes when its DELETE fails; and anything about two uploads at work on one
path at the same time beyond whole files and tidied temporaries. `StoredPathTaken` says
that a path made for a name is accepted and stays below uploads under its own time, not
that it is kept letter by letter: a backslash in an extension becomes a slash.

## Not modelled

* Pages, messages and logging: what handlers show changes no state. `Html` models the
  builder they are made with; of it, the order of attributes, escaping, `ReloadNode`
  and `RenderGoCode` (tools for development that no page uses), `LoadFile`, and
  `AttrCtx`, `Chl` and `Cha`, which nothing calls, are left out.
* Passwords and their hashes: comparing one may fail and hashing one may.
* HTTP: parsing, methods and the attributes of the cookie change no state; the upgrade
  of a websocket is the start of a client.
* `Query` of the document store and `UploadMultipartImage`, which nothing calls; the
  making of directories, which only fails or not before anything is written.
* Which handler a websocket command names, beyond whom it broadcasts to; handlers are
  registered before the server listens.
* Shutdown: `main` never returns while it serves.

## What is left to do

Every part of the plan is in place, and every safety property is proved. What remains is
liveness, which stays with TLC.
