------------------------------- MODULE FileStore -------------------------------
(***************************************************************************)
(* What HttpUploadHandler keeps: the tables users, sessions, files and     *)
(* file_shares, the directory uploads/, and the uploads in progress.       *)
(*                                                                         *)
(* One loop thread runs every handler, so a handler is one step; but any   *)
(* of its SQL statements and file operations may fail, and the process may *)
(* die between two of them and be started again.  Handlers that only read  *)
(* are operators that give the response's status, and the properties ask   *)
(* what they would answer in every state.                                  *)
(*                                                                         *)
(* A user is both the id and the name of one.  A file is its server name,  *)
(* which also stands for its id: a file gets at most one row, and names,   *)
(* session ids and share codes are taken to be unique (they are random).   *)
(* An expire_time is in the future or past; validateSession's UPDATE,      *)
(* which moves it further into the future, is then no change.              *)
(***************************************************************************)
EXTENDS Integers, FiniteSets

CONSTANTS
  Users, Sids, Names, Codes, Extracts,
  None,          \* NULL, an absent row or header, an empty parameter
  NaN,           \* what std::stoi throws on
  Zero,          \* userId of a caller without a valid session, which is 0
  NameValue,     \* what a username reads as: a user's id, 0, another number, NaN
  NumericTitle,  \* files whose original name begins with a digit
  Faults         \* the statements and operations that may fail

ASSUME StoreAssumption ==
  /\ None \notin Users \cup Sids \cup Names \cup Codes \cup Extracts
  /\ {Zero, NaN} \cap (Users \cup {None}) = {} /\ Zero # NaN
  /\ Codes \cap Extracts = {}
  /\ NameValue \in [Users -> Users \cup {Zero, None, NaN}]
  /\ NumericTitle \subseteq Names
  /\ Faults \subseteq {"register", "login", "logout", "select", "insertFile", "insertShare",
                       "unshare", "deleteShares", "deleteFile", "unlink", "crash"}

Types == {"public", "protected", "user"}

ShareRow == [code : Codes, file : Names, owner : Users, type : Types,
             with : Users \cup {None}, extract : Extracts \cup {None},
             expires : BOOLEAN, live : BOOLEAN]

VARIABLES
  users,     \* rows of users
  sessions,  \* rows of sessions that have not expired: the user, by session id
  rows,      \* rows of files: the owner, by name
  shares,    \* rows of file_shares
  disk,      \* uploads/: who uploaded the file's contents, by name
  uploads,   \* FileUploadContexts: the name and the request's session id
  used,      \* names, session ids and codes generated so far
  told,      \* what the server has told clients (see below)
  spoiled    \* files whose upload was cut or whose row or removal failed

vars == <<users, sessions, rows, shares, disk, uploads, used, told, spoiled>>

\* told.private: set private, and not shared since; told.deleted: deleted;
\* told.stored: uploaded, and not deleted on its uploader's request.
TypeOK ==
  /\ users \subseteq Users
  /\ sessions \in [Sids -> users \cup {None}]
  /\ rows \in [Names -> users \cup {None}]
  /\ shares \subseteq ShareRow
  /\ disk \in [Names -> users \cup {None}]
  /\ uploads \subseteq [name : Names, sid : Sids]
  /\ used \subseteq Names \cup Sids \cup Codes
  /\ told \in [private : SUBSET Names, deleted : SUBSET Names, stored : SUBSET Names]
  /\ spoiled \subseteq Names

Init ==
  /\ users = {}
  /\ sessions = [s \in Sids |-> None]
  /\ rows = [n \in Names |-> None]
  /\ shares = {}
  /\ disk = [n \in Names |-> None]
  /\ uploads = {}
  /\ used = {}
  /\ told = [private |-> {}, deleted |-> {}, stored |-> {}]
  /\ spoiled = {}

-----------------------------------------------------------------------------
(* Handlers that read.  A request carries a session id in its header and   *)
(* one in its query, sid and qsid (None if it has none), a file name, a    *)
(* share code and an extract code.                                         *)

\* validateSession: the user, or None.
validateSession(sid) == IF sid = None THEN None ELSE sessions[sid]

\* The permission check that accepts any extract code.
hasPermissionAnyCode(user, s, extract) ==
  \/ s.type = "public"
  \/ s.type = "protected" /\ extract # None
  \/ s.type = "user" /\ user # None /\ user = s.with

\* What a share row s allows a user who is not the owner.
hasPermission(user, s, extract) ==
  \/ s.type = "public"
  \/ s.type = "protected" /\ extract # None /\ extract = s.extract
  \/ s.type = "user" /\ user # None /\ user = s.with

\* A download that starts: the file is there.
Serve(n) == IF disk[n] = None THEN 404 ELSE 200

\* JOIN of files and file_shares by name and code, not expired.
sharedRows(n, code) ==
  {s \in shares : s.file = n /\ s.code = code /\ s.live /\ rows[n] # None}

\* Only handleDownload takes the session id from the query, and only if there
\* is none in the header.
sessionOf(sid, qsid) == IF sid = None THEN qsid ELSE sid

\* handleDownload, up to the point where it opens the file.
handleDownload(sid, qsid, n, code, extract) ==
  LET user == validateSession(sessionOf(sid, qsid))
      hits == sharedRows(n, code)
      s    == CHOOSE r \in hits : TRUE
  IN  IF code = None
      THEN IF user = None THEN 401
           ELSE IF rows[n] = None THEN 404
           ELSE IF user # rows[n] THEN 403
           ELSE Serve(n)
      ELSE IF hits = {} THEN 404
           ELSE IF (user # None /\ user = rows[n]) \/ hasPermission(user, s, extract)
           THEN Serve(n)
           ELSE 403

\* handleShareDownload, which repeats the query and the checks of a share.
handleShareDownload(sid, n, code, extract) ==
  LET user == validateSession(sid)
      hits == sharedRows(n, code)
      s    == CHOOSE r \in hits : TRUE
  IN  IF code = None THEN 400
      ELSE IF hits = {} THEN 404
      ELSE IF (user # None /\ user = rows[n]) \/ hasPermission(user, s, extract)
      THEN Serve(n)
      ELSE 403

\* The query by share code that forgets the expire_time.
sharesByCodeExpiredToo(code) == {s \in shares : s.code = code /\ rows[s.file] # None}

\* JOIN of file_shares, files and users by code, not expired.
sharesByCode(code) == {s \in shares : s.code = code /\ s.live /\ rows[s.file] # None}

\* handleShareInfo: the statuses it may answer, for it formats a successful
\* answer from a row that it has freed, and may find anything there.
handleShareInfo(code, extract) ==
  LET hits == sharesByCode(code)
      s    == CHOOSE r \in hits : TRUE
  IN  IF hits = {} THEN {404}
      ELSE IF s.type = "protected" /\ (extract = None \/ extract # s.extract) THEN {403}
      ELSE {200, 500, None}

\* isOwner of handleShareAccess: column 13, the owner's name, is read as the
\* owner's id and compared with userId, which is 0 without a session.
takenForOwner(user, n) == NameValue[rows[n]] = IF user = None THEN Zero ELSE user

\* handleShareAccess for a script.  Besides column 13 it takes column 5, the
\* share code, for the extract code, and column 10, the original name, for the
\* size; a number it cannot read is a 500 by onRequest.
handleShareAccess(sid, code, extract) ==
  LET user == validateSession(sid)
      hits == {s \in sharesByCode(code) : s.type = "protected" => s.extract = extract}
      s    == CHOOSE r \in hits : TRUE
  IN  IF hits = {} THEN 404
      ELSE IF NameValue[rows[s.file]] = NaN THEN 500
      ELSE IF \/ takenForOwner(user, s.file)
              \/ hasPermission(user, [s EXCEPT !.extract = s.code], extract)
      THEN IF s.file \in NumericTitle THEN 200 ELSE 500
      ELSE 403

\* A list of shares that takes those with an extract code, too.
listedSharesAll(user) == {s \in shares : s.with = user \/ s.type # "user"}

\* WHERE fs.shared_with_id = user OR fs.share_type = 'public'
listedShares(user) == {s \in shares : s.with = user \/ s.type = "public"}

\* handleListFiles, for the types my, shared and all: the entries the answer may
\* hold.  An entry of the caller's own file comes with one of its shares, if it
\* has any (the first row, in no order); of any other file it is the file alone.
handleListFiles(sid, type) ==
  LET user   == validateSession(sid)
      mine   == {n \in Names : rows[n] = user}
      own    == {<<s.file, s>> : s \in {t \in shares : t.file \in mine}}
                \cup {<<n, None>> : n \in {m \in mine : \A s \in shares : s.file # m}}
      others == {<<s.file, None>> : s \in {t \in listedShares(user) : rows[t.file] \notin {None, user}}}
  IN  IF user = None THEN {}
      ELSE (IF type \in {"my", "all"} THEN own ELSE {})
           \cup (IF type \in {"shared", "all"} THEN others ELSE {})

-----------------------------------------------------------------------------
(* Handlers that write.  What they refuse changes nothing.                 *)

\* Whether an operation that may fail does.
Outcome(op) == IF op \in Faults THEN BOOLEAN ELSE {TRUE}

\* handleRegister: the INSERT fails for a name that is there (UNIQUE), whether
\* the SELECT before it has found the name or has failed.
handleRegister(u) ==
  /\ u \notin users
  /\ \E ok \in Outcome("register") : users' = IF ok THEN users \cup {u} ELSE users
  /\ UNCHANGED <<sessions, rows, shares, disk, uploads, used, told, spoiled>>

\* handleLogin that goes on when its SELECT finds no user.
handleLoginAnyone(u, sid) ==
  /\ sid \notin used
  /\ used' = used \cup {sid}
  /\ sessions' = [sessions EXCEPT ![sid] = u]
  /\ UNCHANGED <<users, rows, shares, disk, uploads, told, spoiled>>

\* handleLogin, with the right password; saveSession's result is not looked at.
handleLogin(u, sid) ==
  /\ u \in users /\ sid \notin used
  /\ used' = used \cup {sid}
  /\ \E ok \in Outcome("login") :
       sessions' = IF ok THEN [sessions EXCEPT ![sid] = u] ELSE sessions
  /\ UNCHANGED <<users, rows, shares, disk, uploads, told, spoiled>>

\* handleLogout; endSession's result is not looked at.
handleLogout(sid) ==
  /\ sid \in used
  /\ \E ok \in Outcome("logout") :
       sessions' = IF ok THEN [sessions EXCEPT ![sid] = None] ELSE sessions
  /\ UNCHANGED <<users, rows, shares, disk, uploads, used, told, spoiled>>

\* handleFileUpload, the first chunk: the file is created.
UploadBegins(sid, n) ==
  /\ validateSession(sid) # None /\ n \notin used
  /\ used' = used \cup {n}
  /\ disk' = [disk EXCEPT ![n] = sessions[sid]]
  /\ uploads' = uploads \cup {[name |-> n, sid |-> sid]}
  /\ UNCHANGED <<users, sessions, rows, shares, told, spoiled>>

\* The last chunk: the session is validated again, and the result of the INSERT
\* is not looked at.
UploadEnds(up) ==
  /\ validateSession(up.sid) # None
  /\ uploads' = uploads \ {up}
  /\ told' = [told EXCEPT !.stored = @ \cup {up.name}]
  /\ \E ok \in Outcome("insertFile") :
       /\ rows' = IF ok THEN [rows EXCEPT ![up.name] = sessions[up.sid]] ELSE rows
       /\ spoiled' = IF ok THEN spoiled ELSE spoiled \cup {up.name}
  /\ UNCHANGED <<users, sessions, shares, disk, used>>

\* The client disconnects, or the session has ended: the file stays.
UploadDropped(up) ==
  /\ uploads' = uploads \ {up}
  /\ spoiled' = spoiled \cup {up.name}
  /\ UNCHANGED <<users, sessions, rows, shares, disk, used, told>>

\* The ownership check of handleDelete and handleShareFile, left out.
OwnsAny(sid, n) == validateSession(sid) # None /\ rows[n] # None

\* SELECT ... FROM files WHERE ... AND user_id = userId
Owns(sid, n) == validateSession(sid) # None /\ rows[n] = validateSession(sid)

\* handleDelete that goes on when the row could not be deleted.
unlinksAnyway(stop, rowGone) == stop = 3

\* handleDelete that deletes only the rows.
unlinksNever(stop, rowGone) == FALSE

\* handleDelete gets to unlink: it returns when the row could not be deleted.
unlinks(stop, rowGone) == stop = 3 /\ rowGone

\* DELETE FROM files without the schema's ON DELETE CASCADE.
sharesLeftNoCascade(n, deleted, rowGone) ==
  IF deleted THEN {s \in shares : s.file # n} ELSE shares

\* The shares of n are deleted by the handler, or else with the row (CASCADE).
sharesLeft(n, deleted, rowGone) ==
  IF deleted \/ rowGone THEN {s \in shares : s.file # n} ELSE shares

\* handleDelete's DELETE FROM file_shares, DELETE FROM files and unlink, with
\* what comes of each; with stop < 3 the process dies before the next one.
DeleteRuns(sid, n, stop, okShares, okRow, okUnlink) ==
  LET rowGone  == stop >= 2 /\ okRow
      unlinked == unlinks(stop, rowGone) /\ okUnlink
  IN  /\ shares' = sharesLeft(n, stop >= 1 /\ okShares, rowGone)
      /\ rows' = IF rowGone THEN [rows EXCEPT ![n] = None] ELSE rows
      /\ disk' = IF unlinked THEN [disk EXCEPT ![n] = None] ELSE disk
      /\ told' = [told EXCEPT
           !.stored = IF sessions[sid] = disk[n] THEN @ \ {n} ELSE @,
           !.deleted = IF stop = 3 /\ rowGone THEN @ \cup {n} ELSE @]
      /\ spoiled' = (IF stop < 3 THEN spoiled \cup {up.name : up \in uploads} ELSE spoiled)
                    \cup (IF rowGone /\ (stop < 3 \/ ~okUnlink) THEN {n} ELSE {})
      /\ uploads' = IF stop < 3 THEN {} ELSE uploads

handleDelete(sid, n) ==
  /\ Owns(sid, n)
  /\ \E stop \in (IF "crash" \in Faults THEN 0 .. 3 ELSE {3}),
        okShares \in Outcome("deleteShares"), okRow \in Outcome("deleteFile"),
        okUnlink \in Outcome("unlink") : DeleteRuns(sid, n, stop, okShares, okRow, okUnlink)
  /\ UNCHANGED <<users, sessions, used>>

\* DELETE that keeps the shares with an extract code.
unsharedButProtected(n) == {s \in shares : s.file # n \/ s.type = "protected"}

\* DELETE FROM file_shares WHERE file_id = n
unshared(n) == {s \in shares : s.file # n}

\* handleShareFile with type private; the result of DELETE is not looked at.
SetPrivate(sid, n) ==
  /\ Owns(sid, n)
  /\ \E ok \in Outcome("unshare") : shares' = IF ok THEN unshared(n) ELSE shares
  /\ told' = [told EXCEPT !.private = @ \cup {n}]
  /\ UNCHANGED <<users, sessions, rows, disk, uploads, used, spoiled>>

\* handleShareFile with another type: it refuses to share with a user twice,
\* if its SELECT works.  A type user without sharedWithId (None) inserts its row,
\* and then fails to format the answer.
handleShareFile(sid, n, type, with, extract, expires, code) ==
  /\ Owns(sid, n) /\ code \notin used
  /\ type = "user" \/ with = None
  /\ (type = "protected") = (extract # None)
  /\ with \in users \cup {None}
  /\ with = None \/ "select" \in Faults
       \/ \A s \in shares : ~(s.file = n /\ s.type = "user" /\ s.with = with)
  /\ used' = used \cup {code}
  /\ \E ok \in Outcome("insertShare") :
       IF ok
       THEN /\ shares' = shares \cup {[code |-> code, file |-> n, owner |-> sessions[sid],
                                       type |-> type, with |-> with, extract |-> extract,
                                       expires |-> expires, live |-> TRUE]}
            /\ told' = [told EXCEPT !.private = @ \ {n}]
       ELSE UNCHANGED <<shares, told>>
  /\ UNCHANGED <<users, sessions, rows, disk, uploads, spoiled>>

-----------------------------------------------------------------------------
(* Time and crashes.                                                       *)

SessionExpires(sid) ==
  /\ sessions[sid] # None
  /\ sessions' = [sessions EXCEPT ![sid] = None]
  /\ UNCHANGED <<users, rows, shares, disk, uploads, used, told, spoiled>>

ShareExpires(s) ==
  /\ s.expires /\ s.live
  /\ shares' = (shares \ {s}) \cup {[s EXCEPT !.live = FALSE]}
  /\ UNCHANGED <<users, sessions, rows, disk, uploads, used, told, spoiled>>

\* The process dies between two handlers and is started again.
Crash ==
  /\ "crash" \in Faults /\ uploads # {}
  /\ uploads' = {}
  /\ spoiled' = spoiled \cup {up.name : up \in uploads}
  /\ UNCHANGED <<users, sessions, rows, shares, disk, used, told>>

Next ==
  \/ \E u \in Users : handleRegister(u)
  \/ \E u \in Users, sid \in Sids : handleLogin(u, sid)
  \/ \E sid \in Sids : handleLogout(sid)
  \/ \E sid \in Sids, n \in Names : UploadBegins(sid, n)
  \/ \E up \in uploads : UploadEnds(up)
  \/ \E up \in uploads : UploadDropped(up)
  \/ \E sid \in Sids, n \in Names : handleDelete(sid, n)
  \/ \E sid \in Sids, n \in Names : SetPrivate(sid, n)
  \/ \E sid \in Sids, n \in Names, type \in Types, with \in Users \cup {None},
        extract \in Extracts \cup {None}, expires \in BOOLEAN, code \in Codes :
       handleShareFile(sid, n, type, with, extract, expires, code)
  \/ \E sid \in Sids : SessionExpires(sid)
  \/ \E s \in shares : ShareExpires(s)
  \/ Crash

Spec == Init /\ [][Next]_vars

-----------------------------------------------------------------------------
(* Properties.                                                             *)

\* Every row of files has its file in uploads/, with what the row's owner
\* uploaded: upload writes before it inserts, delete removes the row before it
\* unlinks, so a failed statement or a crash in between leaves no dangling row.
RowsHaveFiles == \A n \in Names : rows[n] # None => disk[n] = rows[n]

\* A share is of a file that exists and was made by its owner, whichever of
\* handleDelete's statements failed.
SharesOwned == \A s \in shares : rows[s.file] # None /\ rows[s.file] = s.owner

\* A file without a row and without an upload is one whose upload was cut, or
\* whose row or removal failed: nothing else leaks disk space.
OrphansAreExplained ==
  \A n \in Names : disk[n] # None /\ rows[n] = None /\ n \notin {up.name : up \in uploads}
    => n \in spoiled

\* Who may have the bytes of n: the user who uploaded them, or anyone by a share
\* that this user has made, that has not expired, and that is public, has the
\* request's extract code or names the request's user.
Entitled(user, n, code, extract) ==
  \/ user # None /\ user = disk[n]
  \/ \E s \in shares :
       /\ s.file = n /\ s.code = code /\ s.live /\ s.owner = disk[n]
       /\ \/ s.type = "public"
          \/ s.type = "protected" /\ s.extract = extract
          \/ s.type = "user" /\ user # None /\ s.with = user

\* Whatever the request, and whichever of the two handlers with their two ways to
\* find the session it reaches, bytes are served only to those entitled to them.
DownloadJustified ==
  \A sid \in Sids \cup {None}, n \in Names, code \in Codes \cup {None},
     x \in Extracts \cup {None} :
    /\ \A qsid \in Sids \cup {None} :
         handleDownload(sid, qsid, n, code, x) = 200
           => Entitled(validateSession(sessionOf(sid, qsid)), n, code, x)
    /\ handleShareDownload(sid, n, code, x) = 200 => Entitled(validateSession(sid), n, code, x)

\* A file that its owner was told is private, or deleted, is served to nobody
\* else, wherever the session is given, and no share link shows it.
WithdrawnIsRefused ==
  \A n \in told.private \cup told.deleted :
    /\ \A s \in shares : s.file # n
    /\ \A sid, qsid \in Sids \cup {None}, code \in Codes \cup {None}, x \in Extracts \cup {None} :
         /\ handleDownload(sid, qsid, n, code, x) = 200 => Owns(sessionOf(sid, qsid), n)
         /\ handleShareDownload(sid, n, code, x) # 200

\* A file that the server has said is uploaded is kept until the user who
\* uploaded it asks to delete it, whatever requests other users make.
StoredIsKept == \A n \in told.stored : rows[n] # None /\ disk[n] # None

\* What a share link shows can be downloaded by it.  When handleShareInfo shows a
\* share that is not for one user, the request that share.html then makes, with
\* the same codes and without a session, is served.  When handleShareAccess shows
\* one, the caller can download it with the same codes, or else its misread
\* column has taken the caller for the owner.
ShownIsReachable ==
  \A s \in shares, x \in Extracts \cup {None} :
    /\ 200 \in handleShareInfo(s.code, x) /\ s.type # "user"
         => handleShareDownload(None, s.file, s.code, x) = 200
    /\ \A sid \in Sids \cup {None} :
         handleShareAccess(sid, s.code, x) = 200
           => \/ takenForOwner(validateSession(sid), s.file)
              \/ handleShareDownload(sid, s.file, s.code, x) = 200

\* What handleListFiles lists agrees with what the downloads check.  A file of
\* somebody else is listed by a share whose code would get the caller the file
\* without an extract code, or a 404 once it has expired, never a 403.  And of
\* the caller's own file the codes that are shown make a link that works for
\* everybody, unless the share is for one user or has expired.
ListedIsGranted ==
  \A sid \in Sids, type \in {"my", "shared", "all"} : \A e \in handleListFiles(sid, type) :
    \/ /\ rows[e[1]] = validateSession(sid)
       /\ e[2] # None /\ e[2].live /\ e[2].type # "user"
            => handleShareDownload(None, e[1], e[2].code, e[2].extract) = 200
    \/ \E s \in shares :
         /\ s.file = e[1]
         /\ handleDownload(sid, None, e[1], s.code, None) = IF s.live THEN 200 ELSE 404

=============================================================================
