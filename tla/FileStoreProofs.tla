---------------------------- MODULE FileStoreProofs ----------------------------
(***************************************************************************)
(* Proofs about FileStore, for any number of users, sessions, files and    *)
(* shares, and for any set of statements that may fail.                    *)
(***************************************************************************)
EXTENDS FileStore, TLAPS

\* What has not been generated yet is not in use, in any table or on disk.
FreshIsUnused ==
  /\ \A sid \in Sids : sid \notin used => sessions[sid] = None
  /\ \A n \in Names : n \notin used => rows[n] = None /\ disk[n] = None

\* A file being uploaded has no row yet, nobody else uploads it, and it holds
\* what the user of the request's session sends, as long as that is valid.
UploadsOwned ==
  /\ \A up \in uploads : /\ up.name \in used /\ up.sid \in used
                         /\ rows[up.name] = None /\ disk[up.name] # None
                         /\ sessions[up.sid] \in {None, disk[up.name]}
  /\ \A up, vp \in uploads : up.name = vp.name => up = vp

IndInv == TypeOK /\ FreshIsUnused /\ UploadsOwned /\ RowsHaveFiles /\ SharesOwned

-----------------------------------------------------------------------------

\* The invariant holds at the start: every table and the directory are empty.
LEMMA InitInv == Init => IndInv
BY StoreAssumption DEF Init, IndInv, TypeOK, FreshIsUnused, UploadsOwned, RowsHaveFiles, SharesOwned

\* handleRegister only adds a user.
LEMMA RegisterInv == ASSUME IndInv, NEW u \in Users, handleRegister(u) PROVE IndInv'
<1>1. users \subseteq users' /\ users' \subseteq Users
  BY DEF handleRegister, IndInv, TypeOK
<1>2. TypeOK'
  BY <1>1 DEF handleRegister, IndInv, TypeOK
<1>3. QED
  BY <1>2 DEF handleRegister, IndInv, FreshIsUnused, UploadsOwned, RowsHaveFiles, SharesOwned

\* handleLogin gives a session id that no upload carries.
LEMMA LoginInv == ASSUME IndInv, NEW u \in Users, NEW sid \in Sids, handleLogin(u, sid) PROVE IndInv'
<1>1. TypeOK'
  BY DEF handleLogin, IndInv, TypeOK
<1>2. FreshIsUnused'
  BY DEF handleLogin, IndInv, TypeOK, FreshIsUnused
<1>3. UploadsOwned'
  BY DEF handleLogin, IndInv, TypeOK, UploadsOwned
<1>4. QED
  BY <1>1, <1>2, <1>3 DEF handleLogin, IndInv, RowsHaveFiles, SharesOwned

\* Ending a session, by handleLogout or by time, takes nothing else away.
LEMMA EndSessionInv ==
  ASSUME IndInv, NEW sid \in Sids, sessions' \in {sessions, [sessions EXCEPT ![sid] = None]},
         UNCHANGED <<users, rows, shares, disk, uploads, used, told, spoiled>>
  PROVE  IndInv'
<1>1. TypeOK'
  BY DEF IndInv, TypeOK
<1>2. FreshIsUnused'
  BY DEF IndInv, TypeOK, FreshIsUnused
<1>3. UploadsOwned'
  BY DEF IndInv, TypeOK, UploadsOwned
<1>4. QED
  BY <1>1, <1>2, <1>3 DEF IndInv, RowsHaveFiles, SharesOwned

\* A new upload writes to a file that is in no table and in no other upload.
LEMMA UploadBeginsInv ==
  ASSUME IndInv, NEW sid \in Sids, NEW n \in Names, UploadBegins(sid, n) PROVE IndInv'
<1>1. sid # None /\ sessions[sid] \in users
  BY StoreAssumption DEF UploadBegins, validateSession, IndInv, TypeOK
<1>2. sid \in used /\ n \notin used /\ rows[n] = None
  BY <1>1 DEF UploadBegins, validateSession, IndInv, FreshIsUnused
<1>3. sessions[sid] # None
  BY <1>1 DEF UploadBegins, validateSession
<1>4. TypeOK'
  BY <1>1 DEF UploadBegins, IndInv, TypeOK
<1>5. FreshIsUnused'
  BY <1>2 DEF UploadBegins, IndInv, TypeOK, FreshIsUnused
<1>6. UploadsOwned'
  BY <1>2, <1>3 DEF UploadBegins, IndInv, TypeOK, UploadsOwned
<1>7. RowsHaveFiles'
  BY <1>2 DEF UploadBegins, IndInv, TypeOK, RowsHaveFiles
<1>8. QED
  BY <1>4, <1>5, <1>6, <1>7 DEF UploadBegins, IndInv, SharesOwned

\* A finished upload gets a row with the owner of what the file holds.
LEMMA UploadEndsInv == ASSUME IndInv, NEW up \in uploads, UploadEnds(up) PROVE IndInv'
<1>1. up.name \in Names /\ up.sid \in Sids
  BY DEF IndInv, TypeOK
<1>2. sessions[up.sid] # None /\ sessions[up.sid] \in users
  BY <1>1, StoreAssumption DEF UploadEnds, validateSession, IndInv, TypeOK
<1>3. disk[up.name] = sessions[up.sid] /\ rows[up.name] = None /\ up.name \in used
  BY <1>2 DEF IndInv, UploadsOwned
<1>4. TypeOK'
  BY <1>1, <1>2 DEF UploadEnds, IndInv, TypeOK
<1>5. FreshIsUnused'
  BY <1>1, <1>3 DEF UploadEnds, IndInv, TypeOK, FreshIsUnused
<1>6. UploadsOwned'
  BY <1>1 DEF UploadEnds, IndInv, TypeOK, UploadsOwned
<1>7. RowsHaveFiles'
  BY <1>1, <1>3 DEF UploadEnds, IndInv, TypeOK, RowsHaveFiles
<1>8. SharesOwned'
  BY <1>1, <1>3 DEF UploadEnds, IndInv, TypeOK, SharesOwned, ShareRow
<1>9. QED
  BY <1>4, <1>5, <1>6, <1>7, <1>8 DEF IndInv

\* An upload that is cut, or all of them by a crash, leaves its file behind.
LEMMA CutInv ==
  ASSUME IndInv, uploads' \subseteq uploads, spoiled' \subseteq Names,
         UNCHANGED <<users, sessions, rows, shares, disk, used, told>>
  PROVE  IndInv'
BY DEF IndInv, TypeOK, FreshIsUnused, UploadsOwned, RowsHaveFiles, SharesOwned

\* handleDelete removes the row before the file, and the shares with the row,
\* whichever statement fails and wherever the process dies.
LEMMA DeleteInv ==
  ASSUME IndInv, NEW sid \in Sids, NEW n \in Names, handleDelete(sid, n) PROVE IndInv'
<1> USE DEF IndInv
<1>1. PICK stop \in (IF "crash" \in Faults THEN 0 .. 3 ELSE {3}),
           okShares \in Outcome("deleteShares"), okRow \in Outcome("deleteFile"),
           okUnlink \in Outcome("unlink") : DeleteRuns(sid, n, stop, okShares, okRow, okUnlink)
  BY Zenon DEF handleDelete
<1>0. /\ stop \in 0 .. 3
      /\ okShares \in BOOLEAN /\ okRow \in BOOLEAN /\ okUnlink \in BOOLEAN
  <2>1. stop \in 0 .. 3
    BY SMT
  <2>2. \A op : Outcome(op) \subseteq BOOLEAN
    BY Zenon DEF Outcome
  <2>3. okShares \in BOOLEAN /\ okRow \in BOOLEAN /\ okUnlink \in BOOLEAN
    BY <2>2, Zenon
  <2>4. QED
    BY <2>1, <2>3, Zenon
<1>2. UNCHANGED <<users, sessions, used>>
  BY DEF handleDelete
<1>3. rows[n] # None
  BY StoreAssumption DEF handleDelete, Owns, validateSession
<1>4. shares' \subseteq shares /\ uploads' \subseteq uploads
  BY <1>0, <1>1 DEF DeleteRuns, sharesLeft
<1>5. \A m \in Names : m # n => rows'[m] = rows[m] /\ disk'[m] = disk[m]
  BY <1>0, <1>1 DEF DeleteRuns, TypeOK
<1>6. /\ disk'[n] # disk[n] => rows'[n] = None
      /\ rows'[n] \in {rows[n], None} /\ disk'[n] \in {disk[n], None}
      /\ rows'[n] # rows[n] => \A s \in shares' : s.file # n
  BY <1>0, <1>1 DEF DeleteRuns, TypeOK, unlinks, sharesLeft
<1>7. \A up \in uploads : up.name # n
  BY <1>3 DEF UploadsOwned
<1>8. TypeOK'
  <2>1. rows' \in [Names -> users \cup {None}] /\ disk' \in [Names -> users \cup {None}]
    BY <1>0, <1>1 DEF DeleteRuns, TypeOK
  <2>2. told' \in [private : SUBSET Names, deleted : SUBSET Names, stored : SUBSET Names]
    BY <1>0, <1>1 DEF DeleteRuns, TypeOK
  <2>3. spoiled' \subseteq Names
    BY <1>0, <1>1 DEF DeleteRuns, TypeOK
  <2>4. QED
    BY <1>2, <1>4, <2>1, <2>2, <2>3 DEF TypeOK
<1>9. FreshIsUnused'
  BY <1>2, <1>5, <1>6 DEF TypeOK, FreshIsUnused
<1>10. UploadsOwned'
  BY <1>2, <1>4, <1>5, <1>7 DEF TypeOK, UploadsOwned
<1>11. RowsHaveFiles'
  BY <1>5, <1>6 DEF TypeOK, RowsHaveFiles
<1>12. SharesOwned'
  BY <1>4, <1>5, <1>6 DEF TypeOK, SharesOwned, ShareRow
<1>13. QED
  BY <1>8, <1>9, <1>10, <1>11, <1>12

\* Setting a file private removes shares.
LEMMA PrivateInv ==
  ASSUME IndInv, NEW sid \in Sids, NEW n \in Names, SetPrivate(sid, n) PROVE IndInv'
<1>1. shares' \subseteq shares
  BY DEF SetPrivate, unshared
<1>2. told' \in [private : SUBSET Names, deleted : SUBSET Names, stored : SUBSET Names]
  BY DEF SetPrivate, IndInv, TypeOK
<1>3. QED
  BY <1>1, <1>2 DEF SetPrivate, IndInv, TypeOK, FreshIsUnused, UploadsOwned, RowsHaveFiles, SharesOwned

\* A new share is of a file that its maker owns.
LEMMA ShareInv ==
  ASSUME IndInv, NEW sid \in Sids, NEW n \in Names, NEW type \in Types,
         NEW with \in Users \cup {None}, NEW extract \in Extracts \cup {None},
         NEW expires \in BOOLEAN, NEW code \in Codes,
         handleShareFile(sid, n, type, with, extract, expires, code)
  PROVE  IndInv'
<1> DEFINE row == [code |-> code, file |-> n, owner |-> sessions[sid], type |-> type,
                   with |-> with, extract |-> extract, expires |-> expires, live |-> TRUE]
<1>1. sid # None /\ sessions[sid] # None /\ rows[n] = sessions[sid] /\ sessions[sid] \in users
  BY StoreAssumption DEF handleShareFile, Owns, validateSession, IndInv, TypeOK
<1>2. row \in ShareRow
  BY <1>1 DEF ShareRow, IndInv, TypeOK
<1>3. shares' \subseteq shares \cup {row} /\ used \subseteq used'
  BY DEF handleShareFile
<1>4. used' = used \cup {code}
  BY DEF handleShareFile
<1>5. told' \in [private : SUBSET Names, deleted : SUBSET Names, stored : SUBSET Names]
  BY DEF handleShareFile, IndInv, TypeOK
<1>6. UNCHANGED <<users, sessions, rows, disk, uploads, spoiled>>
  BY DEF handleShareFile
<1>7. TypeOK'
  BY <1>2, <1>3, <1>4, <1>5, <1>6 DEF IndInv, TypeOK
<1>8. SharesOwned'
  BY <1>1, <1>3, <1>6 DEF IndInv, SharesOwned
<1>9. QED
  BY <1>3, <1>6, <1>7, <1>8 DEF IndInv, FreshIsUnused, UploadsOwned, RowsHaveFiles

\* An expired share keeps its file and its owner.
LEMMA ShareExpiresInv == ASSUME IndInv, NEW s \in shares, ShareExpires(s) PROVE IndInv'
<1> DEFINE t == [s EXCEPT !.live = FALSE]
<1>1. s \in ShareRow
  BY DEF IndInv, TypeOK
<1>2. t \in ShareRow /\ t.file = s.file /\ t.owner = s.owner
  BY <1>1 DEF ShareRow
<1>3. shares' = (shares \ {s}) \cup {t}
  BY DEF ShareExpires
<1>4. UNCHANGED <<users, sessions, rows, disk, uploads, used, told, spoiled>>
  BY DEF ShareExpires
<1>5. TypeOK'
  BY <1>2, <1>3, <1>4 DEF IndInv, TypeOK
<1>6. SharesOwned'
  BY <1>2, <1>3, <1>4 DEF IndInv, SharesOwned
<1>7. QED
  BY <1>4, <1>5, <1>6 DEF IndInv, FreshIsUnused, UploadsOwned, RowsHaveFiles

\* Every step keeps the invariant.
LEMMA NextInv == IndInv /\ [Next]_vars => IndInv'
<1> SUFFICES ASSUME IndInv, [Next]_vars PROVE IndInv'
  OBVIOUS
<1>1. CASE UNCHANGED vars
  BY <1>1 DEF vars, IndInv, TypeOK, FreshIsUnused, UploadsOwned, RowsHaveFiles, SharesOwned
<1>2. ASSUME NEW u \in Users, handleRegister(u) PROVE IndInv'
  BY <1>2, RegisterInv
<1>3. ASSUME NEW u \in Users, NEW sid \in Sids, handleLogin(u, sid) PROVE IndInv'
  BY <1>3, LoginInv
<1>4. ASSUME NEW sid \in Sids, handleLogout(sid) \/ SessionExpires(sid) PROVE IndInv'
  <2>1. /\ sessions' \in {sessions, [sessions EXCEPT ![sid] = None]}
        /\ UNCHANGED <<users, rows, shares, disk, uploads, used, told, spoiled>>
    BY <1>4 DEF handleLogout, SessionExpires
  <2>2. QED
    BY <2>1, EndSessionInv
<1>5. ASSUME NEW sid \in Sids, NEW n \in Names, UploadBegins(sid, n) PROVE IndInv'
  BY <1>5, UploadBeginsInv
<1>6. ASSUME NEW up \in uploads, UploadEnds(up) PROVE IndInv'
  BY <1>6, UploadEndsInv
<1>7. ASSUME NEW up \in uploads, UploadDropped(up) PROVE IndInv'
  <2>1. spoiled' \subseteq Names
    BY <1>7 DEF UploadDropped, IndInv, TypeOK
  <2>2. QED
    BY <1>7, <2>1, CutInv DEF UploadDropped
<1>8. ASSUME NEW sid \in Sids, NEW n \in Names, handleDelete(sid, n) PROVE IndInv'
  BY <1>8, DeleteInv
<1>9. ASSUME NEW sid \in Sids, NEW n \in Names, SetPrivate(sid, n) PROVE IndInv'
  BY <1>9, PrivateInv
<1>10. ASSUME NEW sid \in Sids, NEW n \in Names, NEW type \in Types,
              NEW with \in Users \cup {None}, NEW extract \in Extracts \cup {None},
              NEW expires \in BOOLEAN, NEW code \in Codes,
              handleShareFile(sid, n, type, with, extract, expires, code)
       PROVE IndInv'
  BY <1>10, ShareInv
<1>11. ASSUME NEW s \in shares, ShareExpires(s) PROVE IndInv'
  BY <1>11, ShareExpiresInv
<1>12. CASE Crash
  <2>1. spoiled' \subseteq Names
    BY <1>12 DEF Crash, IndInv, TypeOK
  <2>2. QED
    BY <1>12, <2>1, CutInv DEF Crash
<1>13. QED
  BY <1>1, <1>2, <1>3, <1>4, <1>5, <1>6, <1>7, <1>8, <1>9, <1>10, <1>11, <1>12 DEF Next

\* The inductive invariant is an invariant of the file store.
THEOREM Invariance == Spec => []IndInv
BY InitInv, NextInv, PTL DEF Spec

\* The tables and the directory have their types.
THEOREM TypeCorrect == Spec => []TypeOK
<1>1. IndInv => TypeOK
  BY DEF IndInv
<1>2. QED
  BY <1>1, Invariance, PTL

\* No failed statement and no crash leaves a row of files without its file, or
\* with a file that somebody else uploaded.
THEOREM NoDanglingRows == Spec => []RowsHaveFiles
<1>1. IndInv => RowsHaveFiles
  BY DEF IndInv
<1>2. QED
  BY <1>1, Invariance, PTL

\* Every share is of an existing file and was made by the file's owner.
THEOREM SharesAreOwned == Spec => []SharesOwned
<1>1. IndInv => SharesOwned
  BY DEF IndInv
<1>2. QED
  BY <1>1, Invariance, PTL

-----------------------------------------------------------------------------
(* What the tables say of the past: a second invariant, on top of the      *)
(* first.                                                                  *)

\* A code belongs to one share; only a protected share has an extract code, and
\* only a share with a user names one.
SharesSound ==
  /\ \A s \in shares : /\ s.code \in used
                       /\ s.type = "protected" <=> s.extract # None
                       /\ s.with # None => s.type = "user"
  /\ \A s, t \in shares : s.code = t.code => s = t

\* A deleted file never comes back: its name is used up.
DeletedIsGone ==
  \A n \in told.deleted : rows[n] = None /\ n \in used /\ \A up \in uploads : up.name # n

\* A file set private has no share, if the DELETE whose result nobody looks at works.
PrivateIsUnshared == "unshare" \notin Faults => \A s \in shares : s.file \notin told.private

\* A file that was announced as stored has its row, if the INSERT whose result
\* nobody looks at works.
StoredHasRow == "insertFile" \notin Faults => \A n \in told.stored : rows[n] # None

History ==
  SharesSound /\ DeletedIsGone /\ PrivateIsUnshared /\ StoredHasRow /\ OrphansAreExplained

\* Nothing has happened at the start.
LEMMA InitHistory == Init => History
BY DEF Init, History, SharesSound, DeletedIsGone, PrivateIsUnshared, StoredHasRow, OrphansAreExplained

\* A step that changes neither files nor shares, and finishes no upload.
LEMMA QuietHistory ==
  ASSUME History, used \subseteq used', UNCHANGED <<rows, shares, disk, uploads, told, spoiled>>
  PROVE  History'
BY DEF History, SharesSound, DeletedIsGone, PrivateIsUnshared, StoredHasRow, OrphansAreExplained

\* A new upload has a name that nothing was said of.
LEMMA UploadBeginsHistory ==
  ASSUME IndInv, History, NEW sid \in Sids, NEW n \in Names, UploadBegins(sid, n) PROVE History'
<1> DEFINE up == [name |-> n, sid |-> sid]
<1>1. /\ n \notin used /\ used' = used \cup {n} /\ uploads' = uploads \cup {up} /\ up.name = n
      /\ UNCHANGED <<rows, shares, told, spoiled>>
      /\ \A m \in Names : m # n => disk'[m] = disk[m]
  BY DEF UploadBegins, IndInv, TypeOK
<1>2. SharesSound'
  BY <1>1 DEF History, SharesSound
<1>3. DeletedIsGone'
  BY <1>1 DEF History, DeletedIsGone
<1>4. PrivateIsUnshared' /\ StoredHasRow'
  BY <1>1 DEF History, PrivateIsUnshared, StoredHasRow
<1>5. OrphansAreExplained'
  BY <1>1 DEF History, OrphansAreExplained
<1>6. QED
  BY <1>2, <1>3, <1>4, <1>5 DEF History

\* The last chunk gives the file a row, or spoils it.
LEMMA UploadEndsHistory ==
  ASSUME IndInv, History, NEW up \in uploads, UploadEnds(up) PROVE History'
<1>1. /\ up.name \in Names /\ up.sid \in Sids /\ uploads' = uploads \ {up}
      /\ UNCHANGED <<shares, disk, used>>
      /\ told'.stored = told.stored \cup {up.name} /\ told'.deleted = told.deleted
      /\ told'.private = told.private
  BY DEF UploadEnds, IndInv, TypeOK
<1>2. sessions[up.sid] # None
  BY <1>1, StoreAssumption DEF UploadEnds, validateSession
<1>3. /\ \A m \in Names : m # up.name => rows'[m] = rows[m]
      /\ rows'[up.name] # None \/ (up.name \in spoiled' /\ "insertFile" \in Faults)
      /\ spoiled \subseteq spoiled'
  <2>1. PICK ok \in Outcome("insertFile") :
          /\ rows' = IF ok THEN [rows EXCEPT ![up.name] = sessions[up.sid]] ELSE rows
          /\ spoiled' = IF ok THEN spoiled ELSE spoiled \cup {up.name}
    BY DEF UploadEnds
  <2>2. ok \in BOOLEAN /\ ("insertFile" \notin Faults => ok = TRUE)
    BY Zenon DEF Outcome
  <2>3. CASE ok = TRUE
    BY <1>1, <1>2, <2>1, <2>3 DEF IndInv, TypeOK
  <2>4. CASE ok = FALSE
    BY <2>1, <2>2, <2>4
  <2>5. QED
    BY <2>2, <2>3, <2>4
<1>4. SharesSound' /\ PrivateIsUnshared'
  BY <1>1 DEF History, SharesSound, PrivateIsUnshared
<1>5. DeletedIsGone'
  BY <1>1, <1>3 DEF History, DeletedIsGone, IndInv, TypeOK
<1>6. StoredHasRow'
  BY <1>1, <1>3 DEF History, StoredHasRow, IndInv, TypeOK
<1>7. OrphansAreExplained'
  BY <1>1, <1>3 DEF History, OrphansAreExplained
<1>8. QED
  BY <1>4, <1>5, <1>6, <1>7 DEF History

\* Uploads that are cut spoil their files.
LEMMA CutHistory ==
  ASSUME IndInv, History, uploads' \subseteq uploads, spoiled \subseteq spoiled',
         \A up \in uploads : up \in uploads' \/ up.name \in spoiled',
         UNCHANGED <<rows, shares, disk, used, told>>
  PROVE  History'
<1>1. SharesSound' /\ DeletedIsGone' /\ PrivateIsUnshared' /\ StoredHasRow'
  BY DEF History, SharesSound, DeletedIsGone, PrivateIsUnshared, StoredHasRow
<1>2. OrphansAreExplained'
  BY DEF History, OrphansAreExplained
<1>3. QED
  BY <1>1, <1>2 DEF History

\* handleDelete, wherever it stops: only the uploader's request takes a file out
\* of what is stored, a file reported deleted has lost its row and its shares, and
\* a file that stays without its row is spoiled.
LEMMA DeleteHistory ==
  ASSUME IndInv, History, NEW sid \in Sids, NEW n \in Names, handleDelete(sid, n) PROVE History'
<1>1. PICK stop \in (IF "crash" \in Faults THEN 0 .. 3 ELSE {3}),
           okShares \in Outcome("deleteShares"), okRow \in Outcome("deleteFile"),
           okUnlink \in Outcome("unlink") : DeleteRuns(sid, n, stop, okShares, okRow, okUnlink)
  BY Zenon DEF handleDelete
<1>2. /\ stop \in 0 .. 3
      /\ okShares \in BOOLEAN /\ okRow \in BOOLEAN /\ okUnlink \in BOOLEAN
  <2>1. stop \in 0 .. 3
    BY SMT
  <2>2. \A op : Outcome(op) \subseteq BOOLEAN
    BY Zenon DEF Outcome
  <2>3. okShares \in BOOLEAN /\ okRow \in BOOLEAN /\ okUnlink \in BOOLEAN
    BY <2>2, Zenon
  <2>4. QED
    BY <2>1, <2>3, Zenon
<1>3. used' = used /\ sessions[sid] = rows[n] /\ rows[n] # None /\ disk[n] = rows[n] /\ n \in used
  BY StoreAssumption DEF handleDelete, Owns, validateSession, IndInv, RowsHaveFiles, FreshIsUnused
<1>4. shares' \subseteq shares /\ uploads' \subseteq uploads /\ \A up \in uploads : up.name # n
  BY <1>2, <1>1, <1>3 DEF DeleteRuns, sharesLeft, IndInv, UploadsOwned
<1>5. \A m \in Names : m # n => rows'[m] = rows[m] /\ disk'[m] = disk[m]
  BY <1>1, <1>2 DEF DeleteRuns, IndInv, TypeOK
<1>6. /\ told'.stored = told.stored \ {n} /\ told'.private = told.private
      /\ told'.deleted = told.deleted \/ (told'.deleted = told.deleted \cup {n} /\ rows'[n] = None)
      /\ rows'[n] \in {rows[n], None}
  BY <1>1, <1>2, <1>3 DEF DeleteRuns, IndInv, TypeOK
<1>7. /\ spoiled \subseteq spoiled' /\ \A up \in uploads : up \in uploads' \/ up.name \in spoiled'
      /\ rows'[n] = rows[n] \/ disk'[n] = None \/ n \in spoiled'
  BY <1>1, <1>2 DEF DeleteRuns, unlinks, IndInv, TypeOK
<1>8. SharesSound' /\ PrivateIsUnshared'
  BY <1>3, <1>4, <1>6 DEF History, SharesSound, PrivateIsUnshared
<1>9. DeletedIsGone'
  BY <1>3, <1>4, <1>5, <1>6 DEF History, DeletedIsGone, IndInv, TypeOK
<1>10. StoredHasRow'
  BY <1>5, <1>6 DEF History, StoredHasRow, IndInv, TypeOK
<1>11. OrphansAreExplained'
  BY <1>3, <1>4, <1>5, <1>6, <1>7 DEF History, OrphansAreExplained
<1>12. QED
  BY <1>8, <1>9, <1>10, <1>11 DEF History

\* Setting a file private takes every share of it away, if the DELETE works.
LEMMA PrivateHistory ==
  ASSUME IndInv, History, NEW sid \in Sids, NEW n \in Names, SetPrivate(sid, n) PROVE History'
<1>1. /\ UNCHANGED <<rows, disk, uploads, used, spoiled>>
      /\ told'.stored = told.stored /\ told'.deleted = told.deleted
      /\ told'.private = told.private \cup {n}
  BY DEF SetPrivate, IndInv, TypeOK
<1>2. /\ shares' \subseteq shares
      /\ "unshare" \notin Faults => \A s \in shares' : s.file # n
  BY DEF SetPrivate, unshared, Outcome
<1>3. SharesSound' /\ DeletedIsGone' /\ StoredHasRow' /\ OrphansAreExplained'
  BY <1>1, <1>2 DEF History, SharesSound, DeletedIsGone, StoredHasRow, OrphansAreExplained
<1>4. PrivateIsUnshared'
  BY <1>1, <1>2 DEF History, PrivateIsUnshared
<1>5. QED
  BY <1>3, <1>4 DEF History

\* A new share has a new code and is of a file that was not deleted.
LEMMA ShareHistory ==
  ASSUME IndInv, History, NEW sid \in Sids, NEW n \in Names, NEW type \in Types,
         NEW with \in Users \cup {None}, NEW extract \in Extracts \cup {None},
         NEW expires \in BOOLEAN, NEW code \in Codes,
         handleShareFile(sid, n, type, with, extract, expires, code)
  PROVE  History'
<1> DEFINE row == [code |-> code, file |-> n, owner |-> sessions[sid], type |-> type,
                   with |-> with, extract |-> extract, expires |-> expires, live |-> TRUE]
<1>1. /\ code \notin used /\ used' = used \cup {code} /\ (type = "user" \/ with = None)
      /\ (type = "protected") = (extract # None)
      /\ UNCHANGED <<rows, disk, uploads, spoiled>>
  BY DEF handleShareFile
<1>2. /\ told'.stored = told.stored /\ told'.deleted = told.deleted
      /\ \/ shares' = shares /\ told'.private = told.private
         \/ shares' = shares \cup {row} /\ told'.private = told.private \ {n}
  BY DEF handleShareFile, IndInv, TypeOK
<1>3. /\ row.code = code /\ row.file = n /\ row.type = type /\ row.with = with /\ row.extract = extract
  OBVIOUS
<1> HIDE DEF row
<1>4. SharesSound'
  BY <1>1, <1>2, <1>3 DEF History, SharesSound
<1>5. DeletedIsGone' /\ StoredHasRow' /\ OrphansAreExplained'
  BY <1>1, <1>2 DEF History, DeletedIsGone, StoredHasRow, OrphansAreExplained
<1>6. PrivateIsUnshared'
  BY <1>2, <1>3 DEF History, PrivateIsUnshared
<1>7. QED
  BY <1>4, <1>5, <1>6 DEF History

\* A share that expires keeps its code.
LEMMA ShareExpiresHistory == ASSUME IndInv, History, NEW s \in shares, ShareExpires(s) PROVE History'
<1> DEFINE t == [s EXCEPT !.live = FALSE]
<1>1. s \in ShareRow
  BY DEF IndInv, TypeOK
<1>2. /\ t.file = s.file /\ t.code = s.code /\ t.type = s.type /\ t.with = s.with
      /\ t.extract = s.extract
  BY <1>1 DEF ShareRow
<1>3. shares' = (shares \ {s}) \cup {t} /\ UNCHANGED <<rows, disk, uploads, used, told, spoiled>>
  BY DEF ShareExpires
<1> HIDE DEF t
<1>4. SharesSound'
  BY <1>2, <1>3 DEF History, SharesSound
<1>5. DeletedIsGone' /\ StoredHasRow' /\ OrphansAreExplained'
  BY <1>3 DEF History, DeletedIsGone, StoredHasRow, OrphansAreExplained
<1>6. PrivateIsUnshared'
  BY <1>2, <1>3 DEF History, PrivateIsUnshared
<1>7. QED
  BY <1>4, <1>5, <1>6 DEF History

\* Every step keeps the second invariant.
LEMMA NextHistory == IndInv /\ History /\ [Next]_vars => History'
<1> SUFFICES ASSUME IndInv, History, [Next]_vars PROVE History'
  OBVIOUS
<1>1. CASE UNCHANGED vars
  BY <1>1, QuietHistory DEF vars
<1>2. ASSUME NEW u \in Users, handleRegister(u) PROVE History'
  BY <1>2, QuietHistory DEF handleRegister
<1>3. ASSUME NEW u \in Users, NEW sid \in Sids, handleLogin(u, sid) PROVE History'
  BY <1>3, QuietHistory DEF handleLogin
<1>4. ASSUME NEW sid \in Sids, handleLogout(sid) \/ SessionExpires(sid) PROVE History'
  BY <1>4, QuietHistory DEF handleLogout, SessionExpires
<1>5. ASSUME NEW sid \in Sids, NEW n \in Names, UploadBegins(sid, n) PROVE History'
  BY <1>5, UploadBeginsHistory
<1>6. ASSUME NEW up \in uploads, UploadEnds(up) PROVE History'
  BY <1>6, UploadEndsHistory
<1>7. ASSUME NEW up \in uploads, UploadDropped(up) PROVE History'
  BY <1>7, CutHistory DEF UploadDropped
<1>8. ASSUME NEW sid \in Sids, NEW n \in Names, handleDelete(sid, n) PROVE History'
  BY <1>8, DeleteHistory
<1>9. ASSUME NEW sid \in Sids, NEW n \in Names, SetPrivate(sid, n) PROVE History'
  BY <1>9, PrivateHistory
<1>10. ASSUME NEW sid \in Sids, NEW n \in Names, NEW type \in Types,
              NEW with \in Users \cup {None}, NEW extract \in Extracts \cup {None},
              NEW expires \in BOOLEAN, NEW code \in Codes,
              handleShareFile(sid, n, type, with, extract, expires, code)
       PROVE History'
  BY <1>10, ShareHistory
<1>11. ASSUME NEW s \in shares, ShareExpires(s) PROVE History'
  BY <1>11, ShareExpiresHistory
<1>12. CASE Crash
  BY <1>12, CutHistory DEF Crash
<1>13. QED
  BY <1>1, <1>2, <1>3, <1>4, <1>5, <1>6, <1>7, <1>8, <1>9, <1>10, <1>11, <1>12 DEF Next

\* Both invariants hold of every behaviour.
THEOREM HistoryInvariance == Spec => [](IndInv /\ History)
BY InitInv, NextInv, InitHistory, NextHistory, PTL DEF Spec

\* A file in uploads/ that no row and no upload accounts for is one whose upload
\* was cut, or whose INSERT or removal failed.
THEOREM OrphansExplained == Spec => []OrphansAreExplained
<1>1. History => OrphansAreExplained
  BY DEF History
<1>2. QED
  BY <1>1, HistoryInvariance, PTL

\* If the INSERT of a finished upload never fails, what was announced as stored is
\* there until its uploader asks to delete it, whatever other statements fail and
\* wherever the process dies.
THEOREM StoredStays == ASSUME "insertFile" \notin Faults PROVE Spec => []StoredIsKept
<1>1. IndInv /\ History => StoredIsKept
  BY DEF IndInv, TypeOK, RowsHaveFiles, History, StoredHasRow, StoredIsKept
<1>2. QED
  BY <1>1, HistoryInvariance, PTL

-----------------------------------------------------------------------------
(* What the handlers that read would answer.                               *)

\* The checks of a request with a share code, once the user is known.
Checked(user, n, code, x) ==
  IF sharedRows(n, code) = {} THEN 404
  ELSE IF \/ user # None /\ user = rows[n]
          \/ hasPermission(user, CHOOSE r \in sharedRows(n, code) : TRUE, x)
  THEN Serve(n)
  ELSE 403

\* Both handlers make these checks, each with the session it has found.
LEMMA BothCheck ==
  ASSUME NEW sid, NEW qsid, NEW n, NEW code, NEW x, code # None
  PROVE  /\ handleDownload(sid, qsid, n, code, x)
              = Checked(validateSession(sessionOf(sid, qsid)), n, code, x)
         /\ handleShareDownload(sid, n, code, x) = Checked(validateSession(sid), n, code, x)
<1> DEFINE hits == sharedRows(n, code)
           s    == CHOOSE r \in hits : TRUE
           answer(u) == IF hits = {} THEN 404
                        ELSE IF (u # None /\ u = rows[n]) \/ hasPermission(u, s, x)
                        THEN Serve(n) ELSE 403
<1>1. handleDownload(sid, qsid, n, code, x) = answer(validateSession(sessionOf(sid, qsid)))
  BY Zenon DEF handleDownload
<1>2. handleShareDownload(sid, n, code, x) = answer(validateSession(sid))
  BY Zenon DEF handleShareDownload
<1>3. \A u : Checked(u, n, code, x) = answer(u)
  BY Zenon DEF Checked
<1> HIDE DEF answer
<1>4. QED
  BY <1>1, <1>2, <1>3, Zenon

\* The query by a share's code finds that share and no other.
LEMMA CodeFindsShare ==
  ASSUME IndInv, History, NEW s \in shares,
         NEW hits, hits \subseteq shares, \A r \in hits : r.code = s.code, s \in hits
  PROVE  (CHOOSE r \in hits : TRUE) = s
<1>1. (CHOOSE r \in hits : TRUE) \in hits
  OBVIOUS
<1>2. \A r \in hits : r = s
  BY DEF History, SharesSound
<1>3. QED
  BY <1>1, <1>2

\* In a state where rows have their files and shares their owners, the checks
\* serve only whom Entitled allows.
LEMMA CheckedSound ==
  ASSUME IndInv, NEW user, NEW n \in Names, NEW code, NEW x, Checked(user, n, code, x) = 200
  PROVE  Entitled(user, n, code, x)
<1> DEFINE hits == sharedRows(n, code)
           s    == CHOOSE r \in hits : TRUE
<1>1. /\ hits # {}
      /\ (user # None /\ user = rows[n]) \/ hasPermission(user, s, x)
  BY DEF Checked
<1>2. s \in hits
  BY <1>1
<1>3. s \in shares /\ s.file = n /\ s.code = code /\ s.live /\ rows[n] # None
  BY <1>2 DEF sharedRows
<1>4. s.owner = disk[n] /\ rows[n] = disk[n]
  BY <1>3 DEF IndInv, SharesOwned, RowsHaveFiles
<1> HIDE DEF s, hits
<1>5. CASE user # None /\ user = rows[n]
  BY <1>4, <1>5 DEF Entitled
<1>6. CASE hasPermission(user, s, x)
  <2>1. \/ s.type = "public"
        \/ s.type = "protected" /\ s.extract = x
        \/ s.type = "user" /\ user # None /\ s.with = user
    BY <1>6 DEF hasPermission
  <2>2. QED
    BY <1>3, <1>4, <2>1 DEF Entitled
<1>7. QED
  BY <1>1, <1>5, <1>6

\* Without a share code, handleDownload serves the owner only.
LEMMA NoCodeOwner ==
  ASSUME NEW sid, NEW qsid, NEW n, NEW x, handleDownload(sid, qsid, n, None, x) = 200
  PROVE  Owns(sessionOf(sid, qsid), n)
BY DEF handleDownload, Owns

\* Both handlers, with either session, serve only whom DownloadJustified allows.
LEMMA DownloadSound == IndInv => DownloadJustified
<1> SUFFICES ASSUME IndInv, NEW sid \in Sids \cup {None}, NEW qsid \in Sids \cup {None},
                    NEW n \in Names, NEW code \in Codes \cup {None},
                    NEW x \in Extracts \cup {None}
             PROVE  /\ handleDownload(sid, qsid, n, code, x) = 200
                         => Entitled(validateSession(sessionOf(sid, qsid)), n, code, x)
                    /\ handleShareDownload(sid, n, code, x) = 200
                         => Entitled(validateSession(sid), n, code, x)
  BY DEF DownloadJustified
<1>1. CASE code = None
  <2>1. handleShareDownload(sid, n, code, x) = 400
    BY <1>1 DEF handleShareDownload
  <2>2. ASSUME handleDownload(sid, qsid, n, code, x) = 200
        PROVE  Entitled(validateSession(sessionOf(sid, qsid)), n, code, x)
    <3>1. Owns(sessionOf(sid, qsid), n)
      BY <1>1, <2>2, NoCodeOwner
    <3>2. QED
      BY <3>1 DEF Owns, Entitled, IndInv, RowsHaveFiles
  <2>3. QED
    BY <2>1, <2>2
<1>2. CASE code # None
  BY <1>2, BothCheck, CheckedSound
<1>3. QED
  BY <1>1, <1>2

\* Whatever is requested of the two download handlers, wherever it gives its
\* session, a file's bytes go only to the user who uploaded them or to whom a valid
\* share that this user has made is for.
THEOREM DownloadsAreJustified == Spec => []DownloadJustified
BY Invariance, DownloadSound, PTL

\* If the DELETE of shares never fails, a file that was set private or deleted is
\* served to its owner only, and no share of it is left.
THEOREM WithdrawnStaysRefused ==
  ASSUME "unshare" \notin Faults PROVE Spec => []WithdrawnIsRefused
<1>1. ASSUME IndInv, History PROVE WithdrawnIsRefused
  <2>1. \A s \in shares : s.file \notin told.private \cup told.deleted
    BY <1>1 DEF IndInv, SharesOwned, History, PrivateIsUnshared, DeletedIsGone
  <2>2. ASSUME NEW n \in told.private \cup told.deleted, NEW sid \in Sids \cup {None},
               NEW qsid \in Sids \cup {None}, NEW code \in Codes \cup {None},
               NEW x \in Extracts \cup {None}
        PROVE  /\ handleDownload(sid, qsid, n, code, x) = 200 => Owns(sessionOf(sid, qsid), n)
               /\ handleShareDownload(sid, n, code, x) # 200
    <3>1. CASE code = None
      <4>1. handleShareDownload(sid, n, code, x) = 400
        BY <3>1 DEF handleShareDownload
      <4>2. handleDownload(sid, qsid, n, code, x) = 200 => Owns(sessionOf(sid, qsid), n)
        BY <3>1, NoCodeOwner
      <4>3. QED
        BY <4>1, <4>2
    <3>2. CASE code # None
      <4>1. sharedRows(n, code) = {}
        BY <2>1 DEF sharedRows
      <4>2. \A user : Checked(user, n, code, x) = 404
        BY <4>1 DEF Checked
      <4>3. QED
        BY <3>2, <4>2, BothCheck
    <3>3. QED
      BY <3>1, <3>2
  <2>3. QED
    BY <2>1, <2>2 DEF WithdrawnIsRefused
<1>2. QED
  BY <1>1, HistoryInvariance, PTL

\* What is known of a share's row.
LEMMA ShareFacts ==
  ASSUME IndInv, NEW s \in shares
  PROVE  /\ s \in ShareRow /\ s.code \in Codes /\ s.code # None /\ s.file \in Names
         /\ s.type \in Types
         /\ rows[s.file] # None /\ rows[s.file] \in Users /\ disk[s.file] = rows[s.file]
BY StoreAssumption DEF IndInv, TypeOK, ShareRow, SharesOwned, RowsHaveFiles

\* Whom a live share lets download, and that the file is there.
LEMMA LiveShareServes ==
  ASSUME IndInv, History, NEW s \in shares, s.live, NEW user, NEW x,
         hasPermission(user, s, x)
  PROVE  Checked(user, s.file, s.code, x) = 200
<1>1. rows[s.file] # None /\ disk[s.file] # None
  BY ShareFacts
<1> DEFINE hits == sharedRows(s.file, s.code)
<1>2. s \in hits /\ hits \subseteq shares /\ \A r \in hits : r.code = s.code
  BY <1>1 DEF sharedRows
<1>3. (CHOOSE r \in hits : TRUE) = s
  <2> HIDE DEF hits
  <2>1. QED
    BY <1>2, CodeFindsShare
<1>4. hasPermission(user, CHOOSE r \in hits : TRUE, x)
  BY <1>3, Zenon
<1>5. hits # {} /\ Serve(s.file) = 200
  BY <1>1, <1>2 DEF Serve
<1>6. QED
  BY <1>4, <1>5, Zenon DEF Checked

\* What the query by code finds, among whatever part of the live shares.
LEMMA FoundByCode ==
  ASSUME IndInv, History, NEW s \in shares, NEW hits, hits \subseteq sharesByCode(s.code),
         hits # {}
  PROVE  (CHOOSE r \in hits : TRUE) = s /\ s \in hits /\ s.live
<1>1. PICK r \in hits : TRUE
  OBVIOUS
<1>2. hits \subseteq shares /\ (\A q \in hits : q.code = s.code) /\ \A q \in hits : q.live
  BY DEF sharesByCode
<1>3. r = s
  BY <1>1, <1>2 DEF History, SharesSound
<1>4. QED
  BY <1>2, <1>3, CodeFindsShare

\* What handleShareInfo shows is downloaded from share.html with the same codes,
\* unless it is for one user; and what handleShareAccess shows can be downloaded by
\* its caller, unless the misread column takes the caller for the owner.  The three
\* handlers do not share one check.
THEOREM ShownStaysReachable == Spec => []ShownIsReachable
<1>1. ASSUME IndInv, History PROVE ShownIsReachable
  <2>1. ASSUME NEW s \in shares, NEW x \in Extracts \cup {None},
               200 \in handleShareInfo(s.code, x), s.type # "user"
        PROVE  handleShareDownload(None, s.file, s.code, x) = 200
    <3> DEFINE hits == sharesByCode(s.code)
               t    == CHOOSE r \in hits : TRUE
    <3>1. hits # {} /\ ~(t.type = "protected" /\ (x = None \/ x # t.extract))
      BY <2>1 DEF handleShareInfo
    <3>2. t = s /\ s.live
      BY <1>1, <3>1, FoundByCode
    <3> HIDE DEF hits, t
    <3>3. hasPermission(validateSession(None), s, x)
      BY <1>1, <2>1, <3>1, <3>2, ShareFacts DEF hasPermission, Types
    <3>4. Checked(validateSession(None), s.file, s.code, x) = 200
      BY <1>1, <3>2, <3>3, LiveShareServes
    <3>5. QED
      BY <1>1, <3>4, ShareFacts, BothCheck
  <2>2. ASSUME NEW s \in shares, NEW sid \in Sids \cup {None}, NEW x \in Extracts \cup {None},
               handleShareAccess(sid, s.code, x) = 200,
               ~takenForOwner(validateSession(sid), s.file)
        PROVE  handleShareDownload(sid, s.file, s.code, x) = 200
    <3> DEFINE user == validateSession(sid)
               hits == {r \in sharesByCode(s.code) : r.type = "protected" => r.extract = x}
               t    == CHOOSE r \in hits : TRUE
    <3>1. /\ hits # {}
          /\ takenForOwner(user, t.file) \/ hasPermission(user, [t EXCEPT !.extract = t.code], x)
      BY <2>2 DEF handleShareAccess
    <3>2. hits \subseteq sharesByCode(s.code)
      OBVIOUS
    <3>3. t = s /\ s \in hits /\ s.live
      BY <1>1, <3>1, <3>2, FoundByCode
    <3>4. s.type = "protected" => s.extract = x
      BY <3>3
    <3> HIDE DEF hits, t
    <3>5. hasPermission(user, [s EXCEPT !.extract = s.code], x)
      BY <2>2, <3>1, <3>3
    <3>6. hasPermission(user, s, x)
      <4>1. /\ [s EXCEPT !.extract = s.code].type = s.type
            /\ [s EXCEPT !.extract = s.code].with = s.with
            /\ [s EXCEPT !.extract = s.code].extract = s.code
        BY <1>1, ShareFacts DEF ShareRow
      <4>2. x # s.code
        BY <1>1, ShareFacts, StoreAssumption
      <4>3. QED
        BY <3>5, <4>1, <4>2 DEF hasPermission
    <3>7. Checked(user, s.file, s.code, x) = 200
      BY <1>1, <3>3, <3>6, LiveShareServes
    <3>8. QED
      BY <1>1, <3>7, ShareFacts, BothCheck
  <2>3. QED
    BY <2>1, <2>2 DEF ShownIsReachable
<1>2. QED
  BY <1>1, HistoryInvariance, PTL

-----------------------------------------------------------------------------
(* What handleListFiles lists.                                             *)

\* A share by which somebody else's file is listed is one the download checks
\* grant without an extract code, until it expires.
LEMMA ListedShareGrants ==
  ASSUME IndInv, History, NEW user, user # None, NEW s \in listedShares(user)
  PROVE  Checked(user, s.file, s.code, None) = IF s.live THEN 200 ELSE 404
<1>1. s \in shares /\ (s.with = user \/ s.type = "public")
  BY DEF listedShares
<1>2. hasPermission(user, s, None)
  BY <1>1 DEF hasPermission, History, SharesSound
<1>3. CASE s.live
  BY <1>1, <1>2, <1>3, LiveShareServes
<1>4. CASE ~s.live
  <2>1. \A r \in sharedRows(s.file, s.code) : r = s /\ r.live
    BY <1>1 DEF sharedRows, History, SharesSound
  <2>2. sharedRows(s.file, s.code) = {}
    BY <1>4, <2>1
  <2>3. QED
    BY <1>4, <2>2 DEF Checked
<1>5. QED
  BY <1>3, <1>4

\* The list and the downloads agree on who may have a file, although the list is
\* made by other queries: an entry of somebody else's file rests on a share that
\* would serve the caller, and a share shown to the owner works for everybody it
\* is for.
THEOREM ListedStaysGranted == Spec => []ListedIsGranted
<1>1. ASSUME IndInv, History PROVE ListedIsGranted
  <2> SUFFICES ASSUME NEW sid \in Sids, NEW type \in {"my", "shared", "all"},
                      NEW e \in handleListFiles(sid, type)
               PROVE  \/ /\ rows[e[1]] = validateSession(sid)
                         /\ e[2] # None /\ e[2].live /\ e[2].type # "user"
                              => handleShareDownload(None, e[1], e[2].code, e[2].extract) = 200
                      \/ \E s \in shares :
                           /\ s.file = e[1]
                           /\ handleDownload(sid, None, e[1], s.code, None)
                                = IF s.live THEN 200 ELSE 404
    BY DEF ListedIsGranted
  <2> DEFINE user == validateSession(sid)
             mine == {n \in Names : rows[n] = user}
  <2>1. user # None
    BY DEF handleListFiles
  <2>2. \/ \E s \in shares : s.file \in mine /\ e = <<s.file, s>>
        \/ \E n \in mine : e = <<n, None>>
        \/ \E s \in listedShares(user) : e = <<s.file, None>>
    BY <2>1 DEF handleListFiles
  <2>3. ASSUME NEW s \in shares, s.file \in mine, e = <<s.file, s>>, s.live, s.type # "user"
        PROVE  handleShareDownload(None, s.file, s.code, s.extract) = 200
    <3>1. hasPermission(validateSession(None), s, s.extract)
      BY <1>1, <2>3, ShareFacts DEF hasPermission, Types, History, SharesSound
    <3>2. Checked(validateSession(None), s.file, s.code, s.extract) = 200
      BY <1>1, <2>3, <3>1, LiveShareServes
    <3>3. QED
      BY <1>1, <3>2, ShareFacts, BothCheck
  <2>4. ASSUME NEW s \in listedShares(user), e = <<s.file, None>>
        PROVE  /\ s \in shares
               /\ handleDownload(sid, None, s.file, s.code, None) = IF s.live THEN 200 ELSE 404
    <3>1. s \in shares
      BY DEF listedShares
    <3>2. sessionOf(sid, None) = sid
      BY DEF sessionOf
    <3>3. Checked(user, s.file, s.code, None) = IF s.live THEN 200 ELSE 404
      BY <1>1, <2>1, ListedShareGrants
    <3>4. QED
      BY <1>1, <3>1, <3>2, <3>3, ShareFacts, BothCheck
  <2>5. CASE \E s \in shares : s.file \in mine /\ e = <<s.file, s>>
    BY <2>3, <2>5
  <2>6. CASE \E n \in mine : e = <<n, None>>
    BY <2>6
  <2>7. CASE \E s \in listedShares(user) : e = <<s.file, None>>
    BY <2>4, <2>7
  <2>8. QED
    BY <2>2, <2>5, <2>6, <2>7
<1>2. QED
  BY <1>1, HistoryInvariance, PTL

=============================================================================
