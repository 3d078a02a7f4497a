---------------------------------- MODULE Api ----------------------------------
(***************************************************************************)
(* The handlers of the JSON API, internal/api: every one reads what it was *)
(* sent, asks the service for one thing and answers with it.  The names    *)
(* that a response shows beside uids are looked up after that, and left    *)
(* out if they cannot be.                                                  *)
(***************************************************************************)
EXTENDS Handlers

Gets(steps)        == Handler("GET", steps, {200})
Posts(steps, ok)   == Handler("POST", steps, {ok})
Patches(steps)     == Handler("PATCH", steps, {200})
Puts(steps)        == Handler("PUT", steps, {200})
Deletes(steps, ok) == Handler("DELETE", steps, {ok})

\* Sessions, accounts and what they may do.
createSession        == Open(Posts(<<"input", "Login">>, 201))
deleteCurrentSession == Deletes(<<"Logout">>, 204)
me                   == Gets(<<>>)
createGrant          == Posts(<<"input", "CreateGrant">>, 201)
assignRole           == Posts(<<"input", "AssignRole">>, 204)
listInvitations      == Gets(<<"input", "Invitations">>)
createInvitation     == Posts(<<"input", "CreateInvitation">>, 201)
redeemInvitation     == Open(Posts(<<"input", "Redeem">>, 201))
showInvitation       == Gets(<<"Invitation">>)
revokeInvitation     == Posts(<<"input", "RevokeInvitation">>, 200)
listUsers            == Gets(<<"Users">>)
showUser             == Gets(<<"User">>)

\* Documents, their versions and the edit lease.
listDocuments    == Gets(<<"input", "ResolveFilter", "ListDocuments">>)
createDocument   == Posts(<<"input", "CreateDocument">>, 201)
showDocument     == Gets(<<"Document">>)
patchDocument    == Patches(<<"input", "UpdateDraft">>)
checkoutDocument == Posts(<<"Checkout">>, 200)
cancelCheckout   == Deletes(<<"CancelCheckout">>, 200)
checkinDocument  == Posts(<<"input", "Checkin">>, 200)
revertDocument   == Handler("POST", <<"Revert">>, {200, 204})
listVersions     == Gets(<<"Versions">>)
showVersion      == Gets(<<"input", "GetVersion">>)
diffDocument     == Gets(<<"input", "Diff">>)
documentEvents   == Gets(<<"input", "DocumentEvents">>)

\* The desk: transitions, assignment, due dates, queues.
listTransitions  == Gets(<<"Transitions">>)
doTransition     == Posts(<<"input", "Transition">>, 200)
assignDocument   == Posts(<<"input", "Assign">>, 200)
unassignDocument == Deletes(<<"Unassign">>, 200)
setDue           == Puts(<<"input", "SetDue">>)
clearDue         == Deletes(<<"SetDue">>, 200)
listQueues       == Gets(<<>>)
showQueue        == Gets(<<"Queue">>)
listWorkflows    == Gets(<<"Workflows">>)

\* Comments, approvals, jobs.
listComments     == Gets(<<"Comments">>)
createComment    == Posts(<<"input", "Comment">>, 201)
resolveComment   == Posts(<<"ResolveComment">>, 200)
listApprovals    == Gets(<<"input", "Approvals">>)
approveDocument  == Handler("POST", <<"Approve">>, {200, 201})
withdrawApproval == Deletes(<<"WithdrawApproval">>, 200)
listJobs         == Gets(<<"input", "Jobs">>)
retryJob         == Posts(<<"RetryJob">>, 200)

\* Sites and what documents are filed under and rendered by.
listSites              == Gets(<<"Sites">>)
patchSite              == Patches(<<"input", "UpdateSite">>)
listCategories         == Gets(<<"input", "Categories">>)
createCategory         == Posts(<<"input", "CreateCategory">>, 201)
showCategory           == Gets(<<"Category">>)
patchCategory          == Patches(<<"input", "MoveCategory">>)
deleteCategory         == Deletes(<<"DeleteCategory">>, 204)
listOutputChannels     == Gets(<<"input", "OutputChannels">>)
createOutputChannel    == Posts(<<"input", "CreateOutputChannel">>, 201)
showOutputChannel      == Gets(<<"OutputChannel">>)
patchOutputChannel     == Patches(<<"input", "UpdateOutputChannel">>)
listElementTypes       == Gets(<<"ElementTypes">>)
createElementType      == Posts(<<"input", "CreateElementType">>, 201)
showElementType        == Gets(<<"ElementType">>)
patchElementType       == Patches(<<"input", "UpdateElementType">>)
listDocumentCategories == Gets(<<"DocumentCategories">>)
fileDocument           == Puts(<<"input", "FileDocument">>)
documentURIs           == Gets(<<"DocumentURIs">>)

\* Rendering and publishing; a dry run schedules nothing.
previewDocument   == Posts(<<"input", "Preview">>, 200)
servePreview      == Gets(<<"PreviewOpen">>)
publishDocument   == Handler("POST", <<"input", "Publish">>, {200, 202})
documentResources == Gets(<<"Resources">>)

\* Alert rules and the caller's own inbox.
listAlertRules    == Gets(<<"AlertRules">>)
createAlertRule   == Posts(<<"input", "CreateAlertRule">>, 201)
showAlertRule     == Gets(<<"AlertRule">>)
patchAlertRule    == Patches(<<"input", "UpdateAlertRule">>)
deleteAlertRule   == Deletes(<<"DeleteAlertRule">>, 204)
listNotifications == Gets(<<"input", "Notifications">>)
readNotification  == Posts(<<"MarkNotificationRead">>, 200)

Register ==
  {createSession, deleteCurrentSession, me, createGrant, assignRole, listInvitations,
   createInvitation, redeemInvitation, showInvitation, revokeInvitation, listUsers, showUser,
   listDocuments, createDocument, showDocument, patchDocument, checkoutDocument, cancelCheckout,
   checkinDocument, revertDocument, listVersions, showVersion, diffDocument, documentEvents,
   listTransitions, doTransition, assignDocument, unassignDocument, setDue, clearDue,
   listQueues, showQueue, listWorkflows, listComments, createComment, resolveComment,
   listApprovals, approveDocument, withdrawApproval, listJobs, retryJob, listSites, patchSite,
   listCategories, createCategory, showCategory, patchCategory, deleteCategory,
   listOutputChannels, createOutputChannel, showOutputChannel, patchOutputChannel,
   listElementTypes, createElementType, showElementType, patchElementType,
   listDocumentCategories, fileDocument, documentURIs, previewDocument, publishDocument,
   documentResources, listAlertRules, createAlertRule, showAlertRule, patchAlertRule,
   deleteAlertRule, listNotifications, readNotification}

RegisterPreview == {servePreview}
================================================================================
