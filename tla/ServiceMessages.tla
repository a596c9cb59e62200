---------------------------- MODULE ServiceMessages ----------------------------
(***************************************************************************)
(* The messages of the services this program offers (auth.ts, greeter.ts)  *)
(* and of the HTTP annotations of google/api/http.ts, as tables of the     *)
(* same form as those of DescriptorMessages.  annotations.ts declares no   *)
(* message.                                                                *)
(***************************************************************************)
EXTENDS ProtoFields

Http == << Repeated(1, "rules", "HttpRule"), Flag3(2, "fullyDecodeReservedExpansion") >>
HttpRule == <<
  Text3(1, "selector"), Member(2, "get"), Member(3, "put"), Member(4, "post"),
  Member(5, "delete"), Member(6, "patch"), Message(8, "custom", "CustomHttpPattern"),
  Text3(7, "body"), Text3(12, "responseBody"), Repeated(11, "additionalBindings", "HttpRule") >>
CustomHttpPattern == << Text3(1, "kind"), Text3(2, "path") >>
GoogleLoginRequest == << Text3(1, "idToken") >>
SessionResponse == << Text3(1, "jwt"), Message(2, "user", "User") >>
User == <<
  Text3(1, "id"), Text3(2, "email"), Text3(3, "displayName"), Text3(4, "username"),
  Text3(5, "pictureUrl"), Flag3(6, "isAdmin") >>
UpdateProfileRequest == << Text3(1, "username") >>
GetCurrentUserRequest == <<  >>
ListUsersRequest == <<  >>
ListUsersResponse == << Repeated(1, "users", "User") >>
EchoRequest == << Text3(1, "message") >>
EchoReply == << Text3(1, "message") >>

ServiceTypes == [
  Http |-> Http, HttpRule |-> HttpRule, CustomHttpPattern |-> CustomHttpPattern,
  GoogleLoginRequest |-> GoogleLoginRequest, SessionResponse |-> SessionResponse, User |-> User,
  UpdateProfileRequest |-> UpdateProfileRequest,
  GetCurrentUserRequest |-> GetCurrentUserRequest, ListUsersRequest |-> ListUsersRequest,
  ListUsersResponse |-> ListUsersResponse, EchoRequest |-> EchoRequest, EchoReply |-> EchoReply ]
=============================================================================
