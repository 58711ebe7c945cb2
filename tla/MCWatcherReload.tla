-------------------------- MODULE MCWatcherReload --------------------------
(* Instances of WatcherReload for TLC. *)
EXTENDS WatcherReload

\* watchers.yml binds its one watcher to the chat 1.
FirstChatDeclared == {1} \X Config
=============================================================================
