---------------------------- MODULE MCUninstall ----------------------------
(* The lines of uninstall.sh, with two objects for a file or a list of names. *)
EXTENDS Uninstall

CONSTANTS label, cassandraCfg, pithosCfg, statefulset, service, deployment,
          account, ssl, keys, tablesJob

UninstallScript ==
    << {label}, {cassandraCfg, pithosCfg}, {statefulset, service},
       {deployment, account}, {ssl, keys} >>
=============================================================================
