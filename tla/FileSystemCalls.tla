--------------------------- MODULE FileSystemCalls ---------------------------
(***************************************************************************)
(* gdal_vsi.cpp: operations on GDAL's virtual file systems.  A result      *)
(* other than success is returned as -1, FALSE, NULL or an empty vector.   *)
(***************************************************************************)
EXTENDS VectorStoreCalls

\* an operation on stored files, all of it the library's: on one file or empty
\* directory, or on contents or on many of them
FileOp  == Filename \o Effect(Value, Void)
FilesOp == Filename \o Effects(Value, Void)

\* a question about a file system or a path
FileQuery == Filename \o Choose(Value, Void)

vsi_copy_file == When(Stop) \o FilesOp
vsi_sync      == FilesOp
\* a directory, or with its ancestors; the same with its content
vsi_mkdir ==
    Filename \o When(Stop) \o Choose(Effects(Value, Void), Effect(Value, Void))
vsi_rmdir     == Choose(FilesOp, FileOp)
vsi_unlink    == FileOp
\* where names are no directory entries, files are copied and deleted
vsi_rename    == FilesOp

\* the handler is pushed before the prefix is looked at
vsi_curl_clear_cache ==
    When(Take("handler")) \o When(Filename) \o FreeIf("handler") \o Value

vsi_read_dir ==
    Filename \o Get("names", Void)
    \o Choose(Use("names") \o Free("names") \o Value, Free("names") \o Void)

vsi_glob == When(Stop) \o FileQuery

vsi_unlink_batch ==
    When(Void) \o Loop(Filename)
    \o Make("codes", Void) \o Use("codes") \o Free("codes") \o Value

vsi_stat == Filename \o Choose(Choose(Value, Void), Tell \o Void)
vsi_stat_exists == Loop(Tell) \o Value
vsi_stat_type   == Loop(Tell) \o Value
vsi_stat_size   == Loop(Tell) \o Value

vsi_get_fs_options_    == FileQuery
vsi_supports_seq_write == When(Stop) \o FileQuery
vsi_supports_rnd_write == When(Stop) \o FileQuery
vsi_get_disk_free_space == FileQuery
vsi_get_actual_url     == FileQuery
vsi_is_local           == When(Stop) \o FileQuery

\* a name is copied out of each item, whether or not there is a value
vsi_get_file_metadata ==
    Filename \o HoldNew("names") \o When(Void)
    \o Loop(When(Take("text")) \o FreeIf("text")) \o Value

vsi_get_signed_url ==
    Filename \o Get("text", Void) \o Free("text") \o Value

FileSystemBodies ==
    [vsi_copy_file |-> vsi_copy_file, vsi_sync |-> vsi_sync,
     vsi_mkdir |-> vsi_mkdir, vsi_rmdir |-> vsi_rmdir,
     vsi_unlink |-> vsi_unlink, vsi_rename |-> vsi_rename,
     vsi_curl_clear_cache |-> vsi_curl_clear_cache,
     vsi_read_dir |-> vsi_read_dir, vsi_glob |-> vsi_glob,
     vsi_unlink_batch |-> vsi_unlink_batch, vsi_stat |-> vsi_stat,
     vsi_stat_exists |-> vsi_stat_exists, vsi_stat_type |-> vsi_stat_type,
     vsi_stat_size |-> vsi_stat_size,
     vsi_get_fs_options_ |-> vsi_get_fs_options_,
     vsi_supports_seq_write |-> vsi_supports_seq_write,
     vsi_supports_rnd_write |-> vsi_supports_rnd_write,
     vsi_get_disk_free_space |-> vsi_get_disk_free_space,
     vsi_get_actual_url |-> vsi_get_actual_url, vsi_is_local |-> vsi_is_local,
     vsi_get_file_metadata |-> vsi_get_file_metadata,
     vsi_get_signed_url |-> vsi_get_signed_url]
=============================================================================
