--------------------------- MODULE CompositionProofs ---------------------------
(***************************************************************************)
(* Theorems about Services: what is proved of a part on its own holds of   *)
(* the part among the others, for which each part takes its own steps or   *)
(* none.                                                                   *)
(***************************************************************************)
EXTENDS Services, ServicesProofs, AssetsProofs, JobsServiceProofs

-----------------------------------------------------------------------------
(* Each part takes steps of its own, or none *)

\* Whatever the other parts do, that of jobs behaves as on its own.
LEMMA JobsAmongOthers == Spec => JobsSpec
<1>1. Init => InitJobs
  BY DEF Init
<1>2. [Next]_servicesVars => [NextJobs]_jobsVars
  BY DEF Next, Only, servicesVars
<1> QED
  BY <1>1, <1>2, PTL DEF Spec, JobsSpec

\* Whatever the other parts do, that of files and datasets behaves as on its own.
LEMMA AssetsAmongOthers == Spec => AssetsSpec
<1>1. Init => InitAssets
  BY DEF Init
<1>2. [Next]_servicesVars => [NextAssets]_assetsVars
  BY DEF Next, Only, servicesVars
<1> QED
  BY <1>1, <1>2, PTL DEF Spec, AssetsSpec

\* Whatever the other parts do, the tree of taxons behaves as on its own.
LEMMA TaxonsAmongOthers == Spec => TaxonsSpec
<1>1. Init => InitTaxons
  BY DEF Init
<1>2. [Next]_servicesVars => [NextTaxons]_taxonsVars
  BY DEF Next, Only, servicesVars
<1> QED
  BY <1>1, <1>2, PTL DEF Spec, TaxonsSpec

\* Whatever the other parts do, that of tenants behaves as on its own.
LEMMA TenantsAmongOthers == Spec => U!Spec
<1>1. Init => U!Init
  BY DEF Init
<1>2. [Next]_servicesVars => [U!Next]_(U!tenantsVars)
  BY DEF Next, Only, servicesVars, tenantsVars, U!tenantsVars
<1> QED
  BY <1>1, <1>2, PTL DEF Spec, U!Spec

\* Whatever the other parts do, that of models behaves as on its own.
LEMMA ModelsAmongOthers == Spec => M!Spec
<1>1. Init => M!Init
  BY DEF Init
<1>2. [Next]_servicesVars => [M!Next]_(M!modelsVars)
  BY DEF Next, Only, servicesVars, modelsVars, M!modelsVars
<1> QED
  BY <1>1, <1>2, PTL DEF Spec, M!Spec

\* Whatever the other parts do, that of taxonomies behaves as on its own.
LEMMA TaxonomiesAmongOthers == Spec => X!Spec
<1>1. Init => X!Init
  BY DEF Init
<1>2. [Next]_servicesVars => [X!Next]_(X!taxonomiesVars)
  BY DEF Next, Only, servicesVars, taxonomiesVars, X!taxonomiesVars
<1> QED
  BY <1>1, <1>2, PTL DEF Spec, X!Spec

\* Whatever the other parts do, that of trainings behaves as on its own.
LEMMA TrainingsAmongOthers == Spec => N!Spec
<1>1. Init => N!Init
  BY DEF Init
<1>2. [Next]_servicesVars => [N!Next]_(N!trainingsVars)
  BY DEF Next, Only, servicesVars, trainingsVars, N!trainingsVars
<1> QED
  BY <1>1, <1>2, PTL DEF Spec, N!Spec

\* Whatever the other parts do, that of pipelines behaves as on its own.
LEMMA CatalogueAmongOthers == Spec => C!Spec
<1>1. Init => C!Init
  BY DEF Init
<1>2. [Next]_servicesVars => [C!Next]_(C!catalogueVars)
  BY DEF Next, Only, servicesVars, catalogueVars, C!catalogueVars
<1> QED
  BY <1>1, <1>2, PTL DEF Spec, C!Spec

-----------------------------------------------------------------------------
(* What the parts promise *)

\* For any requests, jobs and faults: no job that a manager does not start before
\* its time is finished before its annotation is, nor annotated before its
\* extraction, as long as a PUT changes the type of a job only to convert it
\* (change_job).
THEOREM JobPartsInOrder ==
    ASSUME UsersConvert
    PROVE  Spec => []PartsInOrder
<1>1. FinishedMeansAnnotated /\ ManualAfterExtraction => PartsInOrder
  BY DEF PartsInOrder
<1> QED
  BY <1>1, JobsAmongOthers, FinishedJobsAreAnnotated, ManualFollowsExtraction, PTL

\* For any files, datasets, requests and faults: the count of a dataset is the
\* number of its files (db/service.py, main.py).
THEOREM CountsStayBonds == Spec => []CountsAreBonds
BY AssetsAmongOthers, CountsMatch, PTL

\* For any files, requests and faults: what is said to be uploaded can be
\* downloaded, and without a fault every file is uploaded in the end
\* (FileProcessor.run, delete_file_from_minio, stream_minio).
THEOREM UploadsStayServed == Spec => []UploadsAreServed
<1>1. UploadedIsServed /\ UploadsSettle => UploadsAreServed
  BY DEF UploadsAreServed
<1> QED
  BY <1>1, AssetsAmongOthers, UploadedAreServed, UploadsEnd, PTL

\* For any tenants, users and overlapping requests: a tenant has its bucket, a
\* user the tenants granted to him, and who is registered was invited
\* (create_tenant, add_user_to_tenant, remove_user_from_tenant).
THEOREM TenantsStayInAgreement == Spec => []TenantsAgree
<1>1. TenantInv => TenantsAgree
  BY DEF TenantInv, TenantsAgree
<1>2. U!Spec => []TenantInv
  BY TenantInit, TenantNext, PTL DEF U!Spec
<1> QED
  BY <1>1, <1>2, TenantsAmongOthers, PTL

\* For any taxons and overlapping requests: what a search says of the parents of a
\* taxon agrees with the rows, unless a taxon was moved below itself or a path
\* changed after its request had read it (update_taxon_tree, _get_parents).
THEOREM ParentsStayInAgreement ==
    ASSUME Root \notin TaxonId
    PROVE  Spec => []ParentsAgree
BY TaxonsAmongOthers, ParentsStayAgreed, PTL

\* For any numbers of requests, names and versions: what is marked as latest is
\* the highest version of its taxonomy, model or pipeline, with the exceptions
\* the properties of the three parts name (create_new_version,
\* update_version, set_latest).
THEOREM LatestStaysHighest ==
    ASSUME MaxModelVersion \in Nat, MaxTaxonomyVersion \in Nat,
           "none" \notin TaxTenant, CatalogueBounds
    PROVE  Spec => []LatestIsHighest
<1>1. /\ C!LatestPipelineIsHighest /\ X!LatestIsHighest /\ M!LatestModelIsHighest
      => LatestIsHighest
  BY DEF LatestIsHighest
<1>2. C!Spec => []C!LatestPipelineIsHighest
  BY LatestPipelineIsMarked
<1>3. X!Spec => []X!LatestIsHighest
  BY LatestTaxonomyStaysHighest
<1>4. M!Spec => []M!LatestModelIsHighest
  BY LatestModelStaysHighest
<1> QED
  BY <1>1, <1>2, <1>3, <1>4, CatalogueAmongOthers, TaxonomiesAmongOthers,
     ModelsAmongOthers, PTL

\* For any numbers of requests and faults: the version of a model that runs says
\* so, its service and its mapping are there together, and a training is run
\* with its own files (deploy_model, undeploy_model, start_training).
THEOREM DeploymentStaysInAgreement ==
    ASSUME MaxModelVersion \in Nat
    PROVE  Spec => []DeploymentAgrees
<1>1. (M!DeployedSaysSo /\ M!MappedWhenServed) /\ N!TrainingRunsItsFiles
      => DeploymentAgrees
  BY DEF DeploymentAgrees
<1>2. M!Spec => [](M!DeployedSaysSo /\ M!MappedWhenServed)
  BY DeploymentsAgree
<1> QED
  BY <1>1, <1>2, TrainingsRunTheirFiles, ModelsAmongOthers, TrainingsAmongOthers, PTL

=============================================================================
